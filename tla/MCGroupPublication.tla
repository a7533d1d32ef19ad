------------------------ MODULE MCGroupPublication -------------------------
(* Two parts; an earlier review of the head looks like the second one.      *)
EXTENDS GroupPublication, TLC
MCSizes   == <<1, 2>>
MCEarlier == <<2>>
=============================================================================

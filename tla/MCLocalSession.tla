-------------------------- MODULE MCLocalSession ---------------------------
(***************************************************************************)
(* LocalSession for TLC: pieces of work "a1" and "a2" on head "a" and "b1" *)
(* on head "b".                                                            *)
(***************************************************************************)
EXTENDS LocalSession

MCHeadOf == [w \in {"a1", "a2", "b1"} |-> IF w = "b1" THEN "b" ELSE "a"]
=============================================================================

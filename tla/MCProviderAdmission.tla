----------------------- MODULE MCProviderAdmission -----------------------
(* Instances of ProviderAdmission for TLC, and the slips its properties   *)
(* are there to catch.                                                     *)
EXTENDS ProviderAdmission, TLC

CONSTANTS t1, t2, t3

MCThreads   == {t1, t2, t3}
MCDeadlined == {t2, t3}
=============================================================================

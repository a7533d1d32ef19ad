------------------------------ MODULE MCApiRun ------------------------------
(* Instances of ApiRun for TLC.  The allowance is the smallest that lets   *)
(* each owner write one record from its work part and two from its         *)
(* terminal part, beside the startup of both attempts.                     *)
EXTENDS ApiRun

CONSTANTS Startup1, Startup2

MCStartupSlots == <<Startup1, Startup2>>
=============================================================================

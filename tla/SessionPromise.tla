--------------------------- MODULE SessionPromise ---------------------------
(***************************************************************************)
(* What the review session of a pull request promises whoever pays for the *)
(* analyses and reads their results (ADR 0047, 0056, 0063): no             *)
(* generations, no replace that can fail half way, no cleanup.             *)
(*                                                                         *)
(* A round is held before it is analysed, by one analysis at a time, and   *)
(* only within the retry budget of its head.  A hold ends in a result, in  *)
(* nothing, or in the hold of a charge.  A result stays until the next     *)
(* round is admitted; every charge is backed by a failure of its own.  A   *)
(* budget starts afresh only under a new licence.                          *)
(***************************************************************************)
EXTENDS Naturals

CONSTANTS Works, HeadOf, MaxFailed, Ceiling, RoundCeiling, Contents, Procs, None

VARIABLES
  session,    \* what the reader knows of the session, None when there is none
  analysing,  \* the invocations whose provider runs
  failures,   \* analyses of the present head that failed
  licences    \* how many more sessions may be enrolled

vars == <<session, analysing, failures, licences>>

Rounds  == [work : Works, grant : Nat, charge : BOOLEAN]
Head(round) == HeadOf[round.work]

Afresh ==
  [hold |-> None, last |-> None, result |-> None, initial |-> 0, verification |-> 0,
   failed |-> 0, head |-> None, granted |-> {}, paused |-> FALSE]

Init ==
  /\ session = None /\ analysing = {}
  /\ failures = 0 /\ licences = 1

-----------------------------------------------------------------------------
(* The session                                                             *)

Enrol ==
  /\ session = None /\ licences > 0
  /\ session' = Afresh /\ failures' = 0 /\ licences' = licences - 1
  /\ UNCHANGED analysing

License ==
  /\ licences' = licences + 1
  /\ UNCHANGED <<session, analysing, failures>>

\* The record is deleted, or unlinked by a re-enrolment.
Vanish ==
  /\ analysing = {}
  /\ session' = None
  /\ UNCHANGED <<analysing, failures, licences>>

-----------------------------------------------------------------------------
(* Rounds                                                                  *)

FailedFor(head) == IF session.head = head THEN session.failed ELSE 0

WithinBudget(head) ==
  \/ FailedFor(head) < MaxFailed
  \/ head \in session.granted /\ FailedFor(head) < Ceiling

Free == session # None /\ session.hold = None

\* A hold is for one head; another head starts a new count of failures.
Hold(round) ==
  /\ session' = [session EXCEPT !.hold = round, !.result = None,
                   !.head = Head(round), !.failed = FailedFor(Head(round)),
                   !.granted = @ \ {Head(round)}]
  /\ failures' = IF session.head = Head(round) THEN failures ELSE 0
  /\ UNCHANGED <<analysing, licences>>

Admit(round) ==
  /\ Free /\ ~session.paused
  /\ ~round.charge /\ session.last # round /\ WithinBudget(Head(round))
  /\ Hold(round)

\* Nothing else is lost by a charge.
HoldCharge(round) ==
  /\ Free /\ round.charge
  /\ session.result = None /\ session.head = Head(round)
  /\ Hold(round)

Analysed == session # None /\ session.hold # None /\ ~session.hold.charge

Begin(p) ==
  /\ Analysed /\ analysing = {}
  /\ analysing' = {p}
  /\ UNCHANGED <<session, failures, licences>>

Stop ==
  /\ analysing # {} /\ analysing' = {}
  /\ failures' \in {failures, failures + 1}
  /\ UNCHANGED <<session, licences>>

\* An analysis that never ran to its end, or whose result was not kept.
Fail ==
  /\ failures' = failures + 1
  /\ UNCHANGED <<session, analysing, licences>>

More(n, bound) == IF n < bound THEN n + 1 ELSE bound

\* A complete result counts as the first round or as one that verifies it.
Complete(content) ==
  /\ Analysed /\ analysing = {}
  /\ session' = [session EXCEPT !.hold = None, !.last = session.hold,
       !.result = [round |-> session.hold, result |-> [complete |-> TRUE, content |-> content]],
       !.initial = IF @ = 0 THEN More(@, RoundCeiling) ELSE @,
       !.verification = IF session.initial = 0 THEN @ ELSE More(@, RoundCeiling)]
  /\ UNCHANGED <<analysing, failures, licences>>

\* A partial one counts as a failure.
Partial(content) ==
  /\ Analysed /\ analysing = {}
  /\ session.failed < failures
  /\ session' = [session EXCEPT !.hold = None, !.last = session.hold,
       !.result = [round |-> session.hold, result |-> [complete |-> FALSE, content |-> content]],
       !.failed = More(@, Ceiling)]
  /\ UNCHANGED <<analysing, failures, licences>>

GiveUp ==
  /\ Analysed /\ analysing = {}
  /\ session' = [session EXCEPT !.hold = None]
  /\ UNCHANGED <<analysing, failures, licences>>

Charge ==
  /\ session # None /\ session.hold # None /\ session.hold.charge
  /\ session.failed < failures
  /\ session' = [session EXCEPT !.hold = None, !.last = session.hold,
                                !.failed = More(@, Ceiling)]
  /\ UNCHANGED <<analysing, failures, licences>>

-----------------------------------------------------------------------------
(* Commands                                                                *)

Pause ==
  /\ session # None
  /\ session' = [session EXCEPT !.paused = TRUE]
  /\ UNCHANGED <<analysing, failures, licences>>

Continue ==
  /\ Free
  /\ session' = [session EXCEPT !.paused = FALSE]
  /\ UNCHANGED <<analysing, failures, licences>>

\* An exhausted budget below the hard ceiling gets one more round.
Grant ==
  /\ Free /\ session.result = None
  /\ session.head # None /\ session.failed \in MaxFailed .. (Ceiling - 1)
  /\ session' = [session EXCEPT !.paused = FALSE, !.granted = @ \cup {session.head}]
  /\ UNCHANGED <<analysing, failures, licences>>

\* The hold that a step takes up is the one it leaves.
TakeUp ==
  /\ session' # None /\ session'.hold \in Rounds
  /\ Admit(session'.hold) \/ HoldCharge(session'.hold)

Next ==
  \/ Enrol \/ License \/ Vanish
  \/ TakeUp
  \/ \E p \in Procs : Begin(p)
  \/ Stop \/ Fail
  \/ \E content \in Contents : Complete(content) \/ Partial(content)
  \/ GiveUp \/ Charge \/ Pause \/ Continue \/ Grant

Spec == Init /\ [][Next]_vars
=============================================================================

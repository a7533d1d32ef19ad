--------------------------- MODULE LocalSession ----------------------------
(***************************************************************************)
(* Invocations of the review CLI and of the session commands over a local  *)
(* session ledger (session.py, LocalSessionLedger and the round functions; *)
(* cli.py, admission, checkpoint and cleanup; disposition.py, the pause    *)
(* and continue commands).                                                 *)
(*                                                                         *)
(* The ledger is a record file and an enrolment witness.  Every change of  *)
(* the record is one `replace`: load and apply a transition, read again to *)
(* compare (fence), put the new file in place (write), read it back.  The  *)
(* documented contract is one writer at a time; `Exclusive` says whether   *)
(* that holds for each replace.                                            *)
(*                                                                         *)
(* A review reserves a round, attaches its transaction, runs the provider, *)
(* checkpoints the result, and on a failure cleans its reservation up: an  *)
(* abort and, when the attempt is charged, the reservation and the commit  *)
(* of a failed-attempt slot.                                               *)
(***************************************************************************)
EXTENDS SessionRecord

CONSTANTS
  Procs,       \* invocations that may be running
  Tasks,       \* what an invocation may be asked to do
  Exclusive,   \* no two replaces overlap
  Faults,      \* which of "crash", "interrupt", "io", "expire", "delete" occur
  MaxStarts    \* bound on the number of invocations

ASSUME TasksAssumption ==
  Tasks \subseteq {"review", "pause", "continue", "grant", "reenroll"}
ASSUME FaultsAssumption ==
  Faults \subseteq {"crash", "interrupt", "io", "expire", "delete"}
ASSUME BoundAssumption == MaxStarts \in Nat

VARIABLES
  file,         \* the session record file, None when there is none
  witness,      \* whether the enrolment witness exists
  expired,      \* whether expires_at of the file has passed
  proc,         \* where each invocation stands and what it remembers
  starts,       \* invocations started so far
  enrolled,     \* records created so far
  retired,      \* witnesses retired by a re-enrolment so far
  finished,     \* reservations for which the provider returned a complete result
  attempts,     \* failed or partial analyses since the failed head was set
  interrupted,  \* interrupted ones among the analyses that were cleaned up
  holder,       \* the invocation that wrote the latest reservation
  leaked        \* a hold was left behind by a crash, or by an error or an
                \* interrupt inside admission or cleanup

ledger  == <<file, witness, expired, enrolled, retired>>
history == <<finished, attempts, interrupted, holder, leaked>>
vars    == <<ledger, proc, starts, history>>

ReplacePcs == {"reserve", "attach", "checkpoint", "abort", "chargeReserve",
               "chargeCommit", "pause", "unpause", "grant"}
Stages     == {"load", "fence", "write", "readback"}

ASSUME StagesAssumption == None \notin Stages

Idle ==
  [pc |-> "idle", stage |-> None, task |-> None, id |-> None, slot |-> None,
   gen |-> 0, result |-> None, charge |-> FALSE, old |-> None, new |-> None]

Become(p, next)  == proc' = [proc EXCEPT ![p] = next]
End(p)           == Become(p, Idle)
Goto(p, pc)      == Become(p, [proc[p] EXCEPT !.pc = pc, !.stage = None])
Replace(s, pc)   == [s EXCEPT !.pc = pc, !.stage = "load"]

Readable  == file # None /\ ~expired
\* Slip: a deleted record looks like a session never enrolled.
MissingSlip == file = None

Missing == file = None /\ ~witness
Held      == file # None /\ file.res # None
ChargeId(id) == [id EXCEPT !.charge = TRUE]

\* With exclusive replaces nobody moves while another one is between the load
\* and the read-back of a replace.
MayStep(p) ==
  Exclusive => \A q \in Procs \ {p} : proc[q].stage \notin Stages \ {"load"}

Init ==
  /\ file = None /\ witness = FALSE /\ expired = FALSE
  /\ proc = [p \in Procs |-> Idle]
  /\ starts = 0 /\ enrolled = 0 /\ retired = 0
  /\ finished = {} /\ attempts = 0 /\ interrupted = 0
  /\ holder = None /\ leaked = FALSE

-----------------------------------------------------------------------------
(* Starting an invocation                                                  *)

\* The round decision: an admitted round goes on to its reservation, any
\* other one ends without touching the ledger.
DecideReview(p, s, r) ==
  LET id == ReservationId(r, s.id.work)
  IN  Become(p, IF Admits(r, id)
                THEN Replace([s EXCEPT !.id = id, !.slot = RoundKind(r), !.gen = r.gen],
                             "reserve")
                ELSE Idle)

\* A command that changes nothing ends; `continue` on a held record is refused,
\* and on an exhausted budget it issues a grant if the actor may.
DecideCommand(p, s, r) ==
  LET pausing == s.task = "pause"
      refused == ~pausing /\ r.res # None
      grants  == s.task = "grant" /\ FailedAttemptsForHead(r, r.failedHead) >= MaxFailed
  IN  Become(p, IF refused \/ (~grants /\ r.paused = pausing)
                THEN Idle
                ELSE IF grants
                     THEN Replace(s, "grant")
                     ELSE Replace([s EXCEPT !.gen = r.gen],
                                  IF pausing THEN "pause" ELSE "unpause"))

Decide(p, s, r) ==
  CASE s.task = "review"   -> DecideReview(p, s, r)
    [] s.task = "reenroll" -> End(p)
    [] OTHER               -> DecideCommand(p, s, r)

\* An invocation loads the session.  One that refuses what it finds changes
\* nothing and is not a step: an expired record, a record missing after
\* enrolment, a re-enrolment of anything else.
Start(p) ==
  /\ proc[p].pc = "idle" /\ starts < MaxStarts /\ MayStep(p)
  /\ starts' = starts + 1
  /\ \E task \in Tasks, work \in Works :
       LET s == [Idle EXCEPT !.task = task,
                             !.id = [work |-> work, grant |-> 0, charge |-> FALSE]]
       IN  \/ task # "reenroll" /\ Readable /\ Decide(p, s, file)
           \/ task # "reenroll" /\ Missing /\ Become(p, [s EXCEPT !.pc = "witness"])
           \/ /\ task = "reenroll"
              /\ expired \/ (file = None /\ witness)
              /\ Become(p, [s EXCEPT !.pc = "retire"])
  /\ UNCHANGED <<ledger, history>>

-----------------------------------------------------------------------------
(* Enrolment: the witness first, then the record, both created exclusively *)

CreateWitness(p) ==
  /\ proc[p].pc = "witness" /\ MayStep(p)
  /\ IF Missing
     THEN witness' = TRUE /\ Goto(p, "link")
     ELSE UNCHANGED witness /\ End(p)
  /\ UNCHANGED <<file, expired, enrolled, retired, starts, history>>

\* The link may be in place although its directory could not be synced.
LinkRecord(p) ==
  /\ proc[p].pc = "link" /\ MayStep(p)
  /\ IF file = None
     THEN /\ file' = Fresh(enrolled + 1)
          /\ enrolled' = enrolled + 1
          /\ expired' = FALSE
          /\ attempts' = 0 /\ interrupted' = 0 /\ leaked' = FALSE
          /\ \/ Decide(p, proc[p], Fresh(enrolled + 1))
             \/ "io" \in Faults /\ End(p)
     ELSE UNCHANGED <<file, enrolled, expired, attempts, interrupted, leaked>> /\ End(p)
  /\ UNCHANGED <<witness, retired, starts, finished, holder>>

\* Re-enrolment unlinks the witness and then the record.
RetireWitness(p) ==
  /\ proc[p].pc = "retire" /\ MayStep(p)
  /\ witness' = FALSE
  /\ retired' = IF witness THEN retired + 1 ELSE retired
  /\ Goto(p, "unlink")
  /\ UNCHANGED <<file, expired, enrolled, starts, history>>

UnlinkRecord(p) ==
  /\ proc[p].pc = "unlink" /\ MayStep(p)
  /\ file' = None /\ expired' = FALSE
  /\ Goto(p, "witness")
  /\ UNCHANGED <<witness, enrolled, retired, starts, history>>

-----------------------------------------------------------------------------
(* What a replace is called for                                            *)

Accepts(s, r) ==
  CASE s.pc = "reserve"       -> ReserveAccepts(r, s.id, s.slot, s.gen)
    [] s.pc = "attach"        -> AttachAccepts(r, s.id, s.gen)
    [] s.pc = "checkpoint"    -> CheckpointAccepts(r, s.id, s.gen, s.result)
    [] s.pc = "abort"         -> AbortAccepts(r, s.id, s.gen)
    [] s.pc = "chargeReserve" -> ReserveAccepts(r, ChargeId(s.id), "failed-attempt", s.gen)
    [] s.pc = "chargeCommit"  -> CommitAccepts(r, ChargeId(s.id), s.gen)
    [] s.pc = "grant"         -> GrantAccepts(r)
    [] OTHER                  -> r.gen = s.gen

Outcome(s, r) ==
  CASE s.pc = "reserve"       -> Reserved(r, s.id, s.slot)
    [] s.pc = "attach"        -> Attached(r, s.id)
    [] s.pc = "checkpoint"    -> Checkpointed(r, s.id, s.result)
    [] s.pc = "abort"         -> Aborted(r)
    [] s.pc = "chargeReserve" -> Reserved(r, ChargeId(s.id), "failed-attempt")
    [] s.pc = "chargeCommit"  -> Committed(r, ChargeId(s.id))
    [] s.pc = "grant"         -> Granted(r)
    [] OTHER                  -> OperatorPaused(r, s.pc = "pause")

\* Where the invocation goes once the replace has returned its record.
Proceed(p) ==
  LET s == [proc[p] EXCEPT !.gen = proc[p].new.gen, !.old = None, !.new = None]
  IN  Become(p, CASE s.pc = "reserve"            -> Replace(s, "attach")
                  [] s.pc = "attach"             -> [s EXCEPT !.pc = "running", !.stage = None]
                  [] s.pc = "abort" /\ s.charge  -> Replace(s, "chargeReserve")
                  [] s.pc = "chargeReserve"      -> Replace(s, "chargeCommit")
                  [] OTHER                       -> Idle)

-----------------------------------------------------------------------------
(* Failures of an invocation                                               *)

\* A cleanup that charges the attempt counts it once: a partial result was
\* counted when the provider returned it.
CountFailure(p, cause) ==
  LET counted == proc[p].result # None /\ ~proc[p].result.complete
  IN  /\ attempts' = IF ~counted /\ cause = "error" THEN attempts + 1 ELSE attempts
      /\ interrupted' = IF ~counted /\ cause = "interrupt" THEN interrupted + 1
                                                           ELSE interrupted

CleanUp(p, charge) ==
  Become(p, [proc[p] EXCEPT !.pc = "cleanup", !.stage = None, !.charge = charge,
                            !.old = None, !.new = None])

\* Slip: an exception around the checkpoint is not cleaned up.
UnwindSlip(p, cause) == End(p) /\ UNCHANGED <<attempts, interrupted>>

\* An exception unwinds.  Around the checkpoint every exception, an interrupt
\* included, starts a charging cleanup; before the analysis has started, and in
\* the cleanup itself, nothing more is done.
Unwind(p, cause) ==
  IF proc[p].pc = "checkpoint"
  THEN CleanUp(p, TRUE) /\ CountFailure(p, cause)
  ELSE End(p) /\ UNCHANGED <<attempts, interrupted>>

-----------------------------------------------------------------------------
(* The steps of a replace                                                  *)

Load(p) ==
  /\ proc[p].stage = "load" /\ MayStep(p)
  /\ IF Readable /\ Accepts(proc[p], file)
     THEN /\ Become(p, [proc[p] EXCEPT !.stage = "fence", !.old = file,
                                       !.new = Outcome(proc[p], file)])
          /\ UNCHANGED history
     ELSE Unwind(p, "error") /\ UNCHANGED <<finished, holder, leaked>>
  /\ UNCHANGED <<ledger, starts>>

Fence(p) ==
  /\ proc[p].stage = "fence" /\ MayStep(p)
  /\ IF file = proc[p].old
     THEN Become(p, [proc[p] EXCEPT !.stage = "write"]) /\ UNCHANGED history
     ELSE Unwind(p, "error") /\ UNCHANGED <<finished, holder, leaked>>
  /\ UNCHANGED <<ledger, starts>>

\* os.replace puts the record in place whatever has happened since the fence.
\* A new failed head starts a new count of failures.
Write(p) ==
  /\ proc[p].stage = "write" /\ MayStep(p)
  /\ file' = proc[p].new
  /\ Become(p, [proc[p] EXCEPT !.stage = "readback"])
  /\ LET sameHead == file # None /\ file.failedHead = file'.failedHead
     IN  /\ attempts'    = IF sameHead THEN attempts ELSE 0
         /\ interrupted' = IF sameHead THEN interrupted ELSE 0
  /\ holder' = IF proc[p].pc \in {"reserve", "chargeReserve"} /\ proc[p].new # proc[p].old
               THEN p ELSE holder
  /\ UNCHANGED <<witness, expired, enrolled, retired, starts, finished, leaked>>

ReadBack(p) ==
  /\ proc[p].stage = "readback" /\ MayStep(p)
  /\ IF file = proc[p].new
     THEN Proceed(p) /\ UNCHANGED history
     ELSE Unwind(p, "error") /\ UNCHANGED <<finished, holder, leaked>>
  /\ UNCHANGED <<ledger, starts>>

-----------------------------------------------------------------------------
(* The analysis and its cleanup                                            *)

\* The provider returns a result whose artifacts are then persisted and
\* checkpointed.
Analyse(p) ==
  /\ proc[p].pc = "running"
  /\ \E result \in Results :
       /\ Become(p, Replace([proc[p] EXCEPT !.result = result], "checkpoint"))
       /\ finished' = IF result.complete
                      THEN finished \cup {[id |-> proc[p].id, gen |-> proc[p].gen]}
                      ELSE finished
       /\ attempts' = IF result.complete THEN attempts ELSE attempts + 1
  /\ UNCHANGED <<ledger, starts, interrupted, holder, leaked>>

\* A failed analysis is charged; an unusable durable baseline is not.
AnalysisFails(p) ==
  /\ proc[p].pc = "running"
  /\ CleanUp(p, TRUE) /\ CountFailure(p, "error")
  /\ UNCHANGED <<ledger, starts, finished, holder, leaked>>

BaselineUnusable(p) ==
  /\ proc[p].pc = "running"
  /\ proc[p].slot = "verification"
  /\ CleanUp(p, FALSE)
  /\ UNCHANGED <<ledger, starts, history>>

\* Slip: the hold is not compared with its own.
OwnedSlip(p) == TRUE

\* Cleanup touches only a hold that is still its own.
Owned(p) == file.res = proc[p].id

Cleanup(p) ==
  /\ proc[p].pc = "cleanup" /\ MayStep(p)
  /\ IF Readable /\ Owned(p)
     THEN Become(p, Replace([proc[p] EXCEPT !.gen = file.gen], "abort"))
     ELSE End(p)
  /\ UNCHANGED <<ledger, starts, history>>

-----------------------------------------------------------------------------
(* Faults                                                                  *)

Leaves(p) == leaked' = (leaked \/ (Held /\ proc[p].pc # "checkpoint"))

\* A read or a write of the ledger fails: at "write" before the new file is in
\* place, at "readback" after.
IOError(p) ==
  /\ "io" \in Faults /\ MayStep(p)
  /\ proc[p].stage \in Stages \/ proc[p].pc \in {"witness", "link", "retire", "unlink", "cleanup"}
  /\ Unwind(p, "error") /\ Leaves(p)
  /\ UNCHANGED <<ledger, starts, finished, holder>>

\* SIGINT or SIGTERM.  While the provider runs it is cleaned up uncharged.
Interrupt(p) ==
  /\ "interrupt" \in Faults /\ MayStep(p)
  /\ proc[p].pc # "idle"
  /\ IF proc[p].pc = "running"
     THEN CleanUp(p, FALSE) /\ UNCHANGED <<attempts, interrupted, leaked>>
     ELSE Unwind(p, "interrupt") /\ Leaves(p)
  /\ UNCHANGED <<ledger, starts, finished, holder>>

Crash(p) ==
  /\ "crash" \in Faults /\ MayStep(p)
  /\ proc[p].pc # "idle"
  /\ End(p)
  /\ leaked' = (leaked \/ Held)
  /\ UNCHANGED <<ledger, starts, finished, holder, attempts, interrupted>>

Expire ==
  /\ "expire" \in Faults /\ file # None /\ ~expired
  /\ expired' = TRUE
  /\ UNCHANGED <<file, witness, enrolled, retired, proc, starts, history>>

\* The record file is removed behind the ledger's back.
Delete ==
  /\ "delete" \in Faults /\ file # None
  /\ \A p \in Procs : proc[p].pc = "idle"
  /\ file' = None /\ expired' = FALSE
  /\ UNCHANGED <<witness, enrolled, retired, proc, starts, history>>

-----------------------------------------------------------------------------
Next ==
  \/ \E p \in Procs :
       \/ Start(p) \/ CreateWitness(p) \/ LinkRecord(p)
       \/ RetireWitness(p) \/ UnlinkRecord(p)
       \/ Load(p) \/ Fence(p) \/ Write(p) \/ ReadBack(p)
       \/ Analyse(p) \/ AnalysisFails(p) \/ BaselineUnusable(p) \/ Cleanup(p)
       \/ IOError(p) \/ Interrupt(p) \/ Crash(p)
  \/ Expire
  \/ Delete

Spec == Init /\ [][Next]_vars

-----------------------------------------------------------------------------
(* Properties                                                              *)

Pcs == {"idle", "witness", "link", "retire", "unlink", "running", "cleanup"} \cup ReplacePcs

Invocations ==
  [pc : Pcs, stage : Stages \cup {None}, task : Tasks \cup {None}, id : Ids \cup {None},
   slot : Slots \cup {None}, gen : Nat, result : Results \cup {None}, charge : BOOLEAN,
   old : Records \cup {None}, new : Records \cup {None}]

\* The record and every invocation keep their types: the counts of the record
\* saturate at their storage bounds.
TypeOK ==
  /\ file \in Records \cup {None}
  /\ witness \in BOOLEAN /\ expired \in BOOLEAN /\ leaked \in BOOLEAN
  /\ proc \in [Procs -> Invocations]
  /\ starts \in 0..MaxStarts
  /\ finished \subseteq [id : Ids, gen : Nat]
  /\ holder \in Procs \cup {None}
  /\ {enrolled, retired, attempts, interrupted} \subseteq Nat

\* No sequence of accepted transitions, in whatever order two invocations
\* write them, builds a record whose constructor would refuse it: the ledger
\* can always be read back.
StoredRecordWellFormed == file # None => WellFormed(file)

\* Every exit after admission cleans its reservation up (ADR 0063): with one
\* writer, a hold on a live record belongs to a running invocation unless a
\* crash, or a failure inside admission or cleanup, left it behind.
HoldHasWriter ==
  Held /\ ~expired /\ ~leaked => proc[holder].task = "review"

\* Cleanup and the next admission never lose a checkpointed result: a
\* transaction awaiting publication leaves the record only for the
\* reservation of another admitted analysis.
CheckpointSurvives ==
  [][file # None /\ file' # None /\ file.born = file'.born /\ Publishable(file)
       => \/ file'.tx = file.tx
          \/ file'.res # None /\ file'.slot # "failed-attempt" /\ file'.res # file.tx.id]_vars

\* A session's budget starts afresh only once a re-enrolment has retired the
\* witness, whatever is deleted and wherever an enrolment is interrupted.
FreshOnlyByReenrolment == enrolled <= retired + 1

\* One failed or partial analysis is charged at most once, and only to the
\* head it was run on, although the ledger may fail after it has written.
NeverOvercharged == file # None => file.failed <= attempts + interrupted

\* A round is admitted on the record it is reserved in: no pause, hold,
\* exhausted budget or commit of the same id came between the decision of
\* prepare_session_round and the write.
AdmissionIsCurrent ==
  [][file' # None /\ file'.res # None /\ file'.slot # "failed-attempt" /\ ~Held
       => file # None /\ Admits(file, file'.res)]_vars

\* Two invocations never pay for an analysis of the same pull request at the
\* same time.
OneAnalysisAtATime ==
  \A p, q \in Procs : proc[p].pc = "running" /\ proc[q].pc = "running" => p = q

\* Concurrent invocations may lose a round to a race but never count one
\* reservation twice, nor a partial result (ADR 0047).
RoundsAreBacked ==
  file # None => file.initial + file.verification <= Cardinality(finished)

\* The per-head retry bound (ADR 0056): no analysis runs once as many
\* analyses of its head have failed as the policy allows.
RetryBoundBinds ==
  \A p \in Procs : proc[p].pc = "running" => attempts < MaxFailed

\* What the reader of the record sees: not its generation, the transaction of
\* an analysis under way, or the baseline.
LastResult(r) == IF Publishable(r) THEN [round |-> r.tx.id, result |-> r.tx.result] ELSE None
HeadsOf(open) == {g.head : g \in open}

Seen(r) ==
  [hold |-> r.res, last |-> r.last, result |-> LastResult(r),
   initial |-> r.initial, verification |-> r.verification,
   failed |-> r.failed, head |-> r.failedHead,
   granted |-> HeadsOf(r.grants), paused |-> r.paused]

Views ==
  [hold : Ids \cup {None}, last : Ids \cup {None},
   result : [round : Ids, result : Results \cup {None}] \cup {None},
   initial : Nat, verification : Nat, failed : Nat, head : Heads \cup {None},
   granted : SUBSET Heads, paused : BOOLEAN]

ASSUME ViewsAssumption == None \notin Views

Session == IF file = None THEN None ELSE Seen(file)

Running == {p \in Procs : proc[p].pc = "running"}

Promise == INSTANCE SessionPromise
  WITH session <- Session, analysing <- Running, failures <- attempts + interrupted,
       licences <- retired + 1 - enrolled

\* Replaces of four steps, generations and cleanups together look like single
\* operations on the session, each legal where it happens.
Promised == Promise!Spec
=============================================================================

----------------------- MODULE LocalSessionRoundProofs -----------------------
(***************************************************************************)
(* What a local session promises of its budget and its rounds, for every   *)
(* number of invocations and pieces of work.                               *)
(*                                                                         *)
(* Two promises need nothing of the callers: the budget starts afresh only *)
(* by a re-enrolment, and no round is counted twice, whatever races and    *)
(* whatever fails.  An admission is current with one writer, or with       *)
(* several whose replaces do not overlap and that do not re-enrol.  That   *)
(* an analysis is alone, that its checkpoint survives and that it is       *)
(* charged at most once holds with one writer whatever fails, and with     *)
(* several if an invocation fails only by a crash: one that goes on after  *)
(* an error of the ledger may take a later hold of the same work for its   *)
(* own.  Under the same hypothesis the session implements SessionPromise:  *)
(* its replaces look like single operations, each legal where it happens.  *)
(* That only a failure leaves a hold behind is a promise of one writer.    *)
(***************************************************************************)
EXTENDS LocalSessionProofs, FiniteSetTheorems

-----------------------------------------------------------------------------
(* The enrolment, whoever races                                            *)

\* The invocations that have created a witness and not yet linked a record.
Linking == {p \in Procs : proc[p].pc = "link"}

\* Every witness was made for one record and is there or has been retired.
Enrolment ==
  /\ IsFiniteSet(Linking)
  /\ enrolled + Cardinality(Linking) <= retired + (IF witness THEN 1 ELSE 0)

-----------------------------------------------------------------------------
(* The rounds, whoever races                                               *)

\* The complete results of reservations made before a generation.
FinishedBefore(fin, gen) == {f \in fin : f.gen < gen}

\* A hold for a charge has the slot of a charge, an analysis is not one, and
\* every round counted is the result of an earlier reservation of its own.
BackedRecord(r, fin) ==
  /\ r.res # None /\ r.res.charge => r.slot = "failed-attempt"
  /\ r.tx # None => ~r.tx.id.charge
  /\ r.initial + r.verification <= Cardinality(FinishedBefore(fin, r.gen))

BackedInvocation(s, fin) ==
  /\ s.pc # "idle" => ~s.id.charge
  /\ s.pc = "reserve" => s.slot # "failed-attempt"
  /\ s.pc = "checkpoint" /\ s.result.complete => [id |-> s.id, gen |-> s.gen] \in fin
  /\ s.stage \in {"fence", "write", "readback"} => BackedRecord(s.new, fin)

Backed ==
  /\ IsFiniteSet(finished)
  /\ file # None => BackedRecord(file, finished)
  /\ \A p \in Procs : BackedInvocation(proc[p], finished)

-----------------------------------------------------------------------------
(* What the callers promise                                                *)

\* The documented contract: one invocation works on the session.
OneWriter == \A p, q \in Procs : p = q

OnlyCrashes == Faults \subseteq {"crash", "expire", "delete"}

\* Either promise is enough for what is read in a replace to stay true ...
OneRecord == OneWriter \/ (Exclusive /\ "reenroll" \notin Tasks)

\* ... and for a hold to be its writer's.
OwnHolds == OneWriter \/ (Exclusive /\ "reenroll" \notin Tasks /\ OnlyCrashes)

-----------------------------------------------------------------------------
(* What an invocation never forgets, whoever races                         *)

Enrolling == {"witness", "link", "retire", "unlink"}

\* The places of a review that has been admitted.
Working == {"reserve", "attach", "running", "checkpoint", "cleanup", "abort",
            "chargeReserve", "chargeCommit"}

Steady ==
  \A p \in Procs : /\ proc[p].pc \in Enrolling => proc[p].gen = 0
                   /\ proc[p].pc \in Working => proc[p].task = "review"
                   /\ proc[p].pc \in ReplacePcs => proc[p].stage \in Stages

-----------------------------------------------------------------------------
(* One writer at a time                                                    *)

\* The record is created once.
CreatedOnce ==
  /\ retired = 0
  /\ \A p \in Procs : proc[p].pc \notin {"retire", "unlink"}
  /\ enrolled = 0 =>
       file = None /\ \A p \in Procs : proc[p].pc \in {"idle", "witness", "link"} /\ proc[p].gen = 0

Entering == {"load", "fence", "write"}

\* The record an invocation decided on stands, or it is older than the stored
\* one and its reservation will be refused.
Standing(s, r) ==
  r # None => r.gen > s.gen \/ (r.gen = s.gen /\ Admits(r, s.id))

\* No other replace is under way, and either nobody else is or the record is
\* the first one.
Settled == OneWriter \/ (Exclusive /\ CreatedOnce)

\* What is read in a replace is true until it has been written and read back,
\* and the writes that give a hold up have done so.
InReplace(s, r) ==
  /\ s.stage \in {"fence", "write"} =>
       r # None /\ r = s.old /\ Accepts(s, r) /\ s.new = Outcome(s, r)
  /\ s.stage = "readback" =>
       /\ r # None /\ r = s.new
       /\ s.pc \in {"checkpoint", "abort", "chargeCommit"} => r.res = None

CurrentOn(s, r) ==
  /\ r # None => s.gen <= r.gen
  /\ InReplace(s, r)
  /\ s.pc = "reserve" /\ s.stage \in Entering => Standing(s, r)

Current == \A p \in Procs : CurrentOn(proc[p], file)

-----------------------------------------------------------------------------
(* ... and a hold that is its writer's                                     *)

\* An invocation that counts on its hold: an error of the checkpoint may leave
\* its cleanup without one ...
Keeping(s) ==
  \/ s.pc = "running"
  \/ s.pc = "cleanup" /\ OnlyCrashes
  \/ s.pc \in {"checkpoint", "abort"} /\ s.stage \in Entering
  \/ s.pc = "attach" /\ s.stage \in {"fence", "write", "readback"}

\* ... or may find that it has one.
Claiming(s, r) ==
  \/ Keeping(s) \/ s.pc = "cleanup"
  \/ s.pc \in {"attach", "chargeCommit"} /\ s.stage \in Entering /\ s.gen = r.gen
  \/ s.pc \in {"reserve", "chargeReserve"} /\ s.stage = "readback"

Mine(s) == IF s.pc \in {"chargeReserve", "chargeCommit"} THEN ChargeId(s.id) ELSE s.id

Claims(s, r) == r # None /\ Claiming(s, r) /\ r.res = Mine(s)

\* Between its abort and its charge an invocation has no hold, but it has the
\* generation.
Turn(s, r) ==
  /\ r # None
  /\ \/ s.pc = "abort" /\ s.stage = "readback"
     \/ s.pc = "chargeReserve" /\ s.stage \in Entering /\ s.gen = r.gen

AloneOn(s, r) ==
  /\ Keeping(s) => Claims(s, r)
  /\ Turn(s, r) => r.res = None /\ r.tx = None
  /\ Claims(s, r) \/ Turn(s, r) => r.failedHead = HeadOf[s.id.work]

\* The hold is one invocation's at a time.
Alone ==
  /\ \A p \in Procs : AloneOn(proc[p], file)
  /\ \A p, q \in Procs : Claims(proc[p], file) /\ Claims(proc[q], file) => p = q

\* A failure that has been counted and may still be charged.
Charging(s) ==
  \/ s.pc = "checkpoint" /\ s.stage \in Entering /\ ~s.result.complete
  \/ s.pc \in {"cleanup", "abort"} /\ s.charge
  \/ s.pc = "chargeReserve"
  \/ s.pc = "chargeCommit" /\ s.stage \in Entering

Owes(s, r) == Charging(s) /\ (Claims(s, r) \/ Turn(s, r))

\* Before the provider has answered an invocation has no result.
Unanswered == Enrolling \cup {"reserve", "attach", "running"}

Debt == IF \E p \in Procs : Owes(proc[p], file) THEN 1 ELSE 0

Covered ==
  /\ file # None => file.failed + Debt <= attempts + interrupted
  /\ \A p \in Procs : proc[p].pc \in Unanswered => proc[p].result = None

-----------------------------------------------------------------------------
(* ... that is never left behind                                           *)

\* An invocation that has the hold finds everything its next replace asks of
\* the record.
ReadyOn(s, r) ==
  /\ \/ s.pc \in {"attach", "running"}
     \/ s.pc \in {"checkpoint", "abort"} /\ s.stage \in Entering
     => s.gen = r.gen
  /\ \/ s.pc \in {"attach", "running"}
     \/ s.pc = "reserve" /\ s.stage = "readback"
     \/ s.pc = "checkpoint" /\ s.stage \in Entering
     => r.slot # "failed-attempt"
  /\ \/ s.pc = "running"
     \/ s.pc = "attach" /\ s.stage = "readback"
     \/ s.pc = "checkpoint" /\ s.stage \in Entering
     => Analysing(r)
  /\ \/ s.pc = "chargeReserve" /\ s.stage = "readback"
     \/ s.pc = "chargeCommit" /\ s.stage \in Entering
     => r.tx = None

\* A live hold that no failure left behind is in the hand that wrote it.
InHand ==
  /\ \A p \in Procs : Claims(proc[p], file) => ReadyOn(proc[p], file)
  /\ Held /\ ~expired /\ ~leaked => holder \in Procs /\ Claims(proc[holder], file)

-----------------------------------------------------------------------------
(* Steps                                                                   *)

LEMMA BecomeIs ==
  ASSUME GoodProcs, NEW p \in Procs, NEW n, Become(p, n)
  PROVE  proc'[p] = n /\ \A q \in Procs \ {p} : proc'[q] = proc[q]
BY DEF GoodProcs, Become

\* Where the decision on a record leads.
LEMMA DecideIs ==
  ASSUME NEW p \in Procs, NEW s \in Invocations, NEW r, Decide(p, s, r)
  PROVE  \E n :
           /\ Become(p, n)
           /\ \/ n = Idle
              \/ /\ n.pc = "reserve" /\ n.stage = "load" /\ n.slot = RoundKind(r)
                 /\ n.gen = r.gen /\ n.id = ReservationId(r, s.id.work) /\ Admits(r, n.id)
                 /\ n.result = s.result /\ n.task = "review"
              \/ /\ n.pc \in {"pause", "unpause", "grant"} /\ n.stage = "load"
                 /\ n.gen \in {s.gen, r.gen} /\ n.id = s.id
                 /\ n.pc = "unpause" => r.res = None
<1>1. CASE s.task = "review"
  <2> DEFINE id == ReservationId(r, s.id.work)
             n == Replace([s EXCEPT !.id = id, !.slot = RoundKind(r), !.gen = r.gen], "reserve")
  <2>1. CASE Admits(r, id)
    <3>1. Become(p, n)
      BY <1>1, <2>1 DEF Decide, DecideReview
    <3>2. /\ n.pc = "reserve" /\ n.stage = "load" /\ n.slot = RoundKind(r)
          /\ n.gen = r.gen /\ n.id = id /\ n.result = s.result /\ n.task = s.task
      BY DEF Replace, Invocations
    <3> QED BY <1>1, <2>1, <3>1, <3>2
  <2>2. CASE ~Admits(r, id)
    BY <1>1, <2>2 DEF Decide, DecideReview
  <2> QED BY <2>1, <2>2
<1>2. CASE s.task = "reenroll"
  BY <1>2 DEF Decide, End
<1>3. CASE s.task \notin {"review", "reenroll"}
  <2> DEFINE g == Replace(s, "grant")
             a == Replace([s EXCEPT !.gen = r.gen], "pause")
             b == Replace([s EXCEPT !.gen = r.gen], "unpause")
  <2>1. \/ Become(p, Idle) \/ Become(p, g) \/ Become(p, a)
        \/ r.res = None /\ Become(p, b)
    BY <1>3 DEF Decide, DecideCommand
  <2>2. /\ g.pc = "grant" /\ g.stage = "load" /\ g.gen = s.gen /\ g.id = s.id
        /\ a.pc = "pause" /\ a.stage = "load" /\ a.gen = r.gen /\ a.id = s.id
        /\ b.pc = "unpause" /\ b.stage = "load" /\ b.gen = r.gen /\ b.id = s.id
    BY DEF Replace, Invocations
  <2> QED BY <2>1, <2>2
<1> QED BY <1>1, <1>2, <1>3

\* What a finished replace remembers is what it knew, with the generation it
\* has written.
LEMMA ProceedIs ==
  ASSUME IInv, NEW p \in Procs, proc[p].stage = "readback", Proceed(p)
  PROVE  \E n :
           /\ Become(p, n)
           /\ \/ n = Idle /\ proc[p].pc \notin {"reserve", "attach", "chargeReserve"}
              \/ /\ n.gen = proc[p].new.gen /\ n.id = proc[p].id /\ n.slot = proc[p].slot
                 /\ n.result = proc[p].result /\ n.charge = proc[p].charge
                 /\ n.task = proc[p].task
                 /\ \/ proc[p].pc = "reserve" /\ n.pc = "attach" /\ n.stage = "load"
                    \/ proc[p].pc = "attach" /\ n.pc = "running" /\ n.stage = None
                    \/ /\ proc[p].pc = "abort" /\ proc[p].charge
                       /\ n.pc = "chargeReserve" /\ n.stage = "load"
                    \/ /\ proc[p].pc = "chargeReserve"
                       /\ n.pc = "chargeCommit" /\ n.stage = "load"
<1> DEFINE s == [proc[p] EXCEPT !.gen = proc[p].new.gen, !.old = None, !.new = None]
           run == [s EXCEPT !.pc = "running", !.stage = None]
           att == Replace(s, "attach")
           res == Replace(s, "chargeReserve")
           com == Replace(s, "chargeCommit")
<1>1. proc[p] \in Invocations
  BY DEF IInv, GoodProcs
<1>2. s.pc = proc[p].pc /\ s.charge = proc[p].charge
  BY <1>1 DEF Invocations
<1>3. \/ s.pc = "reserve" /\ Become(p, att)
      \/ s.pc = "attach" /\ Become(p, run)
      \/ s.pc = "abort" /\ s.charge /\ Become(p, res)
      \/ s.pc = "chargeReserve" /\ Become(p, com)
      \/ s.pc \notin {"reserve", "attach", "chargeReserve"} /\ Become(p, Idle)
  BY DEF Proceed
<1>4. ASSUME NEW n \in {att, run, res, com}
      PROVE  /\ n.gen = proc[p].new.gen /\ n.id = proc[p].id /\ n.slot = proc[p].slot
             /\ n.result = proc[p].result /\ n.charge = proc[p].charge
             /\ n.task = proc[p].task
  BY <1>1, <1>4 DEF Replace, Invocations
<1>5. /\ att.pc = "attach" /\ att.stage = "load" /\ run.pc = "running" /\ run.stage = None
      /\ res.pc = "chargeReserve" /\ res.stage = "load"
      /\ com.pc = "chargeCommit" /\ com.stage = "load"
  BY <1>1 DEF Replace, Invocations
<1> HIDE DEF s, run, att, res, com
<1> QED BY <1>2, <1>3, <1>4, <1>5

\* An exception ends the invocation or starts its cleanup.
Unwound(p, n, cause) ==
  \/ n = Idle /\ proc[p].pc # "checkpoint" /\ UNCHANGED <<attempts, interrupted>>
  \/ /\ proc[p].pc = "checkpoint" /\ CountFailure(p, cause)
     /\ n.pc = "cleanup" /\ n.stage = None /\ n.id = proc[p].id
     /\ n.gen = proc[p].gen /\ n.charge = TRUE /\ n.task = proc[p].task

LEMMA UnwindIs ==
  ASSUME IInv, NEW p \in Procs, NEW cause, Unwind(p, cause)
  PROVE  \E n : Become(p, n) /\ Unwound(p, n, cause)
<1>1. CASE proc[p].pc = "checkpoint"
  <2> DEFINE n == [proc[p] EXCEPT !.pc = "cleanup", !.stage = None, !.charge = TRUE,
                                  !.old = None, !.new = None]
  <2>1. Become(p, n) /\ CountFailure(p, cause)
    BY <1>1 DEF Unwind, CleanUp
  <2>2. /\ n.pc = "cleanup" /\ n.stage = None /\ n.id = proc[p].id
        /\ n.gen = proc[p].gen /\ n.charge = TRUE /\ n.task = proc[p].task
    BY DEF IInv, GoodProcs, Invocations
  <2> QED BY <1>1, <2>1, <2>2 DEF Unwound
<1>2. CASE proc[p].pc # "checkpoint"
  BY <1>2 DEF Unwind, End, Unwound
<1> QED BY <1>1, <1>2

LEMMA CleanUpIs ==
  ASSUME IInv, NEW p \in Procs, NEW charge \in BOOLEAN, CleanUp(p, charge)
  PROVE  \E n :
           /\ Become(p, n)
           /\ n.pc = "cleanup" /\ n.stage = None /\ n.id = proc[p].id
           /\ n.gen = proc[p].gen /\ n.charge = charge /\ n.task = proc[p].task
<1> DEFINE n == [proc[p] EXCEPT !.pc = "cleanup", !.stage = None, !.charge = charge,
                                !.old = None, !.new = None]
<1>1. Become(p, n)
  BY DEF CleanUp
<1>2. /\ n.pc = "cleanup" /\ n.stage = None /\ n.id = proc[p].id
      /\ n.gen = proc[p].gen /\ n.charge = charge /\ n.task = proc[p].task
  BY DEF IInv, GoodProcs, Invocations
<1> QED BY <1>1, <1>2

LEMMA GotoIs ==
  ASSUME IInv, NEW p \in Procs, NEW pc, Goto(p, pc)
  PROVE  \E n :
           /\ Become(p, n)
           /\ n.pc = pc /\ n.stage = None /\ n.id = proc[p].id /\ n.gen = proc[p].gen
           /\ n.result = proc[p].result
<1> DEFINE n == [proc[p] EXCEPT !.pc = pc, !.stage = None]
<1>1. Become(p, n)
  BY DEF Goto
<1>2. n.pc = pc /\ n.stage = None /\ n.id = proc[p].id /\ n.gen = proc[p].gen
      /\ n.result = proc[p].result
  BY DEF IInv, GoodProcs, Invocations
<1> QED BY <1>1, <1>2

\* How an invocation begins, with nothing but its work.
LEMMA StartIs ==
  ASSUME IInv, NEW p \in Procs, Start(p)
  PROVE  \E s \in Invocations :
           /\ s.id \in Ids /\ ~s.id.charge /\ s.gen = 0 /\ s.result = None /\ s.stage = None
           /\ \/ Readable /\ Decide(p, s, file)
              \/ Missing /\ \E n : /\ Become(p, n) /\ n.pc = "witness" /\ n.stage = None
                                   /\ n.id = s.id /\ n.gen = 0 /\ n.result = None
              \/ "reenroll" \in Tasks /\ \E n : /\ Become(p, n) /\ n.pc = "retire" /\ n.stage = None
                                                /\ n.id = s.id /\ n.gen = 0 /\ n.result = None
<1>1. PICK task \in Tasks, work \in Works :
        LET s == [Idle EXCEPT !.task = task,
                              !.id = [work |-> work, grant |-> 0, charge |-> FALSE]]
        IN  \/ task # "reenroll" /\ Readable /\ Decide(p, s, file)
            \/ task # "reenroll" /\ Missing /\ Become(p, [s EXCEPT !.pc = "witness"])
            \/ /\ task = "reenroll"
               /\ expired \/ (file = None /\ witness)
               /\ Become(p, [s EXCEPT !.pc = "retire"])
  BY DEF Start
<1> DEFINE id == [work |-> work, grant |-> 0, charge |-> FALSE]
           s == [Idle EXCEPT !.task = task, !.id = id]
           w == [s EXCEPT !.pc = "witness"]
           r == [s EXCEPT !.pc = "retire"]
<1>2. id \in Ids /\ ~id.charge
  BY DEF Ids
<1>3. Idle \in Invocations
  BY IdleGood DEF GoodInvocation
<1> HIDE DEF id
<1>4. s \in Invocations /\ s.id = id /\ s.stage = None /\ s.gen = 0 /\ s.result = None
  BY <1>2, <1>3 DEF Invocations, Idle
<1>5. \/ Readable /\ Decide(p, s, file)
      \/ Missing /\ Become(p, w)
      \/ "reenroll" \in Tasks /\ Become(p, r)
  BY <1>1 DEF id
<1> HIDE DEF s
<1>6. /\ w.pc = "witness" /\ w.stage = None /\ w.id = s.id /\ w.gen = 0 /\ w.result = None
      /\ r.pc = "retire" /\ r.stage = None /\ r.id = s.id /\ r.gen = 0 /\ r.result = None
  BY <1>4 DEF Invocations
<1> HIDE DEF w, r
<1> QED BY <1>2, <1>4, <1>5, <1>6

\* A step of a replace keeps what the invocation knows.
Knows(s, n) ==
  /\ n.pc = s.pc /\ n.id = s.id /\ n.slot = s.slot /\ n.gen = s.gen
  /\ n.result = s.result /\ n.charge = s.charge /\ n.task = s.task

LEMMA KnowsSame ==
  ASSUME NEW s, NEW n, Knows(s, n), NEW r
  PROVE  /\ Accepts(n, r) <=> Accepts(s, r)
         /\ Outcome(n, r) = Outcome(s, r)
<1> USE DEF Knows
<1>1. Accepts(n, r) <=> Accepts(s, r)
  BY DEF Accepts
<1>2. Outcome(n, r) = Outcome(s, r)
  BY DEF Outcome
<1> QED BY <1>1, <1>2

LEMMA LoadIs ==
  ASSUME IInv, NEW p \in Procs, Load(p)
  PROVE  /\ MayStep(p) /\ proc[p].stage = "load" /\ proc[p].pc \in ReplacePcs
         /\ UNCHANGED <<ledger, starts, finished, holder, leaked>>
         /\ \E n :
              /\ Become(p, n)
              /\ \/ /\ Readable /\ Accepts(proc[p], file) /\ Knows(proc[p], n)
                    /\ n.stage = "fence" /\ n.old = file /\ n.new = Outcome(proc[p], file)
                    /\ UNCHANGED <<attempts, interrupted>>
                 \/ ~(Readable /\ Accepts(proc[p], file)) /\ Unwound(p, n, "error")
<1>1. proc[p] \in Invocations /\ proc[p].pc \in ReplacePcs
  BY DEF IInv, GoodProcs, GoodInvocation, Load, Stages
<1>2. CASE Readable /\ Accepts(proc[p], file)
  <2> DEFINE out == Outcome(proc[p], file)
             n == [proc[p] EXCEPT !.stage = "fence", !.old = file, !.new = out]
  <2>1. Become(p, n) /\ UNCHANGED history
    BY <1>2 DEF Load
  <2> HIDE DEF out
  <2>2. Knows(proc[p], n) /\ n.stage = "fence" /\ n.old = file /\ n.new = out
    BY <1>1 DEF Knows, Invocations
  <2> HIDE DEF n
  <2> QED BY <1>1, <1>2, <2>1, <2>2 DEF Load, history, out
<1>3. CASE ~(Readable /\ Accepts(proc[p], file))
  <2>1. Unwind(p, "error") /\ UNCHANGED <<finished, holder, leaked>>
    BY <1>3 DEF Load
  <2>2. PICK n : Become(p, n) /\ Unwound(p, n, "error")
    BY <2>1, UnwindIs
  <2> QED BY <1>1, <1>3, <2>1, <2>2 DEF Load
<1> QED BY <1>2, <1>3

LEMMA FenceIs ==
  ASSUME IInv, NEW p \in Procs, Fence(p)
  PROVE  /\ MayStep(p) /\ proc[p].stage = "fence" /\ proc[p].pc \in ReplacePcs
         /\ UNCHANGED <<ledger, starts, finished, holder, leaked>>
         /\ \E n :
              /\ Become(p, n)
              /\ \/ /\ file = proc[p].old /\ Knows(proc[p], n) /\ n.stage = "write"
                    /\ n.old = proc[p].old /\ n.new = proc[p].new
                    /\ UNCHANGED <<attempts, interrupted>>
                 \/ file # proc[p].old /\ Unwound(p, n, "error")
<1>1. proc[p] \in Invocations /\ proc[p].pc \in ReplacePcs
  BY DEF IInv, GoodProcs, GoodInvocation, Fence, Stages
<1>2. CASE file = proc[p].old
  <2> DEFINE n == [proc[p] EXCEPT !.stage = "write"]
  <2>1. Become(p, n) /\ UNCHANGED history
    BY <1>2 DEF Fence
  <2>2. /\ Knows(proc[p], n) /\ n.stage = "write" /\ n.old = proc[p].old
        /\ n.new = proc[p].new
    BY <1>1 DEF Knows, Invocations
  <2> HIDE DEF n
  <2> QED BY <1>1, <1>2, <2>1, <2>2 DEF Fence, history
<1>3. CASE file # proc[p].old
  <2>1. Unwind(p, "error") /\ UNCHANGED <<finished, holder, leaked>>
    BY <1>3 DEF Fence
  <2>2. PICK n : Become(p, n) /\ Unwound(p, n, "error")
    BY <2>1, UnwindIs
  <2> QED BY <1>1, <1>3, <2>1, <2>2 DEF Fence
<1> QED BY <1>2, <1>3

LEMMA WriteIs ==
  ASSUME IInv, NEW p \in Procs, Write(p)
  PROVE  /\ MayStep(p) /\ proc[p].stage = "write" /\ proc[p].pc \in ReplacePcs
         /\ file' = proc[p].new /\ GoodRecord(proc[p].new)
         /\ UNCHANGED <<witness, expired, enrolled, retired, starts, finished, leaked>>
         /\ \E n : /\ Become(p, n) /\ Knows(proc[p], n) /\ n.stage = "readback"
                   /\ n.old = proc[p].old /\ n.new = proc[p].new
<1>1. proc[p] \in Invocations /\ proc[p].pc \in ReplacePcs /\ GoodRecord(proc[p].new)
  BY DEF IInv, GoodProcs, GoodInvocation, Write, Stages
<1> DEFINE n == [proc[p] EXCEPT !.stage = "readback"]
<1>2. Become(p, n)
  BY DEF Write
<1>3. /\ Knows(proc[p], n) /\ n.stage = "readback" /\ n.old = proc[p].old
      /\ n.new = proc[p].new
  BY <1>1 DEF Knows, Invocations
<1> HIDE DEF n
<1> QED BY <1>1, <1>2, <1>3 DEF Write

LEMMA ReadBackIs ==
  ASSUME IInv, NEW p \in Procs, ReadBack(p)
  PROVE  /\ MayStep(p) /\ proc[p].stage = "readback" /\ proc[p].pc \in ReplacePcs
         /\ UNCHANGED <<ledger, starts, finished, holder, leaked>>
         /\ \/ file = proc[p].new /\ Proceed(p) /\ UNCHANGED <<attempts, interrupted>>
            \/ /\ file # proc[p].new
               /\ \E n : Become(p, n) /\ Unwound(p, n, "error")
<1>1. proc[p].pc \in ReplacePcs
  BY DEF IInv, GoodProcs, GoodInvocation, ReadBack, Stages
<1>2. CASE file = proc[p].new
  BY <1>1, <1>2 DEF ReadBack, history
<1>3. CASE file # proc[p].new
  <2>1. Unwind(p, "error") /\ UNCHANGED <<finished, holder, leaked>>
    BY <1>3 DEF ReadBack
  <2>2. PICK n : Become(p, n) /\ Unwound(p, n, "error")
    BY <2>1, UnwindIs
  <2> QED BY <1>1, <1>3, <2>1, <2>2 DEF ReadBack
<1> QED BY <1>2, <1>3

LEMMA AnalyseIs ==
  ASSUME IInv, NEW p \in Procs, Analyse(p)
  PROVE  /\ proc[p].pc = "running"
         /\ UNCHANGED <<ledger, starts, interrupted, holder, leaked>>
         /\ \E result, n :
              /\ result \in Results
              /\ Become(p, n)
              /\ n.pc = "checkpoint" /\ n.stage = "load" /\ n.id = proc[p].id
              /\ n.gen = proc[p].gen /\ n.result = result /\ n.task = proc[p].task
              /\ finished' = IF result.complete
                             THEN finished \cup {[id |-> proc[p].id, gen |-> proc[p].gen]}
                             ELSE finished
              /\ attempts' = IF result.complete THEN attempts ELSE attempts + 1
<1>1. PICK result \in Results :
        /\ Become(p, Replace([proc[p] EXCEPT !.result = result], "checkpoint"))
        /\ finished' = IF result.complete
                       THEN finished \cup {[id |-> proc[p].id, gen |-> proc[p].gen]}
                       ELSE finished
        /\ attempts' = IF result.complete THEN attempts ELSE attempts + 1
  BY DEF Analyse
<1> DEFINE n == Replace([proc[p] EXCEPT !.result = result], "checkpoint")
<1>2. Become(p, n)
  BY <1>1
<1>3. /\ n.pc = "checkpoint" /\ n.stage = "load" /\ n.id = proc[p].id
      /\ n.gen = proc[p].gen /\ n.result = result /\ n.task = proc[p].task
  BY DEF Replace, IInv, GoodProcs, Invocations
<1> HIDE DEF n
<1> QED BY <1>1, <1>2, <1>3 DEF Analyse

LEMMA CleanupIs ==
  ASSUME IInv, NEW p \in Procs, Cleanup(p)
  PROVE  /\ MayStep(p) /\ proc[p].pc = "cleanup" /\ UNCHANGED <<ledger, starts, history>>
         /\ \E n :
              /\ Become(p, n)
              /\ \/ n = Idle /\ ~(Readable /\ Owned(p))
                 \/ /\ Readable /\ Owned(p) /\ n.pc = "abort" /\ n.stage = "load"
                    /\ n.id = proc[p].id /\ n.gen = file.gen /\ n.charge = proc[p].charge
                    /\ n.task = proc[p].task
<1>1. CASE Readable /\ Owned(p)
  <2> DEFINE n == Replace([proc[p] EXCEPT !.gen = file.gen], "abort")
  <2>1. Become(p, n)
    BY <1>1 DEF Cleanup
  <2>2. /\ n.pc = "abort" /\ n.stage = "load" /\ n.id = proc[p].id /\ n.gen = file.gen
        /\ n.charge = proc[p].charge /\ n.task = proc[p].task
    BY DEF Replace, IInv, GoodProcs, Invocations
  <2> HIDE DEF n
  <2> QED BY <1>1, <2>1, <2>2 DEF Cleanup
<1>2. CASE ~(Readable /\ Owned(p))
  BY <1>2 DEF Cleanup, End
<1> QED BY <1>1, <1>2

\* Faults change no record; the invocation ends or cleans up.
LEMMA FaultIs ==
  ASSUME IInv, NEW p \in Procs, IOError(p) \/ Interrupt(p) \/ Crash(p)
  PROVE  /\ MayStep(p) /\ UNCHANGED <<ledger, starts, finished>>
         /\ \E n :
              /\ Become(p, n)
              /\ \/ n = Idle
                 \/ /\ n.pc = "cleanup" /\ n.stage = None /\ n.id = proc[p].id
                    /\ n.gen = proc[p].gen /\ proc[p].pc \in {"running", "checkpoint"}
                    /\ n.task = proc[p].task
<1>1. CASE Crash(p)
  BY <1>1 DEF Crash, End
<1>2. CASE Interrupt(p) /\ proc[p].pc = "running"
  <2>1. CleanUp(p, FALSE)
    BY <1>2 DEF Interrupt
  <2> QED BY <1>2, <2>1, CleanUpIs DEF Interrupt
<1>3. CASE IOError(p) \/ (Interrupt(p) /\ proc[p].pc # "running")
  <2>1. PICK cause : Unwind(p, cause)
    BY <1>3 DEF IOError, Interrupt
  <2>2. PICK n : Become(p, n) /\ Unwound(p, n, cause)
    BY <2>1, UnwindIs
  <2> QED BY <1>3, <2>2 DEF IOError, Interrupt, Unwound
<1> QED BY <1>1, <1>2, <1>3

-----------------------------------------------------------------------------
(* What is never forgotten                                                 *)

LEMMA SteadyInit == Init => Steady
BY DEF Init, Steady, Idle, Enrolling, Working, ReplacePcs

LEMMA SteadyStays ==
  ASSUME GoodProcs, Steady, NEW p \in Procs, NEW n, Become(p, n),
         n.pc \in Enrolling => n.gen = 0,
         n.pc \in Working => n.task = "review",
         n.pc \in ReplacePcs => n.stage \in Stages
  PROVE  Steady'
BY BecomeIs DEF Steady

LEMMA SteadyNext == IInv /\ Steady /\ [Next]_vars => Steady'
<1> SUFFICES ASSUME IInv, Steady, [Next]_vars PROVE Steady'
  OBVIOUS
<1> DEFINE Fits(n) == /\ n.pc \in Enrolling => n.gen = 0
                      /\ n.pc \in Working => n.task = "review"
                      /\ n.pc \in ReplacePcs => n.stage \in Stages
<1>0. GoodProcs /\ \A q \in Procs : proc[q] \in Invocations
  BY DEF IInv, GoodProcs
<1>i. Fits(Idle)
  BY DEF Idle, Enrolling, Working, ReplacePcs
<1>d. ASSUME NEW p \in Procs, NEW s \in Invocations, NEW r, Decide(p, s, r)
      PROVE  \E n : Become(p, n) /\ Fits(n)
  <2>1. PICK n : /\ Become(p, n)
                 /\ \/ n = Idle
                    \/ n.pc = "reserve" /\ n.task = "review" /\ n.stage = "load"
                    \/ n.pc \in {"pause", "unpause", "grant"} /\ n.stage = "load"
    BY <1>d, DecideIs
  <2>2. Fits(n)
    BY <1>i, <2>1 DEF Enrolling, Working, Stages
  <2> QED BY <2>1, <2>2
<1>u. ASSUME NEW p \in Procs, NEW n, NEW cause, Unwound(p, n, cause) PROVE Fits(n)
  <2>1. CASE n = Idle
    BY <1>i, <2>1
  <2>2. CASE n.pc = "cleanup" /\ proc[p].pc = "checkpoint" /\ n.task = proc[p].task
    BY <2>2 DEF Steady, Enrolling, Working, ReplacePcs
  <2> QED BY <1>u, <2>1, <2>2 DEF Unwound
<1>k. ASSUME NEW p \in Procs, NEW n, Knows(proc[p], n), n.stage \in {"fence", "write", "readback"}
      PROVE  Fits(n)
  BY <1>k DEF Knows, Steady, Stages
<1> SUFFICES ASSUME ~UNCHANGED proc PROVE \E p \in Procs : \E n : Become(p, n) /\ Fits(n)
  <2>1. CASE UNCHANGED proc
    BY <2>1 DEF Steady
  <2> QED BY <1>0, <2>1, SteadyStays
<1>1. ASSUME NEW p \in Procs, Start(p) PROVE \E n : Become(p, n) /\ Fits(n)
  <2>1. PICK s \in Invocations :
           \/ Decide(p, s, file)
           \/ \E n : Become(p, n) /\ n.pc \in {"witness", "retire"} /\ n.gen = 0
    BY <1>1, StartIs
  <2>2. CASE Decide(p, s, file)
    BY <1>d, <2>2
  <2>3. ASSUME NEW n, n.pc \in {"witness", "retire"}, n.gen = 0 PROVE Fits(n)
    BY <2>3 DEF Enrolling, Working, ReplacePcs
  <2> QED BY <2>1, <2>2, <2>3
<1>2. ASSUME NEW p \in Procs, CreateWitness(p) \/ RetireWitness(p) \/ UnlinkRecord(p)
      PROVE  \E n : Become(p, n) /\ Fits(n)
  <2>1. proc[p].gen = 0
    BY <1>2 DEF CreateWitness, RetireWitness, UnlinkRecord, Steady, Enrolling
  <2>2. Become(p, Idle) \/ \E pc \in {"link", "unlink", "witness"} : Goto(p, pc)
    BY <1>2 DEF CreateWitness, RetireWitness, UnlinkRecord, End
  <2>3. ASSUME NEW pc \in {"link", "unlink", "witness"}, Goto(p, pc)
        PROVE  \E n : Become(p, n) /\ Fits(n)
    <3>1. PICK n : Become(p, n) /\ n.pc = pc /\ n.gen = proc[p].gen
      BY <2>3, GotoIs
    <3>2. Fits(n)
      BY <2>1, <3>1 DEF Working, ReplacePcs
    <3> QED BY <3>1, <3>2
  <2> QED BY <1>i, <2>2, <2>3
<1>3. ASSUME NEW p \in Procs, LinkRecord(p) PROVE \E n : Become(p, n) /\ Fits(n)
  <2>1. Decide(p, proc[p], Fresh(enrolled + 1)) \/ Become(p, Idle)
    BY <1>3 DEF LinkRecord, End
  <2> QED BY <1>0, <1>d, <1>i, <2>1
<1>4. ASSUME NEW p \in Procs, Load(p) PROVE \E n : Become(p, n) /\ Fits(n)
  BY <1>4, <1>u, <1>k, LoadIs
<1>5. ASSUME NEW p \in Procs, Fence(p) PROVE \E n : Become(p, n) /\ Fits(n)
  BY <1>5, <1>u, <1>k, FenceIs
<1>6. ASSUME NEW p \in Procs, Write(p) PROVE \E n : Become(p, n) /\ Fits(n)
  BY <1>6, <1>k, WriteIs
<1>7. ASSUME NEW p \in Procs, ReadBack(p) PROVE \E n : Become(p, n) /\ Fits(n)
  <2>1. CASE Proceed(p)
    <3>1. PICK n : /\ Become(p, n)
                   /\ \/ n = Idle
                      \/ /\ n.task = proc[p].task
                         /\ n.pc \in {"attach", "running", "chargeReserve", "chargeCommit"}
                         /\ n.pc # "running" => n.stage = "load"
                         /\ proc[p].pc \in {"reserve", "attach", "abort", "chargeReserve"}
      BY <1>7, <2>1, ReadBackIs, ProceedIs
    <3>2. Fits(n)
      BY <1>i, <3>1 DEF Steady, Enrolling, Working, ReplacePcs, Stages
    <3> QED BY <3>1, <3>2
  <2>2. CASE ~Proceed(p)
    BY <1>7, <1>u, <2>2, ReadBackIs
  <2> QED BY <2>1, <2>2
<1>8. ASSUME NEW p \in Procs, Analyse(p) PROVE \E n : Become(p, n) /\ Fits(n)
  <2>1. PICK n : /\ Become(p, n) /\ n.pc = "checkpoint" /\ n.task = proc[p].task
                 /\ n.stage = "load"
    BY <1>8, AnalyseIs
  <2>2. Fits(n)
    BY <1>8, <2>1 DEF Analyse, Steady, Enrolling, Working, Stages
  <2> QED BY <2>1, <2>2
<1>9. ASSUME NEW p \in Procs, AnalysisFails(p) \/ BaselineUnusable(p)
      PROVE  \E n : Become(p, n) /\ Fits(n)
  <2>1. PICK charge \in BOOLEAN : CleanUp(p, charge)
    BY <1>9 DEF AnalysisFails, BaselineUnusable
  <2>2. PICK n : Become(p, n) /\ n.pc = "cleanup" /\ n.task = proc[p].task
    BY <2>1, CleanUpIs
  <2>3. Fits(n)
    BY <1>9, <2>2 DEF AnalysisFails, BaselineUnusable, Steady, Enrolling, Working, ReplacePcs
  <2> QED BY <2>2, <2>3
<1>10. ASSUME NEW p \in Procs, Cleanup(p) PROVE \E n : Become(p, n) /\ Fits(n)
  <2>1. PICK n : /\ Become(p, n)
                 /\ n = Idle \/ (n.pc = "abort" /\ n.stage = "load" /\ n.task = proc[p].task)
    BY <1>10, CleanupIs
  <2>2. Fits(n)
    BY <1>10, <1>i, <2>1 DEF Cleanup, Steady, Enrolling, Working, Stages
  <2> QED BY <2>1, <2>2
<1>11. ASSUME NEW p \in Procs, IOError(p) \/ Interrupt(p) \/ Crash(p)
       PROVE  \E n : Become(p, n) /\ Fits(n)
  <2>1. PICK n : /\ Become(p, n)
                 /\ \/ n = Idle
                    \/ /\ n.pc = "cleanup" /\ n.task = proc[p].task
                       /\ proc[p].pc \in {"running", "checkpoint"}
    BY <1>11, FaultIs
  <2>2. Fits(n)
    BY <1>i, <2>1 DEF Steady, Enrolling, Working, ReplacePcs
  <2> QED BY <2>1, <2>2
<1>12. CASE Expire \/ Delete \/ UNCHANGED vars
  BY <1>12 DEF Expire, Delete, vars
<1> HIDE DEF Fits
<1> QED
  BY <1>1, <1>2, <1>3, <1>4, <1>5, <1>6, <1>7, <1>8, <1>9, <1>10, <1>11, <1>12 DEF Next

-----------------------------------------------------------------------------
(* Enrolment                                                               *)

LEMMA LinkingAfter ==
  ASSUME GoodProcs, NEW p \in Procs, NEW n, Become(p, n)
  PROVE  Linking' = IF n.pc = "link" THEN Linking \cup {p} ELSE Linking \ {p}
BY BecomeIs DEF Linking

Retirable == retired + (IF witness THEN 1 ELSE 0)

\* A step that links nothing, and retires no witness without counting it.
LEMMA EnrolmentStays ==
  ASSUME IInv, Enrolment, NEW p \in Procs, NEW n, Become(p, n), n.pc # "link",
         enrolled' = enrolled, Retirable' = Retirable
  PROVE  Enrolment'
<1>1. Linking' = Linking \ {p}
  BY LinkingAfter DEF IInv
<1>2. /\ IsFiniteSet(Linking') /\ Cardinality(Linking') \in Nat /\ Cardinality(Linking) \in Nat
      /\ Cardinality(Linking') <= Cardinality(Linking)
  BY <1>1, FS_RemoveElement, FS_CardinalityType, FS_Subset DEF Enrolment
<1>3. enrolled \in Nat /\ Retirable \in Nat
  BY DEF IInv, GoodCounts, Retirable
<1> QED BY <1>2, <1>3 DEF Enrolment, Retirable

LEMMA EnrolmentInit == Init => Enrolment
<1> SUFFICES ASSUME Init PROVE Enrolment
  OBVIOUS
<1>1. Linking = {}
  BY DEF Init, Linking, Idle
<1> QED BY <1>1, FS_EmptySet DEF Init, Enrolment

LEMMA EnrolmentNext == IInv /\ Enrolment /\ [Next]_vars => Enrolment'
<1> SUFFICES ASSUME IInv, Enrolment, [Next]_vars PROVE Enrolment'
  OBVIOUS
<1>0. Idle.pc # "link" /\ GoodProcs
  BY DEF Idle, IInv
<1> DEFINE Same == UNCHANGED <<enrolled, retired, witness>>
<1>same. Same => enrolled' = enrolled /\ Retirable' = Retirable
  BY DEF Retirable
<1>1. ASSUME NEW p \in Procs, Start(p) PROVE Enrolment'
  <2>1. Same
    BY <1>1 DEF Start, ledger
  <2>2. \E n : Become(p, n) /\ n.pc # "link"
    BY <1>0, <1>1, StartIs, DecideIs
  <2> QED BY <1>same, <2>1, <2>2, EnrolmentStays
<1>2. ASSUME NEW p \in Procs, CreateWitness(p) PROVE Enrolment'
  <2>1. CASE Missing
    <3>1. PICK n : Become(p, n) /\ n.pc = "link"
      BY <1>2, <2>1, GotoIs DEF CreateWitness
    <3>2. Linking' = Linking \cup {p}
      BY <1>0, <3>1, LinkingAfter
    <3>3. p \notin Linking
      BY <1>2 DEF CreateWitness, Linking
    <3>4. /\ IsFiniteSet(Linking') /\ Cardinality(Linking') = Cardinality(Linking) + 1
          /\ Cardinality(Linking) \in Nat
      BY <3>2, <3>3, FS_AddElement, FS_CardinalityType DEF Enrolment
    <3>5. /\ ~witness /\ witness' /\ UNCHANGED <<enrolled, retired>>
          /\ enrolled \in Nat /\ retired \in Nat
      BY <1>2, <2>1 DEF CreateWitness, Missing, IInv, GoodCounts
    <3> QED BY <3>4, <3>5 DEF Enrolment
  <2>2. CASE ~Missing
    <3>1. Same /\ Become(p, Idle)
      BY <1>2, <2>2 DEF CreateWitness, End
    <3> QED BY <1>0, <1>same, <3>1, EnrolmentStays
  <2> QED BY <2>1, <2>2
<1>3. ASSUME NEW p \in Procs, LinkRecord(p) PROVE Enrolment'
  <2>1. CASE file = None
    <3>1. Decide(p, proc[p], Fresh(enrolled + 1)) \/ End(p)
      BY <1>3, <2>1 DEF LinkRecord
    <3>2. proc[p] \in Invocations /\ p \in Linking
      BY <1>0, <1>3 DEF GoodProcs, LinkRecord, Linking
    <3>3. PICK n : Become(p, n) /\ n.pc # "link"
      BY <1>0, <3>1, <3>2, DecideIs DEF End
    <3>4. Linking' = Linking \ {p}
      BY <1>0, <3>3, LinkingAfter
    <3>5. /\ IsFiniteSet(Linking') /\ Cardinality(Linking') = Cardinality(Linking) - 1
          /\ Cardinality(Linking) \in Nat
      BY <3>2, <3>4, FS_RemoveElement, FS_CardinalityType DEF Enrolment
    <3>6. enrolled' = enrolled + 1 /\ UNCHANGED <<witness, retired>> /\ enrolled \in Nat
          /\ retired \in Nat
      BY <1>3, <2>1 DEF LinkRecord, IInv, GoodCounts
    <3> QED BY <3>5, <3>6 DEF Enrolment
  <2>2. CASE file # None
    <3>1. Same /\ Become(p, Idle)
      BY <1>3, <2>2 DEF LinkRecord, End
    <3> QED BY <1>0, <1>same, <3>1, EnrolmentStays
  <2> QED BY <2>1, <2>2
<1>4. ASSUME NEW p \in Procs, RetireWitness(p) PROVE Enrolment'
  <2>1. PICK n : Become(p, n) /\ n.pc # "link"
    BY <1>4, GotoIs DEF RetireWitness
  <2>2. enrolled' = enrolled /\ Retirable' = Retirable
    BY <1>4 DEF RetireWitness, IInv, GoodCounts, Retirable
  <2> QED BY <2>1, <2>2, EnrolmentStays
<1>5. ASSUME NEW p \in Procs, UnlinkRecord(p) PROVE Enrolment'
  <2>1. PICK n : Become(p, n) /\ n.pc # "link"
    BY <1>5, GotoIs DEF UnlinkRecord
  <2> QED BY <1>5, <1>same, <2>1, EnrolmentStays DEF UnlinkRecord
<1>6. ASSUME NEW p \in Procs, Load(p) \/ Fence(p) \/ Write(p) \/ ReadBack(p) PROVE Enrolment'
  <2>1. Same
    BY <1>6, LoadIs, FenceIs, WriteIs, ReadBackIs DEF ledger
  <2>2. CASE ReadBack(p) /\ Proceed(p)
    <3>1. \E n : Become(p, n) /\ n.pc # "link"
      BY <1>0, <2>2, ReadBackIs, ProceedIs
    <3> QED BY <1>same, <2>1, <3>1, EnrolmentStays
  <2>3. CASE ~(ReadBack(p) /\ Proceed(p))
    <3>1. PICK n : /\ Become(p, n)
                   /\ \/ Knows(proc[p], n) /\ proc[p].pc \in ReplacePcs
                      \/ Unwound(p, n, "error")
      <4>1. CASE Load(p)
        BY <4>1, LoadIs
      <4>2. CASE Fence(p)
        BY <4>2, FenceIs
      <4>3. CASE Write(p)
        BY <4>3, WriteIs
      <4>4. CASE ReadBack(p)
        BY <2>3, <4>4, ReadBackIs
      <4> QED BY <1>6, <4>1, <4>2, <4>3, <4>4
    <3>2. n.pc # "link"
      BY <1>0, <3>1 DEF Knows, Unwound, ReplacePcs
    <3> QED BY <1>same, <2>1, <3>1, <3>2, EnrolmentStays
  <2> QED BY <2>2, <2>3
<1>7. ASSUME NEW p \in Procs,
             \/ Analyse(p) \/ AnalysisFails(p) \/ BaselineUnusable(p) \/ Cleanup(p)
             \/ IOError(p) \/ Interrupt(p) \/ Crash(p)
      PROVE  Enrolment'
  <2>1. Same
    BY <1>7, AnalyseIs, CleanupIs, FaultIs DEF AnalysisFails, BaselineUnusable, ledger
  <2>2. \E n : Become(p, n) /\ n.pc # "link"
    <3>1. CASE Analyse(p)
      BY <3>1, AnalyseIs
    <3>2. CASE AnalysisFails(p) \/ BaselineUnusable(p)
      <4>1. PICK charge \in BOOLEAN : CleanUp(p, charge)
        BY <3>2 DEF AnalysisFails, BaselineUnusable
      <4> QED BY <4>1, CleanUpIs
    <3>3. CASE Cleanup(p)
      BY <1>0, <3>3, CleanupIs
    <3>4. CASE IOError(p) \/ Interrupt(p) \/ Crash(p)
      BY <1>0, <3>4, FaultIs
    <3> QED BY <1>7, <3>1, <3>2, <3>3, <3>4
  <2> QED BY <1>same, <2>1, <2>2, EnrolmentStays
<1>8. CASE Expire \/ Delete \/ UNCHANGED vars
  <2>1. UNCHANGED <<proc, enrolled, retired, witness>>
    BY <1>8 DEF Expire, Delete, vars, ledger
  <2>2. Linking' = Linking
    BY <2>1 DEF Linking
  <2> QED BY <2>1, <2>2 DEF Enrolment
<1> QED BY <1>1, <1>2, <1>3, <1>4, <1>5, <1>6, <1>7, <1>8 DEF Next

\* Each record needs a witness of its own, made exclusively, and a witness goes
\* away only by a re-enrolment: nothing else starts the budget afresh, whatever
\* is deleted, races or dies (LocalSessionLedger.enroll).
THEOREM FreshByReenrolment == Spec => []FreshOnlyByReenrolment
<1>1. ASSUME IInv, Enrolment PROVE FreshOnlyByReenrolment
  <2>1. Cardinality(Linking) \in Nat /\ enrolled \in Nat /\ retired \in Nat
    BY <1>1, FS_CardinalityType DEF Enrolment, IInv, GoodCounts
  <2> QED BY <1>1, <2>1 DEF Enrolment, FreshOnlyByReenrolment
<1>2. Init => IInv /\ Enrolment
  BY InitGood, EnrolmentInit
<1>3. IInv /\ Enrolment /\ [Next]_vars => IInv' /\ Enrolment'
  BY NextGood, EnrolmentNext
<1> QED BY <1>1, <1>2, <1>3, PTL DEF Spec

-----------------------------------------------------------------------------
(* What each transition leaves of a record                                 *)

\* The counts of a record are those of another one.
SameBudget(r, n) ==
  /\ n.initial = r.initial /\ n.verification = r.verification
  /\ n.failed = r.failed /\ n.failedHead = r.failedHead

LEMMA ReservedIs ==
  ASSUME NEW r \in Records, NEW id \in Ids, NEW slot \in Slots, ~AlreadyReserved(r, id, slot)
  PROVE  LET n == Reserved(r, id, slot) IN
         /\ n.gen = r.gen + 1 /\ n.res = id /\ n.slot = slot /\ n.tx = None
         /\ n.initial = r.initial /\ n.verification = r.verification /\ n.born = r.born
         /\ n.failedHead = HeadOf[id.work]
         /\ n.failed = IF r.failedHead = n.failedHead THEN r.failed ELSE 0
<1> DEFINE h == HeadOf[id.work]
           s == FailedAttemptScope(r, h)
           rest == s.grants \ OpenGrants(r, h)
           n == [s EXCEPT !.gen = @ + 1, !.res = id, !.slot = slot, !.tx = None,
                          !.grants = rest]
<1>1. Reserved(r, id, slot) = n
  BY DEF Reserved
<1>2. /\ s.initial = r.initial /\ s.verification = r.verification /\ s.born = r.born
      /\ s.gen = r.gen /\ s.failedHead = h
      /\ s.failed = IF r.failedHead = h THEN r.failed ELSE 0
  <2>1. CASE r.failedHead = h
    BY <2>1 DEF FailedAttemptScope
  <2>2. CASE r.failedHead # h
    BY <2>2 DEF FailedAttemptScope, Records
  <2> QED BY <2>1, <2>2
<1>3. s \in Records
  BY ScopeType, HeadOfWork
<1> HIDE DEF s, rest
<1>4. /\ n.gen = s.gen + 1 /\ n.res = id /\ n.slot = slot /\ n.tx = None
      /\ n.initial = s.initial /\ n.verification = s.verification /\ n.born = s.born
      /\ n.failedHead = s.failedHead /\ n.failed = s.failed
  BY <1>3 DEF Records
<1> HIDE DEF n
<1> QED BY <1>1, <1>2, <1>4

LEMMA AttachedIs ==
  ASSUME NEW r \in Records, NEW id \in Ids, r.tx = None
  PROVE  LET n == Attached(r, id) IN
         /\ n.gen = r.gen /\ n.res = r.res /\ n.slot = r.slot /\ n.born = r.born
         /\ n.tx.id = id /\ SameBudget(r, n)
<1> DEFINE t == [id |-> id, gen |-> r.gen, phase |-> "analysis", result |-> None]
           n == [r EXCEPT !.tx = t]
<1>1. Attached(r, id) = n
  BY DEF Attached
<1>2. t.id = id
  OBVIOUS
<1> HIDE DEF t
<1>3. /\ n.gen = r.gen /\ n.res = r.res /\ n.slot = r.slot /\ n.born = r.born
      /\ n.tx = t /\ SameBudget(r, n)
  BY DEF Records, SameBudget
<1> HIDE DEF n
<1> QED BY <1>1, <1>2, <1>3

\* A slot adds to its own count, by one or not at all.
LEMMA ApplySlotIs ==
  ASSUME NEW r \in Records, NEW slot \in Slots
  PROVE  LET n == ApplySlot(r, slot) IN
         /\ n \in Records /\ n.gen = r.gen /\ n.born = r.born /\ n.failedHead = r.failedHead
         /\ n.tx = r.tx /\ n.res = r.res /\ n.slot = r.slot
         /\ slot = "failed-attempt" =>
              /\ n.initial = r.initial /\ n.verification = r.verification
              /\ n.failed <= r.failed + 1
         /\ slot # "failed-attempt" =>
              /\ n.initial + n.verification <= r.initial + r.verification + 1
              /\ n.failed = r.failed
<1> DEFINE n == ApplySlot(r, slot)
<1>0. n \in Records
  BY ApplySlotType
<1>c. r.initial \in Nat /\ r.verification \in Nat /\ r.failed \in Nat /\ RoundCeiling \in Nat
      /\ Ceiling \in Nat
  BY CeilingAssumption, BudgetAssumption DEF Records
<1>m. ASSUME NEW k \in Nat, NEW b \in Nat PROVE AtMost(k + 1, b) \in Nat /\ AtMost(k + 1, b) <= k + 1
  BY DEF AtMost
<1>1. CASE slot = "initial"
  <2> DEFINE v == AtMost(r.initial + 1, RoundCeiling)
  <2>1. v \in Nat /\ v <= r.initial + 1
    BY <1>c, <1>m
  <2> HIDE DEF v
  <2>2. n = [r EXCEPT !.initial = v]
    BY <1>1 DEF ApplySlot, v
  <2>3. /\ n.initial = v /\ n.verification = r.verification /\ n.failed = r.failed
        /\ n.gen = r.gen /\ n.born = r.born /\ n.failedHead = r.failedHead
        /\ n.tx = r.tx /\ n.res = r.res /\ n.slot = r.slot
    BY <2>2 DEF Records
  <2> HIDE DEF n
  <2>4. n.initial + n.verification <= r.initial + r.verification + 1
    BY <1>c, <2>1, <2>3
  <2> QED BY <1>0, <1>1, <2>3, <2>4 DEF n
<1>2. CASE slot = "verification"
  <2> DEFINE v == AtMost(r.verification + 1, RoundCeiling)
  <2>1. v \in Nat /\ v <= r.verification + 1
    BY <1>c, <1>m
  <2> HIDE DEF v
  <2>2. n = [r EXCEPT !.verification = v]
    BY <1>2 DEF ApplySlot, v
  <2>3. /\ n.verification = v /\ n.initial = r.initial /\ n.failed = r.failed
        /\ n.gen = r.gen /\ n.born = r.born /\ n.failedHead = r.failedHead
        /\ n.tx = r.tx /\ n.res = r.res /\ n.slot = r.slot
    BY <2>2 DEF Records
  <2> HIDE DEF n
  <2>4. n.initial + n.verification <= r.initial + r.verification + 1
    BY <1>c, <2>1, <2>3
  <2> QED BY <1>0, <1>2, <2>3, <2>4 DEF n
<1>3. CASE slot = "failed-attempt"
  <2> DEFINE v == AtMost(r.failed + 1, Ceiling)
  <2>1. v \in Nat /\ v <= r.failed + 1
    BY <1>c, <1>m
  <2> HIDE DEF v
  <2>2. n = [r EXCEPT !.failed = v]
    BY <1>3 DEF ApplySlot, v
  <2>3. /\ n.failed = v /\ n.initial = r.initial /\ n.verification = r.verification
        /\ n.gen = r.gen /\ n.born = r.born /\ n.failedHead = r.failedHead
        /\ n.tx = r.tx /\ n.res = r.res /\ n.slot = r.slot
    BY <2>2 DEF Records
  <2> HIDE DEF n
  <2> QED BY <1>0, <1>3, <2>1, <2>3 DEF n
<1> QED BY <1>1, <1>2, <1>3 DEF Slots

LEMMA CheckpointedIs ==
  ASSUME NEW r \in Records, NEW id \in Ids, NEW result \in Results,
         r.tx.phase # "publication_pending", r.slot \in Slots, r.slot # "failed-attempt"
  PROVE  LET n == Checkpointed(r, id, result) IN
         /\ n.gen = r.gen + 1 /\ n.res = None /\ n.tx.id = id /\ n.born = r.born
         /\ n.failedHead = r.failedHead
         /\ ~result.complete => /\ n.initial = r.initial /\ n.verification = r.verification
                                /\ n.failed <= r.failed + 1
         /\ result.complete => /\ n.initial + n.verification <= r.initial + r.verification + 1
                               /\ n.failed = r.failed
<1> DEFINE slot == IF result.complete THEN r.slot ELSE "failed-attempt"
           s == ApplySlot(r, slot)
           t == [id |-> id, gen |-> r.gen + 1, phase |-> "publication_pending",
                 result |-> result]
           b == IF result.complete THEN id.work ELSE s.baseline
           n == [s EXCEPT !.gen = @ + 1, !.res = None, !.slot = None, !.last = id,
                          !.baseline = b, !.tx = t]
<1>1. Checkpointed(r, id, result) = n
  BY DEF Checkpointed
<1>2. slot \in Slots /\ (slot = "failed-attempt" <=> ~result.complete)
  BY DEF Slots, Results
<1>3. t.id = id
  OBVIOUS
<1> HIDE DEF slot, t
<1>4. /\ s \in Records /\ s.gen = r.gen /\ s.born = r.born /\ s.failedHead = r.failedHead
      /\ slot = "failed-attempt" =>
           /\ s.initial = r.initial /\ s.verification = r.verification
           /\ s.failed <= r.failed + 1
      /\ slot # "failed-attempt" =>
           /\ s.initial + s.verification <= r.initial + r.verification + 1
           /\ s.failed = r.failed
  BY <1>2, ApplySlotIs
<1> HIDE DEF s, b
<1>5. /\ n.gen = s.gen + 1 /\ n.res = None /\ n.tx = t /\ n.born = s.born
      /\ n.failedHead = s.failedHead /\ n.initial = s.initial
      /\ n.verification = s.verification /\ n.failed = s.failed
  BY <1>4 DEF Records
<1> HIDE DEF n
<1> QED BY <1>1, <1>2, <1>3, <1>4, <1>5

LEMMA CommittedIs ==
  ASSUME NEW r \in Records, NEW id \in Ids, ~AlreadyCommitted(r, id), r.slot \in Slots
  PROVE  LET n == Committed(r, id) IN
         /\ n.gen = r.gen + 1 /\ n.res = None /\ n.tx = r.tx /\ n.born = r.born
         /\ n.failedHead = r.failedHead
         /\ r.slot = "failed-attempt" =>
              n.initial = r.initial /\ n.verification = r.verification
         /\ n.failed <= r.failed + 1
<1> DEFINE s == ApplySlot(r, r.slot)
           n == [s EXCEPT !.gen = @ + 1, !.res = None, !.slot = None, !.last = id]
<1>1. Committed(r, id) = n
  BY DEF Committed
<1>2. /\ s \in Records /\ s.gen = r.gen /\ s.born = r.born /\ s.failedHead = r.failedHead
      /\ s.tx = r.tx
      /\ r.slot = "failed-attempt" => s.initial = r.initial /\ s.verification = r.verification
      /\ s.failed <= r.failed + 1
  <2>1. r.failed <= r.failed + 1
    BY BudgetAssumption DEF Records
  <2> QED BY <2>1, ApplySlotIs
<1> HIDE DEF s
<1>3. /\ n.gen = s.gen + 1 /\ n.res = None /\ n.tx = s.tx /\ n.born = s.born
      /\ n.failedHead = s.failedHead /\ n.initial = s.initial
      /\ n.verification = s.verification /\ n.failed = s.failed
  BY <1>2 DEF Records
<1> HIDE DEF n
<1> QED BY <1>1, <1>2, <1>3

LEMMA AbortedIs ==
  ASSUME NEW r \in Records, r.res # None
  PROVE  LET n == Aborted(r) IN
         /\ n.gen = r.gen + 1 /\ n.res = None /\ n.tx = None /\ n.born = r.born
         /\ SameBudget(r, n)
<1> DEFINE n == [r EXCEPT !.gen = @ + 1, !.res = None, !.slot = None, !.tx = None]
<1>1. Aborted(r) = n
  BY DEF Aborted
<1>2. /\ n.gen = r.gen + 1 /\ n.res = None /\ n.tx = None /\ n.born = r.born
      /\ SameBudget(r, n)
  BY DEF Records, SameBudget
<1> HIDE DEF n
<1> QED BY <1>1, <1>2

\* Commands leave the round and the budget alone.
Commanded(r, n) ==
  /\ n.gen = r.gen + 1 /\ n.res = r.res /\ n.slot = r.slot /\ n.tx = r.tx /\ n.born = r.born
  /\ SameBudget(r, n)

LEMMA OperatorPausedIs ==
  ASSUME NEW r \in Records, NEW paused \in BOOLEAN
  PROVE  LET n == OperatorPaused(r, paused) IN n = r \/ Commanded(r, n)
<1>1. CASE r.paused # paused
  <2> DEFINE n == [r EXCEPT !.gen = @ + 1, !.paused = paused]
  <2>1. OperatorPaused(r, paused) = n
    BY <1>1 DEF OperatorPaused
  <2>2. Commanded(r, n)
    BY DEF Records, Commanded, SameBudget
  <2> HIDE DEF n
  <2> QED BY <2>1, <2>2
<1>2. CASE r.paused = paused
  BY <1>2 DEF OperatorPaused
<1> QED BY <1>1, <1>2

LEMMA GrantedIs ==
  ASSUME NEW r \in Records
  PROVE  LET n == Granted(r) IN n = r \/ Commanded(r, n)
<1>1. CASE OpenGrants(r, r.failedHead) # {}
  BY <1>1, OperatorPausedIs DEF Granted
<1>2. CASE OpenGrants(r, r.failedHead) = {}
  <2> DEFINE all == r.grants \cup {[head |-> r.failedHead, gen |-> r.gen]}
             n == [r EXCEPT !.gen = @ + 1, !.paused = FALSE, !.grants = all]
  <2>1. Granted(r) = n
    BY <1>2 DEF Granted
  <2> HIDE DEF all
  <2>2. Commanded(r, n)
    BY DEF Records, Commanded, SameBudget
  <2> HIDE DEF n
  <2> QED BY <2>1, <2>2
<1> QED BY <1>1, <1>2


\* A new hold, on a record that has none.
Opens(r, n, id, slot, gen) ==
  /\ r.gen = gen /\ r.res = None /\ r.last # id
  /\ n.gen = r.gen + 1 /\ n.res = id /\ n.slot = slot /\ n.tx = None
  /\ n.initial = r.initial /\ n.verification = r.verification
  /\ n.failedHead = HeadOf[id.work]
  /\ n.failed = IF r.failedHead = n.failedHead THEN r.failed ELSE 0

Attaches(s, r, n) ==
  /\ r.gen = s.gen /\ r.res = s.id /\ r.tx = None
  /\ n.gen = r.gen /\ n.res = r.res /\ n.slot = r.slot /\ n.tx.id = s.id
  /\ SameBudget(r, n)

\* The three ways a hold ends.
Completes(s, r, n) ==
  /\ r.gen = s.gen /\ r.res = s.id /\ r.tx # None /\ ~Publishable(r)
  /\ n.gen = r.gen + 1 /\ n.res = None /\ n.tx.id = s.id /\ n.failedHead = r.failedHead
  /\ ~s.result.complete => /\ n.initial = r.initial /\ n.verification = r.verification
                           /\ n.failed <= r.failed + 1
  /\ s.result.complete => /\ n.initial + n.verification <= r.initial + r.verification + 1
                          /\ n.failed = r.failed

Aborts(s, r, n) ==
  /\ r.res = s.id
  /\ n.gen = r.gen + 1 /\ n.res = None /\ n.tx = None /\ SameBudget(r, n)

Charges(s, r, n) ==
  /\ r.gen = s.gen /\ r.res = ChargeId(s.id)
  /\ n.gen = r.gen + 1 /\ n.res = None /\ n.tx = r.tx /\ n.failedHead = r.failedHead
  /\ r.slot = "failed-attempt" => n.initial = r.initial /\ n.verification = r.verification
  /\ n.failed <= r.failed + 1

\* What a replace that changes the record does to it.
Changed(s, r, n) ==
  \/ s.pc = "reserve" /\ Opens(r, n, s.id, s.slot, s.gen)
  \/ s.pc = "chargeReserve" /\ Opens(r, n, ChargeId(s.id), "failed-attempt", s.gen)
  \/ s.pc = "attach" /\ Attaches(s, r, n)
  \/ s.pc = "checkpoint" /\ Completes(s, r, n)
  \/ s.pc = "abort" /\ Aborts(s, r, n)
  \/ s.pc = "chargeCommit" /\ Charges(s, r, n)
  \/ s.pc \in {"pause", "unpause", "grant"} /\ Commanded(r, n)

LEMMA OutcomeIs ==
  ASSUME NEW s, GoodInvocation(s), s.pc \in ReplacePcs,
         NEW r, GoodRecord(r), Accepts(s, r)
  PROVE  Outcome(s, r) = r \/ Changed(s, r, Outcome(s, r))
<1> DEFINE n == Outcome(s, r)
<1> SUFFICES ASSUME n # r PROVE Changed(s, r, n)
  OBVIOUS
<1>0. s.id \in Ids /\ ChargeId(s.id) \in Ids
  BY ChargeIdType DEF GoodInvocation, ReplacePcs
<1>r. r \in Records /\ WellFormed(r)
  BY DEF GoodRecord
<1>1. ASSUME NEW id \in Ids, NEW slot \in Slots, n = Reserved(r, id, slot),
             ReserveAccepts(r, id, slot, s.gen)
      PROVE  Opens(r, n, id, slot, s.gen)
  <2>1. ~AlreadyReserved(r, id, slot)
    BY <1>1 DEF Reserved
  <2>2. r.gen = s.gen /\ r.res = None /\ r.last # id
    BY <1>1, <2>1 DEF ReserveAccepts, AlreadyReserved
  <2>3. /\ n.gen = r.gen + 1 /\ n.res = id /\ n.slot = slot /\ n.tx = None
        /\ n.initial = r.initial /\ n.verification = r.verification
        /\ n.failedHead = HeadOf[id.work]
        /\ n.failed = IF r.failedHead = n.failedHead THEN r.failed ELSE 0
    BY <1>r, <1>1, <2>1, ReservedIs
  <2> HIDE DEF n
  <2> QED BY <2>2, <2>3 DEF Opens
<1>2. CASE s.pc = "reserve"
  <2>1. /\ s.slot \in Slots /\ n = Reserved(r, s.id, s.slot)
        /\ ReserveAccepts(r, s.id, s.slot, s.gen)
    BY <1>2 DEF GoodInvocation, Outcome, Accepts
  <2> HIDE DEF n
  <2> QED BY <1>0, <1>1, <1>2, <2>1 DEF Changed
<1>3. CASE s.pc = "chargeReserve"
  <2>1. /\ "failed-attempt" \in Slots /\ n = Reserved(r, ChargeId(s.id), "failed-attempt")
        /\ ReserveAccepts(r, ChargeId(s.id), "failed-attempt", s.gen)
    BY <1>3 DEF Slots, Outcome, Accepts
  <2> HIDE DEF n
  <2> QED BY <1>0, <1>1, <1>3, <2>1 DEF Changed
<1>4. CASE s.pc = "attach"
  <2>1. n = Attached(r, s.id) /\ AttachAccepts(r, s.id, s.gen)
    BY <1>4 DEF Outcome, Accepts
  <2>2. r.tx = None
    BY <2>1 DEF Attached
  <2>3. /\ n.gen = r.gen /\ n.res = r.res /\ n.slot = r.slot /\ n.tx.id = s.id
        /\ SameBudget(r, n)
    BY <1>r, <1>0, <2>1, <2>2, AttachedIs
  <2>4. r.gen = s.gen /\ r.res = s.id
    BY <2>1 DEF AttachAccepts
  <2> HIDE DEF n
  <2> QED BY <1>4, <2>2, <2>3, <2>4 DEF Changed, Attaches
<1>5. CASE s.pc = "checkpoint"
  <2>1. /\ s.result \in Results /\ n = Checkpointed(r, s.id, s.result)
        /\ CheckpointAccepts(r, s.id, s.gen, s.result)
    BY <1>5 DEF GoodInvocation, Outcome, Accepts
  <2>2. r.tx.phase # "publication_pending"
    BY <2>1 DEF Checkpointed
  <2>3. /\ r.gen = s.gen /\ r.res = s.id /\ r.slot # "failed-attempt" /\ r.slot \in Slots
        /\ r.tx # None /\ ~Publishable(r)
    BY <1>0, <1>r, <2>1, <2>2, AbsentAssumption
       DEF CheckpointAccepts, WellFormed, Records, Publishable
  <2>4. /\ n.gen = r.gen + 1 /\ n.res = None /\ n.tx.id = s.id
        /\ n.failedHead = r.failedHead
        /\ ~s.result.complete => /\ n.initial = r.initial /\ n.verification = r.verification
                                 /\ n.failed <= r.failed + 1
        /\ s.result.complete =>
             /\ n.initial + n.verification <= r.initial + r.verification + 1
             /\ n.failed = r.failed
    BY <1>r, <1>0, <2>1, <2>2, <2>3, CheckpointedIs
  <2> HIDE DEF n
  <2> QED BY <1>5, <2>3, <2>4 DEF Changed, Completes
<1>6. CASE s.pc = "abort"
  <2>1. n = Aborted(r) /\ r.res # None
    BY <1>6 DEF Outcome, Aborted
  <2>2. r.res = s.id
    BY <1>6, <2>1 DEF Accepts, AbortAccepts
  <2>3. n.gen = r.gen + 1 /\ n.res = None /\ n.tx = None /\ SameBudget(r, n)
    BY <1>r, <2>1, AbortedIs
  <2> HIDE DEF n
  <2> QED BY <1>6, <2>2, <2>3 DEF Changed, Aborts
<1>7. CASE s.pc = "chargeCommit"
  <2>1. n = Committed(r, ChargeId(s.id)) /\ CommitAccepts(r, ChargeId(s.id), s.gen)
    BY <1>7 DEF Outcome, Accepts
  <2>2. ~AlreadyCommitted(r, ChargeId(s.id))
    BY <2>1 DEF Committed
  <2>3. r.gen = s.gen /\ r.res = ChargeId(s.id) /\ r.slot \in Slots
    BY <1>0, <1>r, <2>1, <2>2, AbsentAssumption DEF CommitAccepts, WellFormed, Records
  <2>4. /\ n.gen = r.gen + 1 /\ n.res = None /\ n.tx = r.tx /\ n.failedHead = r.failedHead
        /\ r.slot = "failed-attempt" =>
             n.initial = r.initial /\ n.verification = r.verification
        /\ n.failed <= r.failed + 1
    BY <1>r, <1>0, <2>1, <2>2, <2>3, CommittedIs
  <2> HIDE DEF n
  <2> QED BY <1>7, <2>3, <2>4 DEF Changed, Charges
<1>8. CASE s.pc \in {"pause", "unpause", "grant"}
  <2>1. CASE s.pc = "grant"
    <3>1. n = Granted(r)
      BY <2>1 DEF Outcome
    <3> HIDE DEF n
    <3> QED BY <1>r, <2>1, <3>1, GrantedIs DEF Changed
  <2>2. CASE s.pc \in {"pause", "unpause"}
    <3>1. n = OperatorPaused(r, s.pc = "pause")
      BY <2>2 DEF Outcome
    <3> HIDE DEF n
    <3> QED BY <1>r, <2>2, <3>1, OperatorPausedIs DEF Changed
  <2> QED BY <1>8, <2>1, <2>2
<1> QED BY <1>2, <1>3, <1>4, <1>5, <1>6, <1>7, <1>8 DEF ReplacePcs

-----------------------------------------------------------------------------
(* Rounds                                                                  *)

LEMMA BeforeGrows ==
  ASSUME NEW fin, IsFiniteSet(fin), fin \subseteq [id : Ids, gen : Nat],
         NEW g \in Nat, NEW h \in Nat, g <= h
  PROVE  /\ Cardinality(FinishedBefore(fin, g)) \in Nat
         /\ Cardinality(FinishedBefore(fin, h)) \in Nat
         /\ Cardinality(FinishedBefore(fin, g)) <= Cardinality(FinishedBefore(fin, h))
         /\ \A f \in fin : f.gen = g /\ g < h =>
              Cardinality(FinishedBefore(fin, g)) + 1 <= Cardinality(FinishedBefore(fin, h))
<1> DEFINE a == FinishedBefore(fin, g)
           b == FinishedBefore(fin, h)
<1>1. /\ a \subseteq b /\ b \subseteq fin
      /\ \A f \in fin : f.gen = g /\ g < h => f \in b /\ f \notin a
  BY DEF FinishedBefore
<1>2. ASSUME NEW f \in fin, f.gen = g, g < h PROVE f \in b /\ f \notin a
  BY <1>1, <1>2
<1> HIDE DEF a, b
<1>3. IsFiniteSet(b) /\ IsFiniteSet(a)
  BY <1>1, FS_Subset
<1>4. Cardinality(a) \in Nat /\ Cardinality(b) \in Nat /\ Cardinality(a) <= Cardinality(b)
  BY <1>1, <1>3, FS_Subset, FS_CardinalityType
<1>5. ASSUME NEW f \in fin, f.gen = g, g < h
      PROVE  Cardinality(a) + 1 <= Cardinality(b)
  <2>1. Cardinality(a \cup {f}) = Cardinality(a) + 1
    BY <1>2, <1>3, <1>5, FS_AddElement
  <2>2. a \cup {f} \subseteq b
    BY <1>1, <1>2, <1>5
  <2>3. Cardinality(a \cup {f}) <= Cardinality(b)
    BY <1>3, <2>2, FS_Subset
  <2> QED BY <2>1, <2>3
<1> QED BY <1>4, <1>5 DEF a, b

\* A record is backed by later results too.
LEMMA BackedGrows ==
  ASSUME NEW r \in Records, NEW fin, NEW more, IsFiniteSet(more), fin \subseteq more,
         more \subseteq [id : Ids, gen : Nat], BackedRecord(r, fin)
  PROVE  BackedRecord(r, more)
<1> DEFINE a == FinishedBefore(fin, r.gen)
           b == FinishedBefore(more, r.gen)
<1>1. a \subseteq b /\ b \subseteq more
  BY DEF FinishedBefore
<1>2. r.initial + r.verification <= Cardinality(a) /\ r.initial + r.verification \in Nat
  BY CeilingAssumption DEF BackedRecord, Records
<1> HIDE DEF a, b
<1>3. IsFiniteSet(b)
  BY <1>1, FS_Subset
<1>4. Cardinality(a) \in Nat /\ Cardinality(b) \in Nat /\ Cardinality(a) <= Cardinality(b)
  BY <1>1, <1>3, FS_Subset, FS_CardinalityType
<1>5. r.initial + r.verification <= Cardinality(b)
  BY <1>2, <1>4
<1> QED BY <1>5 DEF BackedRecord, b

\* A later generation of a record that counts no more rounds.
LEMMA StillBacked ==
  ASSUME NEW r \in Records, NEW n \in Records, NEW fin, IsFiniteSet(fin),
         fin \subseteq [id : Ids, gen : Nat], BackedRecord(r, fin), r.gen <= n.gen,
         n.initial = r.initial, n.verification = r.verification
  PROVE  n.initial + n.verification <= Cardinality(FinishedBefore(fin, n.gen))
<1>1. r.gen \in Nat /\ n.gen \in Nat /\ r.initial + r.verification \in Nat
  BY CeilingAssumption DEF Records
<1>2. /\ Cardinality(FinishedBefore(fin, r.gen)) \in Nat
      /\ Cardinality(FinishedBefore(fin, n.gen)) \in Nat
      /\ Cardinality(FinishedBefore(fin, r.gen)) <= Cardinality(FinishedBefore(fin, n.gen))
  BY <1>1, BeforeGrows
<1>3. r.initial + r.verification <= Cardinality(FinishedBefore(fin, r.gen))
  BY DEF BackedRecord
<1> QED BY <1>1, <1>2, <1>3

LEMMA ChargeIdIs ==
  ASSUME NEW id \in Ids
  PROVE  ChargeId(id).charge = TRUE
BY DEF ChargeId, Ids

\* Every transition an invocation applies counts what the record is owed.
LEMMA OutcomeBacked ==
  ASSUME NEW fin, IsFiniteSet(fin), fin \subseteq [id : Ids, gen : Nat],
         NEW s, GoodInvocation(s), s.pc \in ReplacePcs, BackedInvocation(s, fin),
         NEW r, GoodRecord(r), BackedRecord(r, fin), Accepts(s, r)
  PROVE  BackedRecord(Outcome(s, r), fin)
<1> DEFINE n == Outcome(s, r)
           N == Cardinality(FinishedBefore(fin, n.gen))
<1> SUFFICES BackedRecord(n, fin)
  OBVIOUS
<1>0. s.id \in Ids /\ ChargeId(s.id) \in Ids /\ ~s.id.charge /\ ChargeId(s.id).charge
  BY ChargeIdType, ChargeIdIs DEF GoodInvocation, ReplacePcs, BackedInvocation
<1>r. r \in Records /\ r.gen \in Nat /\ WellFormed(r)
  BY DEF GoodRecord, Records
<1>n. n \in Records
  BY OutcomeGood DEF GoodRecord
<1>s. r.gen <= r.gen + 1 /\ r.gen < r.gen + 1 /\ r.gen + 1 \in Nat
  BY <1>r
<1>k. ASSUME r.gen <= n.gen, n.initial = r.initial, n.verification = r.verification
      PROVE  n.initial + n.verification <= N
  BY <1>k, <1>r, <1>n, StillBacked
<1>c. n = r \/ Changed(s, r, n)
  BY OutcomeIs
<1>i. s.pc = "reserve" => s.slot # "failed-attempt"
  BY DEF BackedInvocation
<1>t. r.tx # None => ~r.tx.id.charge
  BY DEF BackedRecord
<1>x. None \notin Ids
  BY AbsentAssumption
<1>b. s.pc = "checkpoint" /\ s.result.complete => [id |-> s.id, gen |-> s.gen] \in fin
  BY DEF BackedInvocation
<1> HIDE DEF n
<1>u. CASE n = r
  BY <1>u
<1>1. CASE \/ s.pc = "reserve" /\ Opens(r, n, s.id, s.slot, s.gen)
           \/ s.pc = "chargeReserve" /\ Opens(r, n, ChargeId(s.id), "failed-attempt", s.gen)
  <2>1. /\ r.gen <= n.gen /\ n.initial = r.initial /\ n.verification = r.verification
        /\ n.tx = None
    BY <1>1, <1>s DEF Opens
  <2>2. n.res.charge => n.slot = "failed-attempt"
    BY <1>0, <1>1 DEF Opens
  <2> QED BY <1>k, <2>1, <2>2 DEF BackedRecord
<1>2. CASE s.pc = "attach" /\ Attaches(s, r, n)
  <2>1. r.gen <= n.gen /\ n.initial = r.initial /\ n.verification = r.verification
    BY <1>2, <1>r DEF Attaches, SameBudget
  <2> QED BY <1>0, <1>2, <1>k, <2>1 DEF BackedRecord, Attaches
<1>3. CASE s.pc = "checkpoint" /\ Completes(s, r, n)
  <2>1. n.initial + n.verification <= N
    <3>1. CASE ~s.result.complete
      BY <1>3, <1>s, <1>k, <3>1 DEF Completes
    <3>2. CASE s.result.complete
      <4> DEFINE f == [id |-> s.id, gen |-> s.gen]
      <4>1. f \in fin /\ f.gen = r.gen
        BY <1>3, <1>b, <3>2 DEF Completes
      <4> HIDE DEF f
      <4>2. /\ Cardinality(FinishedBefore(fin, r.gen)) \in Nat
            /\ Cardinality(FinishedBefore(fin, r.gen + 1)) \in Nat
            /\ Cardinality(FinishedBefore(fin, r.gen)) + 1
                 <= Cardinality(FinishedBefore(fin, r.gen + 1))
        BY <1>r, <1>s, <4>1, BeforeGrows
      <4>3. r.initial + r.verification <= Cardinality(FinishedBefore(fin, r.gen))
        BY DEF BackedRecord
      <4>4. r.initial + r.verification \in Nat /\ n.initial + n.verification \in Nat
        BY <1>r, <1>n, CeilingAssumption DEF Records
      <4>5. /\ n.gen = r.gen + 1
            /\ n.initial + n.verification <= r.initial + r.verification + 1
        BY <1>3, <3>2 DEF Completes
      <4> QED BY <4>2, <4>3, <4>4, <4>5
    <3> QED BY <3>1, <3>2
  <2>2. n.res = None /\ n.tx.id = s.id
    BY <1>3 DEF Completes
  <2> QED BY <1>0, <2>1, <2>2 DEF BackedRecord
<1>4. CASE s.pc = "abort" /\ Aborts(s, r, n)
  BY <1>4, <1>s, <1>k DEF BackedRecord, Aborts, SameBudget
<1>5. CASE s.pc = "chargeCommit" /\ Charges(s, r, n)
  <2>1. r.slot = "failed-attempt"
    BY <1>0, <1>5, <1>x DEF BackedRecord, Charges
  <2> QED BY <1>5, <1>s, <1>k, <1>t, <2>1 DEF BackedRecord, Charges
<1>6. CASE Commanded(r, n)
  <2>1. r.gen <= n.gen /\ n.initial = r.initial /\ n.verification = r.verification
    BY <1>6, <1>s DEF Commanded, SameBudget
  <2> QED BY <1>6, <1>k, <2>1 DEF BackedRecord, Commanded
<1> QED BY <1>c, <1>u, <1>1, <1>2, <1>3, <1>4, <1>5, <1>6 DEF Changed

LEMMA IdleBacked ==
  ASSUME NEW fin
  PROVE  BackedInvocation(Idle, fin)
BY StagesAssumption DEF Idle, BackedInvocation, Stages

\* A review is decided on with an id that is not a charge, and for a round.
LEMMA DecideBacked ==
  ASSUME NEW p \in Procs, NEW s \in Invocations, s.id \in Ids, ~s.id.charge,
         NEW r \in Records, r.tx # None => ~r.tx.id.charge, Decide(p, s, r), NEW fin
  PROVE  \E n : Become(p, n) /\ BackedInvocation(n, fin)
<1> DEFINE id == ReservationId(r, s.id.work)
<1>1. ~id.charge
  BY DEF ReservationId, SameAttempt
<1>2. RoundKind(r) # "failed-attempt"
  BY DEF RoundKind
<1> HIDE DEF id
<1>3. PICK n :
        /\ Become(p, n)
        /\ \/ n = Idle
           \/ /\ n.pc = "reserve" /\ n.stage = "load" /\ n.slot = RoundKind(r) /\ n.id = id
           \/ /\ n.pc \in {"pause", "unpause", "grant"} /\ n.stage = "load" /\ n.id = s.id
  BY DecideIs DEF id
<1>4. BackedInvocation(n, fin)
  <2>1. CASE n = Idle
    BY <2>1, IdleBacked
  <2>2. CASE n.pc = "reserve" /\ n.stage = "load" /\ n.slot = RoundKind(r) /\ n.id = id
    BY <1>1, <1>2, <2>2 DEF BackedInvocation
  <2>3. CASE n.pc \in {"pause", "unpause", "grant"} /\ n.stage = "load" /\ n.id = s.id
    BY <2>3 DEF BackedInvocation
  <2> QED BY <1>3, <2>1, <2>2, <2>3
<1> QED BY <1>3, <1>4

LEMMA UnwoundBacked ==
  ASSUME NEW p \in Procs, NEW n, NEW cause, Unwound(p, n, cause), NEW fin,
         BackedInvocation(proc[p], fin)
  PROVE  BackedInvocation(n, fin)
<1>1. CASE n = Idle
  BY <1>1, IdleBacked
<1>2. CASE n.pc = "cleanup" /\ n.stage = None /\ n.id = proc[p].id /\ proc[p].pc = "checkpoint"
  BY <1>2, StagesAssumption DEF BackedInvocation, Stages
<1> QED BY <1>1, <1>2 DEF Unwound

\* A step that writes nothing and finishes nothing.
LEMMA BackedStays ==
  ASSUME IInv, Backed, NEW p \in Procs, NEW n, Become(p, n),
         BackedInvocation(n, finished), finished' = finished,
         file' = file \/ file' = None
  PROVE  Backed'
BY BecomeIs DEF Backed, IInv

LEMMA BackedInit == Init => Backed
<1> SUFFICES ASSUME Init PROVE Backed
  OBVIOUS
<1> QED BY IdleBacked, FS_EmptySet DEF Init, Backed

LEMMA BackedNext == IInv /\ Backed /\ [Next]_vars => Backed'
<1> SUFFICES ASSUME IInv, Backed, [Next]_vars PROVE Backed'
  OBVIOUS
<1>0. /\ GoodProcs /\ IsFiniteSet(finished) /\ finished \subseteq [id : Ids, gen : Nat]
      /\ \A q \in Procs : GoodInvocation(proc[q]) /\ BackedInvocation(proc[q], finished)
      /\ file # None => GoodRecord(file) /\ BackedRecord(file, finished)
  BY DEF IInv, Backed, GoodProcs, GoodHistory, GoodStore
<1>1. ASSUME NEW p \in Procs, Start(p) PROVE Backed'
  <2>1. PICK s \in Invocations :
           /\ s.id \in Ids /\ ~s.id.charge
           /\ \/ Readable /\ Decide(p, s, file)
              \/ \E n : Become(p, n) /\ n.pc \in {"witness", "retire"} /\ n.stage = None /\ n.id = s.id
    BY <1>1, StartIs
  <2>2. \E n : Become(p, n) /\ BackedInvocation(n, finished)
    <3>1. CASE Readable /\ Decide(p, s, file)
      <4>1. file \in Records /\ (file.tx # None => ~file.tx.id.charge)
        BY <1>0, <3>1 DEF Readable, GoodRecord, BackedRecord
      <4> QED BY <2>1, <3>1, <4>1, DecideBacked
    <3>2. ASSUME NEW n, Become(p, n), n.pc \in {"witness", "retire"}, n.stage = None, n.id = s.id
          PROVE  BackedInvocation(n, finished)
      BY <2>1, <3>2, StagesAssumption DEF BackedInvocation, Stages
    <3> QED BY <2>1, <3>1, <3>2
  <2>3. finished' = finished /\ file' = file
    BY <1>1 DEF Start, ledger, history
  <2> QED BY <2>2, <2>3, BackedStays
<1>2. ASSUME NEW p \in Procs, CreateWitness(p) \/ RetireWitness(p) \/ UnlinkRecord(p) PROVE Backed'
  <2>1. finished' = finished /\ (file' = file \/ file' = None)
    BY <1>2 DEF CreateWitness, RetireWitness, UnlinkRecord, ledger, history
  <2>2. Become(p, Idle) \/ \E pc \in {"link", "unlink", "witness"} : Goto(p, pc)
    BY <1>2 DEF CreateWitness, RetireWitness, UnlinkRecord, End
  <2>3. \E n : Become(p, n) /\ BackedInvocation(n, finished)
    <3>1. ASSUME NEW pc \in {"link", "unlink", "witness"}, Goto(p, pc)
          PROVE  \E n : Become(p, n) /\ BackedInvocation(n, finished)
      <4>1. PICK n : Become(p, n) /\ n.pc = pc /\ n.stage = None /\ n.id = proc[p].id
        BY <3>1, GotoIs
      <4>2. ~proc[p].id.charge
        BY <1>0, <1>2 DEF BackedInvocation, CreateWitness, RetireWitness, UnlinkRecord
      <4>3. BackedInvocation(n, finished)
        BY <4>1, <4>2, StagesAssumption DEF BackedInvocation, Stages
      <4> QED BY <4>1, <4>3
    <3> QED BY <2>2, <3>1, IdleBacked
  <2> QED BY <2>1, <2>3, BackedStays
<1>3. ASSUME NEW p \in Procs, LinkRecord(p) PROVE Backed'
  <2>1. CASE file # None
    <3>1. Become(p, Idle) /\ finished' = finished /\ file' = file
      BY <1>3, <2>1 DEF LinkRecord, End
    <3> QED BY <3>1, IdleBacked, BackedStays
  <2>2. CASE file = None
    <3> DEFINE r == Fresh(enrolled + 1)
    <3>1. /\ Decide(p, proc[p], r) \/ Become(p, Idle)
          /\ finished' = finished /\ file' = r
      BY <1>3, <2>2 DEF LinkRecord, End
    <3>2. /\ r \in Records /\ r.tx = None /\ r.res = None
          /\ r.initial + r.verification = 0 /\ r.gen = 0
      BY FreshGood DEF GoodRecord, Fresh, IInv, GoodCounts
    <3>3. proc[p] \in Invocations /\ proc[p].id \in Ids /\ ~proc[p].id.charge
      BY <1>0, <1>3 DEF LinkRecord, GoodInvocation, BackedInvocation
    <3> HIDE DEF r
    <3>4. PICK n : Become(p, n) /\ BackedInvocation(n, finished)
      BY <3>1, <3>2, <3>3, DecideBacked, IdleBacked
    <3>5. BackedRecord(r, finished)
      <4>1. Cardinality(FinishedBefore(finished, r.gen)) \in Nat
        BY <1>0, <3>2, BeforeGrows
      <4> QED BY <3>2, <4>1 DEF BackedRecord
    <3> QED BY <1>0, <3>1, <3>4, <3>5, BecomeIs DEF Backed
  <2> QED BY <2>1, <2>2
<1>4. ASSUME NEW p \in Procs, Load(p) PROVE Backed'
  <2>1. /\ proc[p].pc \in ReplacePcs /\ proc[p].stage = "load"
        /\ file' = file /\ finished' = finished
    BY <1>4, LoadIs DEF ledger
  <2>2. PICK n : /\ Become(p, n)
                 /\ \/ /\ Readable /\ Accepts(proc[p], file) /\ Knows(proc[p], n)
                       /\ n.new = Outcome(proc[p], file)
                    \/ Unwound(p, n, "error")
    BY <1>4, LoadIs
  <2>3. CASE Unwound(p, n, "error")
    BY <1>0, <2>1, <2>2, <2>3, UnwoundBacked, BackedStays
  <2>4. CASE Readable /\ Accepts(proc[p], file) /\ Knows(proc[p], n) /\ n.new = Outcome(proc[p], file)
    <3>1. BackedRecord(n.new, finished)
      BY <1>0, <2>1, <2>4, OutcomeBacked DEF Readable
    <3>2. BackedInvocation(n, finished)
      BY <1>0, <2>4, <3>1 DEF BackedInvocation, Knows
    <3> QED BY <2>1, <2>2, <3>2, BackedStays
  <2> QED BY <2>2, <2>3, <2>4
<1>5. ASSUME NEW p \in Procs, Fence(p) PROVE Backed'
  <2>1. file' = file /\ finished' = finished /\ proc[p].stage = "fence"
    BY <1>5, FenceIs DEF ledger
  <2>2. PICK n : /\ Become(p, n)
                 /\ \/ Knows(proc[p], n) /\ n.new = proc[p].new
                    \/ Unwound(p, n, "error")
    BY <1>5, FenceIs
  <2>3. BackedInvocation(n, finished)
    <3>1. CASE Unwound(p, n, "error")
      BY <1>0, <3>1, UnwoundBacked
    <3>2. CASE Knows(proc[p], n) /\ n.new = proc[p].new
      BY <1>0, <2>1, <3>2 DEF BackedInvocation, Knows
    <3> QED BY <2>2, <3>1, <3>2
  <2> QED BY <2>1, <2>2, <2>3, BackedStays
<1>6. ASSUME NEW p \in Procs, Write(p) PROVE Backed'
  <2>1. /\ file' = proc[p].new /\ finished' = finished /\ proc[p].stage = "write"
    BY <1>6, WriteIs
  <2>2. PICK n : Become(p, n) /\ Knows(proc[p], n) /\ n.new = proc[p].new
    BY <1>6, WriteIs
  <2>3. BackedRecord(proc[p].new, finished)
    BY <1>0, <2>1 DEF BackedInvocation
  <2>4. BackedInvocation(n, finished)
    BY <1>0, <2>2, <2>3 DEF BackedInvocation, Knows
  <2> QED BY <1>0, <2>1, <2>2, <2>3, <2>4, BecomeIs DEF Backed
<1>7. ASSUME NEW p \in Procs, ReadBack(p) PROVE Backed'
  <2>1. file' = file /\ finished' = finished /\ proc[p].stage = "readback" /\ proc[p].pc \in ReplacePcs
    BY <1>7, ReadBackIs DEF ledger
  <2>2. CASE Proceed(p)
    <3>1. PICK n :
             /\ Become(p, n)
             /\ \/ n = Idle
                \/ /\ n.id = proc[p].id /\ n.stage \in {"load", None}
                   /\ n.pc \in {"attach", "running", "chargeReserve", "chargeCommit"}
      BY <2>1, <2>2, ProceedIs
    <3>2. ~proc[p].id.charge
      BY <1>0, <2>1 DEF BackedInvocation, ReplacePcs
    <3>3. BackedInvocation(n, finished)
      <4>1. CASE n = Idle
        BY <4>1, IdleBacked
      <4>2. CASE n # Idle
        BY <3>1, <3>2, <4>2, StagesAssumption DEF BackedInvocation, Stages
      <4> QED BY <4>1, <4>2
    <3> QED BY <2>1, <3>1, <3>3, BackedStays
  <2>3. CASE \E n : Become(p, n) /\ Unwound(p, n, "error")
    BY <1>0, <2>1, <2>3, UnwoundBacked, BackedStays
  <2> QED BY <1>7, <2>2, <2>3, ReadBackIs
<1>8. ASSUME NEW p \in Procs, Analyse(p) PROVE Backed'
  <2>1. PICK result, n :
          /\ result \in Results
          /\ Become(p, n)
          /\ n.pc = "checkpoint" /\ n.stage = "load" /\ n.id = proc[p].id
          /\ n.gen = proc[p].gen /\ n.result = result
          /\ finished' = IF result.complete
                         THEN finished \cup {[id |-> proc[p].id, gen |-> proc[p].gen]}
                         ELSE finished
    BY <1>8, AnalyseIs
  <2>2. file' = file /\ proc[p].pc = "running"
    BY <1>8, AnalyseIs DEF ledger
  <2>3. proc[p].id \in Ids /\ proc[p].gen \in Nat /\ ~proc[p].id.charge
    BY <1>0, <2>2 DEF GoodInvocation, Invocations, BackedInvocation
  <2>4. /\ finished \subseteq finished' /\ IsFiniteSet(finished')
        /\ finished' \subseteq [id : Ids, gen : Nat]
    <3> DEFINE f == [id |-> proc[p].id, gen |-> proc[p].gen]
    <3>1. f \in [id : Ids, gen : Nat]
      BY <2>3
    <3>2. finished' \in {finished, finished \cup {f}}
      BY <2>1
    <3> HIDE DEF f
    <3>3. IsFiniteSet(finished \cup {f})
      BY <1>0, FS_AddElement
    <3> QED BY <1>0, <3>1, <3>2, <3>3
  <2>5. BackedInvocation(n, finished')
    BY <2>1, <2>3 DEF BackedInvocation
  <2>6. ASSUME NEW q \in Procs PROVE BackedInvocation(proc[q], finished')
    <3>1. proc[q].stage \in {"fence", "write", "readback"} => BackedRecord(proc[q].new, finished')
      BY <1>0, <2>4, BackedGrows DEF BackedInvocation, GoodInvocation, GoodRecord
    <3> QED BY <1>0, <2>4, <3>1 DEF BackedInvocation
  <2>7. file # None => BackedRecord(file, finished')
    BY <1>0, <2>4, BackedGrows DEF GoodRecord
  <2> QED BY <1>0, <2>1, <2>2, <2>4, <2>5, <2>6, <2>7, BecomeIs DEF Backed
<1>9. ASSUME NEW p \in Procs,
             \/ AnalysisFails(p) \/ BaselineUnusable(p) \/ Cleanup(p)
             \/ IOError(p) \/ Interrupt(p) \/ Crash(p)
      PROVE  Backed'
  <2>1. finished' = finished /\ file' = file
    BY <1>9, CleanupIs, FaultIs DEF AnalysisFails, BaselineUnusable, ledger, history
  <2>2. PICK n : /\ Become(p, n)
                 /\ \/ n = Idle
                    \/ /\ n.pc \in {"cleanup", "abort"} /\ n.stage \in {None, "load"}
                       /\ n.id = proc[p].id /\ proc[p].pc # "idle"
    <3>1. CASE AnalysisFails(p) \/ BaselineUnusable(p)
      <4>1. PICK charge \in BOOLEAN : CleanUp(p, charge) /\ proc[p].pc = "running"
        BY <3>1 DEF AnalysisFails, BaselineUnusable
      <4> QED BY <4>1, CleanUpIs
    <3>2. CASE Cleanup(p)
      BY <3>2, CleanupIs
    <3>3. CASE IOError(p) \/ Interrupt(p) \/ Crash(p)
      BY <3>3, FaultIs
    <3> QED BY <1>9, <3>1, <3>2, <3>3
  <2>3. BackedInvocation(n, finished)
    <3>1. CASE n = Idle
      BY <3>1, IdleBacked
    <3>2. CASE n # Idle
      BY <1>0, <2>2, <3>2, StagesAssumption DEF BackedInvocation, Stages
    <3> QED BY <3>1, <3>2
  <2> QED BY <2>1, <2>2, <2>3, BackedStays
<1>10. CASE Expire \/ Delete \/ UNCHANGED vars
  <2>1. UNCHANGED <<proc, finished>> /\ (file' = file \/ file' = None)
    BY <1>10 DEF Expire, Delete, vars, ledger, history
  <2> QED BY <2>1 DEF Backed
<1> QED BY <1>1, <1>2, <1>3, <1>4, <1>5, <1>6, <1>7, <1>8, <1>9, <1>10 DEF Next

\* A round is counted only by the checkpoint of a complete result, and that of
\* one reservation once: the generation it was reserved at is compared with the
\* stored one (mutate_checkpoint), and every count advances it.
THEOREM RoundsBacked == Spec => []RoundsAreBacked
<1>1. ASSUME IInv, Backed PROVE RoundsAreBacked
  <2> SUFFICES ASSUME file # None PROVE file.initial + file.verification <= Cardinality(finished)
    BY DEF RoundsAreBacked
  <2> DEFINE b == FinishedBefore(finished, file.gen)
  <2>1. b \subseteq finished /\ IsFiniteSet(finished)
    BY <1>1 DEF FinishedBefore, Backed
  <2>2. file.initial + file.verification <= Cardinality(b)
    BY <1>1 DEF Backed, BackedRecord
  <2>3. file.initial + file.verification \in Nat
    BY <1>1, CeilingAssumption DEF IInv, GoodStore, GoodRecord, Records
  <2> HIDE DEF b
  <2>4. /\ Cardinality(b) \in Nat /\ Cardinality(finished) \in Nat
        /\ Cardinality(b) <= Cardinality(finished)
    BY <2>1, FS_Subset, FS_CardinalityType
  <2> QED BY <2>2, <2>3, <2>4
<1>2. Init => IInv /\ Backed
  BY InitGood, BackedInit
<1>3. IInv /\ Backed /\ [Next]_vars => IInv' /\ Backed'
  BY NextGood, BackedNext
<1> QED BY <1>1, <1>2, <1>3, PTL DEF Spec

-----------------------------------------------------------------------------
(* Admission, one writer at a time                                         *)

\* While a replace is between its load and its read-back nobody else moves.
LEMMA OthersWait ==
  ASSUME Settled, NEW p \in Procs, MayStep(p)
  PROVE  \A q \in Procs \ {p} : proc[q].stage \notin {"fence", "write", "readback"}
BY DEF Settled, OneWriter, MayStep, Stages

LEMMA CreatedInit == Init => CreatedOnce
BY DEF Init, CreatedOnce, Idle

\* With no re-enrolment no witness is retired, and an invocation about to link
\* is the one that made the only witness.
LEMMA LinksFirst ==
  ASSUME IInv, Enrolment, CreatedOnce, NEW p \in Procs, proc[p].pc = "link"
  PROVE  enrolled = 0
<1>1. p \in Linking /\ IsFiniteSet(Linking)
  BY DEF Linking, Enrolment
<1>2. Cardinality(Linking) \in Nat /\ Cardinality(Linking) # 0
  BY <1>1, FS_CardinalityType, FS_EmptySet
<1>3. enrolled \in Nat /\ retired = 0 /\ witness \in BOOLEAN
      /\ enrolled + Cardinality(Linking) <= retired + (IF witness THEN 1 ELSE 0)
  BY DEF IInv, GoodCounts, CreatedOnce, Enrolment
<1> QED BY <1>2, <1>3

\* A step before anything has been enrolled, or after.
LEMMA CreatedStays ==
  ASSUME GoodProcs, CreatedOnce, NEW p \in Procs, NEW n, Become(p, n),
         UNCHANGED <<retired, enrolled>>, n.pc \notin {"retire", "unlink"},
         enrolled = 0 => file' = None /\ n.pc \in {"idle", "witness", "link"} /\ n.gen = 0
  PROVE  CreatedOnce'
<1>1. proc'[p] = n /\ \A q \in Procs \ {p} : proc'[q] = proc[q]
  BY BecomeIs
<1>2. \A q \in Procs : proc'[q].pc \notin {"retire", "unlink"}
  BY <1>1 DEF CreatedOnce
<1>3. enrolled = 0 => \A q \in Procs : proc'[q].pc \in {"idle", "witness", "link"} /\ proc'[q].gen = 0
  BY <1>1 DEF CreatedOnce
<1> QED BY <1>2, <1>3 DEF CreatedOnce

LEMMA CreatedNext ==
  ASSUME "reenroll" \notin Tasks, IInv, Enrolment, CreatedOnce, [Next]_vars
  PROVE  CreatedOnce'
<1>0. GoodProcs /\ Idle.pc = "idle" /\ Idle.gen = 0
  BY DEF IInv, Idle
<1>z. ASSUME enrolled = 0
      PROVE  file = None /\ \A q \in Procs : proc[q].pc \in {"idle", "witness", "link"} /\ proc[q].gen = 0
  BY <1>z DEF CreatedOnce
<1>1. ASSUME NEW p \in Procs, Start(p) PROVE CreatedOnce'
  <2>1. UNCHANGED <<retired, enrolled, file>>
    BY <1>1 DEF Start, ledger
  <2>2. PICK s \in Invocations :
           /\ s.gen = 0
           /\ \/ file # None /\ Decide(p, s, file)
              \/ \E n : Become(p, n) /\ n.pc = "witness" /\ n.gen = 0
    BY <1>1, StartIs DEF Readable
  <2>3. PICK n : /\ Become(p, n) /\ n.pc \notin {"retire", "unlink"}
                 /\ file # None \/ (n.pc = "witness" /\ n.gen = 0)
    <3>1. CASE file # None /\ Decide(p, s, file)
      <4>1. PICK n : Become(p, n) /\ (n = Idle \/ n.pc \in {"reserve", "pause", "unpause", "grant"})
        BY <3>1, DecideIs
      <4> QED BY <1>0, <3>1, <4>1
    <3> QED BY <2>2, <3>1
  <2> QED BY <1>0, <1>z, <2>1, <2>3, CreatedStays
<1>2. ASSUME NEW p \in Procs, CreateWitness(p) PROVE CreatedOnce'
  <2>1. UNCHANGED <<retired, enrolled, file>>
    BY <1>2 DEF CreateWitness
  <2>2. PICK n : Become(p, n) /\ (n = Idle \/ (n.pc = "link" /\ n.gen = proc[p].gen))
    <3>1. Goto(p, "link") \/ Become(p, Idle)
      BY <1>2 DEF CreateWitness, End
    <3> QED BY <3>1, GotoIs
  <2> QED BY <1>0, <1>z, <2>1, <2>2, CreatedStays
<1>3. ASSUME NEW p \in Procs, LinkRecord(p) PROVE CreatedOnce'
  <2>0. enrolled = 0 /\ file = None
    BY <1>3, <1>z, LinksFirst DEF LinkRecord
  <2>1. /\ enrolled' = enrolled + 1 /\ retired' = retired
        /\ Decide(p, proc[p], Fresh(enrolled + 1)) \/ Become(p, Idle)
    BY <1>3, <2>0 DEF LinkRecord, End
  <2>2. proc[p] \in Invocations
    BY <1>0 DEF GoodProcs
  <2>3. PICK n : Become(p, n) /\ (n = Idle \/ n.pc \in {"reserve", "pause", "unpause", "grant"})
    BY <2>1, <2>2, DecideIs
  <2>4. \A q \in Procs : proc'[q].pc \notin {"retire", "unlink"}
    BY <1>0, <2>3, BecomeIs DEF CreatedOnce
  <2>5. enrolled' # 0 /\ retired' = 0
    BY <2>0, <2>1 DEF CreatedOnce
  <2> QED BY <2>4, <2>5 DEF CreatedOnce
<1>4. ASSUME NEW p \in Procs, RetireWitness(p) \/ UnlinkRecord(p) PROVE CreatedOnce'
  BY <1>4 DEF RetireWitness, UnlinkRecord, CreatedOnce
<1>5. ASSUME NEW p \in Procs,
             \/ Load(p) \/ Fence(p) \/ Write(p) \/ ReadBack(p)
             \/ Analyse(p) \/ AnalysisFails(p) \/ BaselineUnusable(p) \/ Cleanup(p)
      PROVE  CreatedOnce'
  <2>1. UNCHANGED <<retired, enrolled>>
    BY <1>5, LoadIs, FenceIs, WriteIs, ReadBackIs, AnalyseIs, CleanupIs
       DEF AnalysisFails, BaselineUnusable, ledger
  <2>2. proc[p].pc \in ReplacePcs \cup {"running", "cleanup"}
    BY <1>5, LoadIs, FenceIs, WriteIs, ReadBackIs, AnalyseIs, CleanupIs
       DEF AnalysisFails, BaselineUnusable
  <2>3. enrolled # 0
    BY <1>z, <2>2 DEF ReplacePcs
  <2>4. PICK n : Become(p, n) /\ n.pc \notin {"retire", "unlink"}
    <3>u. ASSUME NEW n, NEW cause, Unwound(p, n, cause) PROVE n.pc \notin {"retire", "unlink"}
      BY <1>0, <3>u DEF Unwound
    <3>k. ASSUME NEW n, Knows(proc[p], n) PROVE n.pc \notin {"retire", "unlink"}
      BY <3>k DEF Knows, CreatedOnce
    <3>1. CASE Load(p)
      BY <3>1, <3>u, <3>k, LoadIs
    <3>2. CASE Fence(p)
      BY <3>2, <3>u, <3>k, FenceIs
    <3>3. CASE Write(p)
      BY <3>3, <3>k, WriteIs
    <3>4. CASE ReadBack(p)
      <4>1. CASE Proceed(p)
        BY <1>0, <3>4, <4>1, ReadBackIs, ProceedIs
      <4>2. CASE ~Proceed(p)
        BY <3>4, <4>2, <3>u, ReadBackIs
      <4> QED BY <4>1, <4>2
    <3>5. CASE Analyse(p)
      BY <3>5, AnalyseIs
    <3>6. CASE AnalysisFails(p) \/ BaselineUnusable(p)
      <4>1. PICK charge \in BOOLEAN : CleanUp(p, charge)
        BY <3>6 DEF AnalysisFails, BaselineUnusable
      <4> QED BY <4>1, CleanUpIs
    <3>7. CASE Cleanup(p)
      BY <1>0, <3>7, CleanupIs
    <3> QED BY <1>5, <3>1, <3>2, <3>3, <3>4, <3>5, <3>6, <3>7
  <2> QED BY <1>0, <2>1, <2>3, <2>4, CreatedStays
<1>6. ASSUME NEW p \in Procs, IOError(p) \/ Interrupt(p) \/ Crash(p) PROVE CreatedOnce'
  <2>1. UNCHANGED <<retired, enrolled, file>>
    BY <1>6, FaultIs DEF ledger
  <2>2. PICK n : /\ Become(p, n)
                 /\ n = Idle \/ (n.pc = "cleanup" /\ proc[p].pc \in {"running", "checkpoint"})
    BY <1>6, FaultIs
  <2> QED BY <1>0, <1>z, <2>1, <2>2, CreatedStays
<1>7. CASE Expire \/ Delete \/ UNCHANGED vars
  <2>1. UNCHANGED <<proc, enrolled, retired>> /\ (file' = file \/ file' = None)
    BY <1>7 DEF Expire, Delete, vars, ledger
  <2> QED BY <2>1 DEF CreatedOnce
<1> QED BY <1>1, <1>2, <1>3, <1>4, <1>5, <1>6, <1>7 DEF Next

LEMMA SettledInit == OneRecord /\ Init => Settled
BY CreatedInit DEF OneRecord, Settled

LEMMA SettledNext == OneRecord /\ IInv /\ Enrolment /\ Settled /\ [Next]_vars => Settled'
BY CreatedNext DEF OneRecord, Settled, OneWriter

\* While an invocation is replacing the record itself nobody has read it.
LEMMA NobodyReads ==
  ASSUME IInv, Enrolment, Steady, Settled,
         NEW p \in Procs, proc[p].pc \in {"link", "retire", "unlink"}
  PROVE  \A q \in Procs : proc[q].gen = 0 /\ proc[q].pc \in Enrolling \cup {"idle"}
<1>1. CASE OneWriter
  BY <1>1 DEF OneWriter, Steady, Enrolling
<1>2. CASE CreatedOnce
  <2>1. enrolled = 0
    BY <1>2, LinksFirst DEF CreatedOnce
  <2> QED BY <1>2, <2>1 DEF CreatedOnce, Enrolling
<1> QED BY <1>1, <1>2 DEF Settled

\* A checkpoint, an abort and a commit leave no hold, also where they find
\* their work done.
LEMMA EndsHold ==
  ASSUME NEW s, GoodInvocation(s), s.pc \in {"checkpoint", "abort", "chargeCommit"},
         NEW r, GoodRecord(r), Accepts(s, r)
  PROVE  Outcome(s, r).res = None
<1>0. s.id \in Ids /\ r \in Records /\ WellFormed(r)
  BY DEF GoodInvocation, GoodRecord
<1> DEFINE n == Outcome(s, r)
<1>1. CASE n # r
  <2>1. Changed(s, r, n)
    BY <1>1, OutcomeIs DEF ReplacePcs
  <2> HIDE DEF n
  <2>2. n.res = None
    BY <2>1 DEF Changed, Completes, Aborts, Charges
  <2> QED BY <2>2 DEF n
<1>2. CASE n = r
  <2>g. r.gen \in Nat /\ r.gen + 1 # r.gen
    BY <1>0 DEF Records
  <2>1. CASE s.pc = "checkpoint"
    <3>1. /\ s.result \in Results /\ n = Checkpointed(r, s.id, s.result)
          /\ CheckpointAccepts(r, s.id, s.gen, s.result)
      BY <2>1 DEF GoodInvocation, Outcome, Accepts
    <3> HIDE DEF n
    <3>2. CASE r.tx.phase = "publication_pending"
      BY <1>0, <1>2, <3>1, <3>2 DEF CheckpointAccepts, WellFormed, n
    <3>3. CASE r.tx.phase # "publication_pending"
      <4>1. r.slot \in Slots /\ r.slot # "failed-attempt"
        BY <1>0, <3>1, <3>3, AbsentAssumption DEF CheckpointAccepts, WellFormed, Records
      <4>2. n.gen = r.gen + 1
        BY <1>0, <3>1, <3>3, <4>1, CheckpointedIs
      <4> QED BY <1>2, <2>g, <4>2
    <3> QED BY <3>2, <3>3
  <2>2. CASE s.pc = "abort"
    <3>1. n = Aborted(r)
      BY <2>2 DEF Outcome
    <3> HIDE DEF n
    <3>2. CASE r.res # None
      <4>1. n.res = None
        BY <1>0, <3>1, <3>2, AbortedIs
      <4> QED BY <4>1 DEF n
    <3> QED BY <1>2, <3>2 DEF n
  <2>3. CASE s.pc = "chargeCommit"
    <3>1. n = Committed(r, ChargeId(s.id)) /\ CommitAccepts(r, ChargeId(s.id), s.gen)
      BY <2>3 DEF Outcome, Accepts
    <3> HIDE DEF n
    <3>2. CASE ~AlreadyCommitted(r, ChargeId(s.id))
      <4>1. ChargeId(s.id) \in Ids /\ r.slot \in Slots
        BY <1>0, <3>1, <3>2, ChargeIdType, AbsentAssumption DEF CommitAccepts, WellFormed, Records
      <4>2. n.gen = r.gen + 1
        BY <1>0, <3>1, <3>2, <4>1, CommittedIs
      <4> QED BY <1>2, <2>g, <4>2
    <3>3. CASE AlreadyCommitted(r, ChargeId(s.id))
      BY <1>2, <3>3 DEF AlreadyCommitted, n
    <3> QED BY <3>2, <3>3
  <2> QED BY <2>1, <2>2, <2>3
<1> QED BY <1>1, <1>2

\* What an outcome does to the generation, and to a record that has no hold.
LEMMA OutcomeGrows ==
  ASSUME NEW r \in Records, NEW n, NEW s, s.id \in Ids, n = r \/ Changed(s, r, n)
  PROVE  /\ n = r \/ n.gen = r.gen + 1 \/ (n.gen = r.gen /\ n.res # None)
         /\ r.gen <= n.gen
<1>1. r.gen \in Nat
  BY DEF Records
<1>2. CASE n = r
  BY <1>1, <1>2
<1>3. CASE s.pc = "attach" /\ Attaches(s, r, n)
  <2>1. n.gen = r.gen /\ n.res = s.id
    BY <1>3 DEF Attaches
  <2> QED BY <1>1, <2>1, AbsentAssumption
<1>4. CASE n.gen = r.gen + 1
  BY <1>1, <1>4
<1> QED BY <1>2, <1>3, <1>4 DEF Changed, Opens, Completes, Aborts, Charges, Commanded

\* An invocation between two replaces only has to know no later generation.
LEMMA Outside ==
  ASSUME NEW n, NEW r, r # None => n.gen <= r.gen,
         n.stage \notin {"fence", "write", "readback"},
         n.pc = "reserve" /\ n.stage \in Entering => Standing(n, r)
  PROVE  CurrentOn(n, r)
BY DEF CurrentOn, InReplace

LEMMA IdleCurrent ==
  ASSUME NEW r, r = None \/ r \in Records
  PROVE  CurrentOn(Idle, r)
<1>1. r # None => Idle.gen <= r.gen
  BY DEF Idle, Records
<1>2. Idle.stage \notin {"fence", "write", "readback"} /\ Idle.pc # "reserve"
  BY StagesAssumption DEF Idle, Stages
<1> QED BY <1>1, <1>2, Outside

LEMMA DecideCurrent ==
  ASSUME NEW p \in Procs, NEW s \in Invocations, s.gen = 0, NEW r \in Records, Decide(p, s, r)
  PROVE  \E n : Become(p, n) /\ CurrentOn(n, r)
<1>1. PICK n :
        /\ Become(p, n)
        /\ \/ n = Idle
           \/ n.pc = "reserve" /\ n.stage = "load" /\ n.gen = r.gen /\ Admits(r, n.id)
           \/ /\ n.pc \in {"pause", "unpause", "grant"} /\ n.stage = "load"
              /\ n.gen \in {s.gen, r.gen}
  BY DecideIs
<1>2. r.gen \in Nat
  BY DEF Records
<1>3. CASE n = Idle
  BY <1>1, <1>3, IdleCurrent
<1>4. CASE n.pc = "reserve" /\ n.stage = "load" /\ n.gen = r.gen /\ Admits(r, n.id)
  <2>1. Standing(n, r)
    BY <1>4 DEF Standing
  <2> QED BY <1>1, <1>2, <1>4, <2>1, Outside
<1>5. CASE /\ n.pc \in {"pause", "unpause", "grant"} /\ n.stage = "load"
           /\ n.gen \in {s.gen, r.gen}
  BY <1>1, <1>2, <1>5, Outside
<1> QED BY <1>1, <1>3, <1>4, <1>5

\* A step that leaves the record alone.
LEMMA CurrentStays ==
  ASSUME GoodProcs, Current, NEW p \in Procs, NEW n, Become(p, n), file' = file,
         CurrentOn(n, file)
  PROVE  Current'
BY BecomeIs DEF Current

\* What an invocation learns when it gives up is nothing.
LEMMA UnwoundCurrent ==
  ASSUME IInv, Current, NEW p \in Procs, NEW n, NEW cause, Unwound(p, n, cause)
  PROVE  CurrentOn(n, file)
<1>1. file = None \/ file \in Records
  BY DEF IInv, GoodStore, GoodRecord
<1>2. CASE n = Idle
  BY <1>1, <1>2, IdleCurrent
<1>3. CASE n.pc = "cleanup" /\ n.stage = None /\ n.gen = proc[p].gen
  <2>1. file # None => n.gen <= file.gen
    BY <1>3 DEF Current, CurrentOn
  <2>2. n.stage \notin {"fence", "write", "readback"}
    BY <1>3, StagesAssumption DEF Stages
  <2> QED BY <1>3, <2>1, <2>2, Outside
<1> QED BY <1>2, <1>3 DEF Unwound

LEMMA CurrentInit == Init => Current
BY IdleCurrent DEF Init, Current

\* The write of a replace: its record is the outcome of the stored one.
LEMMA WriteReplaces ==
  ASSUME IInv, Current, NEW p \in Procs, Write(p)
  PROVE  /\ file # None /\ GoodRecord(file) /\ file' \in Records
         /\ GoodInvocation(proc[p]) /\ proc[p].pc \in ReplacePcs /\ proc[p].stage = "write"
         /\ proc[p].id \in Ids
         /\ file = proc[p].old /\ Accepts(proc[p], file)
         /\ file' = file \/ Changed(proc[p], file, file')
<1>1. /\ file # None /\ file = proc[p].old /\ Accepts(proc[p], file)
      /\ proc[p].new = Outcome(proc[p], file)
  BY WriteIs DEF Current, CurrentOn, InReplace
<1>2. /\ GoodRecord(file) /\ GoodInvocation(proc[p]) /\ proc[p].pc \in ReplacePcs
      /\ proc[p].stage = "write" /\ file' = proc[p].new /\ file' \in Records
  BY <1>1, WriteIs DEF IInv, GoodStore, GoodProcs, GoodRecord
<1>3. proc[p].id \in Ids
  BY <1>2 DEF GoodInvocation, ReplacePcs
<1>4. file' = file \/ Changed(proc[p], file, file')
  BY <1>1, <1>2, OutcomeIs
<1> QED BY <1>1, <1>2, <1>3, <1>4

LEMMA CurrentNext ==
  ASSUME IInv, Enrolment, Steady, Settled, Current, [Next]_vars
  PROVE  Current'
<1>0. /\ GoodProcs /\ (file = None \/ file \in Records) /\ None \notin Records
      /\ \A q \in Procs : /\ CurrentOn(proc[q], file) /\ proc[q] \in Invocations
                          /\ proc[q].gen \in Nat
                          /\ file # None => proc[q].gen <= file.gen
  BY AbsentAssumption DEF IInv, GoodProcs, GoodStore, GoodRecord, Current, CurrentOn, Invocations
<1>s. None \notin {"load", "fence", "write", "readback"}
  BY StagesAssumption DEF Stages
<1>f. file # None => file.gen \in Nat
  BY <1>0 DEF Records
<1>1. ASSUME NEW p \in Procs, Start(p) PROVE Current'
  <2>1. file' = file
    BY <1>1 DEF Start, ledger
  <2>2. PICK s \in Invocations :
           /\ s.gen = 0
           /\ \/ file # None /\ Decide(p, s, file)
              \/ \E n : /\ Become(p, n) /\ n.pc \in {"witness", "retire"} /\ n.stage = None
                        /\ n.gen = 0
    BY <1>1, StartIs DEF Readable
  <2>3. \E n : Become(p, n) /\ CurrentOn(n, file)
    <3>1. CASE file # None /\ Decide(p, s, file)
      BY <1>0, <2>2, <3>1, DecideCurrent
    <3>2. ASSUME NEW n, Become(p, n), n.pc \in {"witness", "retire"}, n.stage = None, n.gen = 0
          PROVE  CurrentOn(n, file)
      <4>1. file # None => n.gen <= file.gen
        BY <1>f, <3>2
      <4> QED BY <1>s, <3>2, <4>1, Outside
    <3> QED BY <2>2, <3>1, <3>2
  <2> QED BY <1>0, <2>1, <2>3, CurrentStays
<1>2. ASSUME NEW p \in Procs, CreateWitness(p) PROVE Current'
  <2>1. file' = file
    BY <1>2 DEF CreateWitness
  <2>2. PICK n : /\ Become(p, n)
                 /\ n = Idle \/ (n.pc = "link" /\ n.stage = None /\ n.gen = proc[p].gen)
    <3>1. Goto(p, "link") \/ Become(p, Idle)
      BY <1>2 DEF CreateWitness, End
    <3> QED BY <3>1, GotoIs
  <2>3. CurrentOn(n, file)
    <3>1. CASE n = Idle
      BY <1>0, <3>1, IdleCurrent
    <3>2. CASE n.pc = "link" /\ n.stage = None /\ n.gen = proc[p].gen
      <4>1. file # None => n.gen <= file.gen
        BY <1>0, <3>2
      <4> QED BY <1>s, <3>2, <4>1, Outside
    <3> QED BY <2>2, <3>1, <3>2
  <2> QED BY <1>0, <2>1, <2>2, <2>3, CurrentStays
<1>3. ASSUME NEW p \in Procs, LinkRecord(p) PROVE Current'
  <2> DEFINE r == Fresh(enrolled + 1)
  <2>f. CASE file # None
    <3>1. file' = file /\ Become(p, Idle)
      BY <1>3, <2>f DEF LinkRecord, End
    <3> QED BY <1>0, <3>1, IdleCurrent, CurrentStays
  <2> SUFFICES ASSUME file = None PROVE Current'
    BY <2>f
  <2>1. /\ file' = r
        /\ Decide(p, proc[p], r) \/ Become(p, Idle)
    BY <1>3 DEF LinkRecord, End
  <2>2. r \in Records /\ r.gen = 0
    <3>1. enrolled \in Nat
      BY DEF IInv, GoodCounts
    <3> QED BY <3>1, FreshGood DEF GoodRecord, Fresh
  <2> HIDE DEF r
  <2>3. \A q \in Procs : proc[q].gen = 0 /\ proc[q].pc \in Enrolling \cup {"idle"}
    BY <1>3, NobodyReads DEF LinkRecord
  <2>4. PICK n : Become(p, n) /\ CurrentOn(n, r)
    BY <1>0, <2>1, <2>2, <2>3, DecideCurrent, IdleCurrent
  <2>5. ASSUME NEW q \in Procs PROVE CurrentOn(proc[q], r)
    <3>1. proc[q].gen <= r.gen /\ proc[q].pc # "reserve"
      BY <2>2, <2>3 DEF Enrolling
    <3>2. proc[q].stage \notin {"fence", "write", "readback"}
      BY <2>3 DEF IInv, GoodProcs, GoodInvocation, Stages, ReplacePcs, Enrolling
    <3> QED BY <3>1, <3>2, Outside
  <2> QED BY <1>0, <2>1, <2>4, <2>5, BecomeIs DEF Current
<1>4. ASSUME NEW p \in Procs, RetireWitness(p) \/ UnlinkRecord(p) PROVE Current'
  <2>1. /\ file' = file \/ file' = None
        /\ \E pc \in {"unlink", "witness"} : Goto(p, pc)
    BY <1>4 DEF RetireWitness, UnlinkRecord
  <2>2. PICK n : /\ Become(p, n) /\ n.pc \in {"unlink", "witness"} /\ n.stage = None
                 /\ n.gen = proc[p].gen
    BY <2>1, GotoIs
  <2>3. \A q \in Procs : proc[q].gen = 0 /\ proc[q].pc \in Enrolling \cup {"idle"}
    BY <1>4, NobodyReads DEF RetireWitness, UnlinkRecord
  <2>4. ASSUME NEW q \in Procs PROVE CurrentOn(proc'[q], file')
    <3>1. proc'[q].stage \notin {"fence", "write", "readback"} /\ proc'[q].pc # "reserve"
      <4>1. CASE q = p
        BY <1>0, <1>s, <2>2, <4>1, BecomeIs
      <4>2. CASE q # p
        <5>1. proc'[q] = proc[q]
          BY <1>0, <2>2, <4>2, BecomeIs
        <5> QED BY <2>3, <5>1
             DEF IInv, GoodProcs, GoodInvocation, Stages, ReplacePcs, Enrolling
      <4> QED BY <4>1, <4>2
    <3>2. proc'[q].gen = 0
      BY <1>0, <2>2, <2>3, BecomeIs
    <3>3. file' # None => proc'[q].gen <= file'.gen
      BY <1>f, <2>1, <3>2
    <3> QED BY <3>1, <3>3, Outside
  <2> QED BY <2>4 DEF Current
<1>5. ASSUME NEW p \in Procs, Load(p) PROVE Current'
  <2>1. file' = file /\ proc[p].stage = "load"
    BY <1>5, LoadIs DEF ledger
  <2>2. PICK n : /\ Become(p, n)
                 /\ \/ /\ Readable /\ Accepts(proc[p], file) /\ Knows(proc[p], n)
                       /\ n.stage = "fence" /\ n.old = file /\ n.new = Outcome(proc[p], file)
                    \/ Unwound(p, n, "error")
    BY <1>5, LoadIs
  <2>3. CurrentOn(n, file)
    <3>1. CASE Unwound(p, n, "error")
      BY <3>1, UnwoundCurrent
    <3>2. CASE /\ Readable /\ Accepts(proc[p], file) /\ Knows(proc[p], n)
               /\ n.stage = "fence" /\ n.old = file /\ n.new = Outcome(proc[p], file)
      <4>1. InReplace(n, file)
        BY <3>2, KnowsSame DEF InReplace, Readable
      <4>2. n.gen <= file.gen /\ (n.pc = "reserve" => Standing(n, file))
        BY <1>0, <2>1, <3>2 DEF CurrentOn, Knows, Standing, Entering, Readable
      <4> QED BY <4>1, <4>2 DEF CurrentOn
    <3> QED BY <2>2, <3>1, <3>2
  <2> QED BY <1>0, <2>1, <2>2, <2>3, CurrentStays
<1>6. ASSUME NEW p \in Procs, Fence(p) PROVE Current'
  <2>1. file' = file /\ proc[p].stage = "fence"
    BY <1>6, FenceIs DEF ledger
  <2>2. PICK n : /\ Become(p, n)
                 /\ \/ /\ Knows(proc[p], n) /\ n.stage = "write"
                       /\ n.old = proc[p].old /\ n.new = proc[p].new
                    \/ Unwound(p, n, "error")
    BY <1>6, FenceIs
  <2>3. CurrentOn(n, file)
    <3>1. CASE Unwound(p, n, "error")
      BY <3>1, UnwoundCurrent
    <3>2. CASE Knows(proc[p], n) /\ n.stage = "write" /\ n.old = proc[p].old /\ n.new = proc[p].new
      <4>0. /\ file # None /\ file = proc[p].old /\ Accepts(proc[p], file)
            /\ proc[p].new = Outcome(proc[p], file)
        BY <1>0, <2>1 DEF CurrentOn, InReplace
      <4>1. InReplace(n, file)
        BY <3>2, <4>0, KnowsSame DEF InReplace
      <4>2. n.gen <= file.gen /\ (n.pc = "reserve" => Standing(n, file))
        BY <1>0, <2>1, <3>2, <4>0 DEF CurrentOn, Knows, Standing, Entering
      <4> QED BY <4>1, <4>2 DEF CurrentOn
    <3> QED BY <2>2, <3>1, <3>2
  <2> QED BY <1>0, <2>1, <2>2, <2>3, CurrentStays
<1>7. ASSUME NEW p \in Procs, Write(p) PROVE Current'
  <2>1. /\ file # None /\ file \in Records /\ file' \in Records /\ proc[p].id \in Ids
        /\ file' = file \/ Changed(proc[p], file, file')
    BY <1>7, WriteReplaces DEF GoodRecord
  <2>2. /\ file' = file \/ file'.gen = file.gen + 1 \/ (file'.gen = file.gen /\ file'.res # None)
        /\ file.gen <= file'.gen
        /\ file.gen = file'.gen /\ file.res = None => file' = file
    <3>1. /\ file' = file \/ file'.gen = file.gen + 1 \/ (file'.gen = file.gen /\ file'.res # None)
          /\ file.gen <= file'.gen
      BY <2>1, OutcomeGrows
    <3>2. CASE file'.gen = file.gen /\ file.res = None /\ file' # file
      <4>1. Changed(proc[p], file, file') /\ file'.gen # file.gen + 1
        BY <1>f, <2>1, <3>2
      <4>2. Attaches(proc[p], file, file')
        BY <4>1 DEF Changed, Opens, Completes, Aborts, Charges, Commanded
      <4> QED BY <2>1, <3>2, <4>2, AbsentAssumption DEF Attaches
    <3> QED BY <3>1, <3>2
  <2>3. PICK n : Become(p, n) /\ Knows(proc[p], n) /\ n.stage = "readback" /\ n.new = proc[p].new
    BY <1>7, WriteIs
  <2>4. file' = proc[p].new /\ \A q \in Procs \ {p} : proc[q].stage \notin {"fence", "write", "readback"}
    BY <1>7, WriteIs, OthersWait
  <2>5. file'.gen \in Nat /\ file.gen \in Nat /\ file' # None
    BY <1>0, <2>1 DEF Records
  <2>6. CurrentOn(n, file')
    <3>1. n.gen <= file'.gen
      <4>1. n.gen = proc[p].gen
        BY <2>3 DEF Knows
      <4> QED BY <1>0, <2>1, <2>2, <2>5, <4>1
    <3>2. n.pc \in {"checkpoint", "abort", "chargeCommit"} => file'.res = None
      <4>1. /\ GoodInvocation(proc[p]) /\ GoodRecord(file) /\ Accepts(proc[p], file)
            /\ file' = Outcome(proc[p], file)
        BY <1>0, <1>7, WriteReplaces, WriteIs DEF CurrentOn, InReplace
      <4>2. n.pc = proc[p].pc
        BY <2>3 DEF Knows
      <4> QED BY <4>1, <4>2, EndsHold
    <3> QED BY <2>3, <2>4, <2>5, <3>1, <3>2 DEF CurrentOn, InReplace, Entering
  <2>7. ASSUME NEW q \in Procs \ {p} PROVE CurrentOn(proc[q], file')
    <3>1. proc[q].gen <= file'.gen
      BY <1>0, <2>1, <2>2, <2>5
    <3>2. ASSUME proc[q].pc = "reserve", proc[q].stage \in Entering
          PROVE  Standing(proc[q], file')
      <4>1. Standing(proc[q], file)
        BY <1>0, <3>2 DEF CurrentOn
      <4>2. CASE file.gen > proc[q].gen
        <5>1. file'.gen > proc[q].gen
          BY <1>0, <2>2, <2>5, <4>2
        <5> QED BY <5>1 DEF Standing
      <4>3. CASE file.gen = proc[q].gen /\ Admits(file, proc[q].id)
        <5>1. file.res = None
          BY <4>3 DEF Admits
        <5>2. CASE file' = file
          BY <4>1, <5>2
        <5>3. CASE file' # file
          <6>1. file'.gen > proc[q].gen
            BY <1>0, <2>2, <2>5, <4>3, <5>1, <5>3
          <6> QED BY <6>1 DEF Standing
        <5> QED BY <5>2, <5>3
      <4> QED BY <2>1, <4>1, <4>2, <4>3 DEF Standing
    <3> QED BY <2>4, <3>1, <3>2, Outside
  <2> QED BY <1>0, <2>3, <2>6, <2>7, BecomeIs DEF Current
<1>8. ASSUME NEW p \in Procs, ReadBack(p) PROVE Current'
  <2>1. file' = file /\ proc[p].stage = "readback" /\ file # None /\ file = proc[p].new
    BY <1>0, <1>8, ReadBackIs DEF ledger, CurrentOn, InReplace
  <2>2. Proceed(p)
    BY <1>8, <2>1, ReadBackIs
  <2>3. PICK n : /\ Become(p, n)
                 /\ \/ n = Idle
                    \/ /\ n.gen = file.gen /\ n.stage \in {"load", None}
                       /\ n.pc \in {"attach", "running", "chargeReserve", "chargeCommit"}
    BY <2>1, <2>2, ProceedIs
  <2>4. CurrentOn(n, file)
    <3>1. CASE n = Idle
      BY <1>0, <3>1, IdleCurrent
    <3>2. CASE /\ n.gen = file.gen /\ n.stage \in {"load", None}
               /\ n.pc \in {"attach", "running", "chargeReserve", "chargeCommit"}
      <4>1. n.gen <= file.gen
        BY <1>f, <2>1, <3>2
      <4>2. n.stage \notin {"fence", "write", "readback"} /\ n.pc # "reserve"
        BY <1>s, <3>2
      <4> QED BY <4>1, <4>2, Outside
    <3> QED BY <2>3, <3>1, <3>2
  <2> QED BY <1>0, <2>1, <2>3, <2>4, CurrentStays
<1>9. ASSUME NEW p \in Procs,
             \/ Analyse(p) \/ AnalysisFails(p) \/ BaselineUnusable(p) \/ Cleanup(p)
             \/ IOError(p) \/ Interrupt(p) \/ Crash(p)
      PROVE  Current'
  <2>1. file' = file
    BY <1>9, AnalyseIs, CleanupIs, FaultIs DEF AnalysisFails, BaselineUnusable, ledger
  <2>2. PICK n : /\ Become(p, n)
                 /\ \/ n = Idle
                    \/ /\ n.gen = proc[p].gen \/ (file # None /\ n.gen = file.gen)
                       /\ n.stage \in {"load", None}
                       /\ n.pc \in {"checkpoint", "cleanup", "abort"}
    <3>1. CASE Analyse(p)
      BY <3>1, AnalyseIs
    <3>2. CASE AnalysisFails(p) \/ BaselineUnusable(p)
      <4>1. PICK charge \in BOOLEAN : CleanUp(p, charge)
        BY <3>2 DEF AnalysisFails, BaselineUnusable
      <4> QED BY <4>1, CleanUpIs
    <3>3. CASE Cleanup(p)
      BY <3>3, CleanupIs DEF Readable
    <3>4. CASE IOError(p) \/ Interrupt(p) \/ Crash(p)
      BY <3>4, FaultIs
    <3> QED BY <1>9, <3>1, <3>2, <3>3, <3>4
  <2>3. CurrentOn(n, file)
    <3>1. CASE n = Idle
      BY <1>0, <3>1, IdleCurrent
    <3>2. CASE n # Idle
      <4>1. file # None => n.gen <= file.gen
        BY <1>0, <1>f, <2>2, <3>2
      <4>2. n.stage \notin {"fence", "write", "readback"} /\ n.pc # "reserve"
        BY <1>s, <2>2, <3>2
      <4> QED BY <4>1, <4>2, Outside
    <3> QED BY <3>1, <3>2
  <2> QED BY <1>0, <2>1, <2>2, <2>3, CurrentStays
<1>10. CASE Delete
  <2>1. file' = None /\ proc' = proc /\ \A q \in Procs : proc[q].pc = "idle"
    BY <1>10 DEF Delete
  <2>2. ASSUME NEW q \in Procs PROVE CurrentOn(proc'[q], file')
    <3>1. proc[q].stage \notin {"fence", "write", "readback"}
      BY <2>1 DEF IInv, GoodProcs, GoodInvocation, Stages, ReplacePcs
    <3> QED BY <2>1, <3>1, Outside
  <2> QED BY <2>2 DEF Current
<1>11. CASE Expire \/ UNCHANGED vars
  BY <1>11 DEF Expire, vars, ledger, Current
<1> QED BY <1>1, <1>2, <1>3, <1>4, <1>5, <1>6, <1>7, <1>8, <1>9, <1>10, <1>11 DEF Next

LEMMA Freshness == Spec => [](IInv /\ Enrolment /\ Backed /\ Steady)
<1>1. Init => IInv /\ Enrolment /\ Backed /\ Steady
  BY InitGood, EnrolmentInit, BackedInit, SteadyInit
<1>2. IInv /\ Enrolment /\ Backed /\ Steady /\ [Next]_vars
        => IInv' /\ Enrolment' /\ Backed' /\ Steady'
  BY NextGood, EnrolmentNext, BackedNext, SteadyNext
<1> QED BY <1>1, <1>2, PTL DEF Spec

LEMMA Currency ==
  ASSUME OneRecord
  PROVE  Spec => [](Settled /\ Current)
<1>1. Init => Settled /\ Current
  BY SettledInit, CurrentInit
<1>2. IInv /\ Enrolment /\ Steady /\ Settled /\ Current /\ [Next]_vars => Settled' /\ Current'
  BY SettledNext, CurrentNext
<1> QED BY <1>1, <1>2, Freshness, PTL DEF Spec

\* The steps that change the record.
LEMMA FileChanges ==
  ASSUME Next, file' # file, file' # None
  PROVE  \/ file = None /\ file' = Fresh(enrolled + 1)
         \/ \E p \in Procs : Write(p)
<1>1. ASSUME NEW p \in Procs, LinkRecord(p) PROVE file = None /\ file' = Fresh(enrolled + 1)
  BY <1>1 DEF LinkRecord
<1>2. ASSUME NEW p \in Procs, Start(p) \/ CreateWitness(p) \/ RetireWitness(p) PROVE FALSE
  BY <1>2 DEF Start, CreateWitness, RetireWitness, ledger
<1>3. ASSUME NEW p \in Procs, UnlinkRecord(p) PROVE FALSE
  BY <1>3 DEF UnlinkRecord
<1>4. ASSUME NEW p \in Procs,
             \/ Load(p) \/ Fence(p) \/ ReadBack(p) \/ Analyse(p) \/ AnalysisFails(p)
             \/ BaselineUnusable(p) \/ Cleanup(p) \/ IOError(p) \/ Interrupt(p) \/ Crash(p)
      PROVE  FALSE
  BY <1>4 DEF Load, Fence, ReadBack, Analyse, AnalysisFails, BaselineUnusable, Cleanup,
     IOError, Interrupt, Crash, ledger
<1>5. CASE Expire \/ Delete
  BY <1>5 DEF Expire, Delete
<1> QED BY <1>1, <1>2, <1>3, <1>4, <1>5 DEF Next

\* Between the decision of prepare_session_round and the write that reserves
\* the round the record has kept its generation, which pauses, holds, counts
\* and commits all advance.
THEOREM AdmissionStaysCurrent ==
  ASSUME OneRecord
  PROVE  Spec => AdmissionIsCurrent
<1> DEFINE Reserves == file' # None /\ file'.res # None /\ file'.slot # "failed-attempt" /\ ~Held
           Admitted == file # None /\ Admits(file, file'.res)
<1>1. ASSUME IInv, Current, Next, Reserves PROVE Admitted
  <2>1. file' # file
    BY <1>1 DEF Held
  <2>2. CASE file = None /\ file' = Fresh(enrolled + 1)
    BY <1>1, <2>2 DEF Fresh
  <2>3. ASSUME NEW p \in Procs, Write(p) PROVE Admitted
    <3>1. /\ file # None /\ file.res = None /\ proc[p].stage = "write" /\ proc[p].id \in Ids
          /\ Changed(proc[p], file, file')
      BY <1>1, <2>1, <2>3, WriteReplaces DEF Held
    <3>2. proc[p].pc = "reserve" /\ Opens(file, file', proc[p].id, proc[p].slot, proc[p].gen)
      <4>1. ChargeId(proc[p].id) \in Ids
        BY <3>1, ChargeIdType
      <4> QED
        BY <1>1, <3>1, <4>1, AbsentAssumption
           DEF Changed, Opens, Attaches, Completes, Aborts, Charges, Commanded
    <3>3. Standing(proc[p], file)
      BY <1>1, <3>1, <3>2 DEF Current, CurrentOn, Entering
    <3>4. file.gen = proc[p].gen /\ file.gen \in Nat /\ file'.res = proc[p].id
      BY <1>1, <3>1, <3>2 DEF Opens, IInv, GoodStore, GoodRecord, Records
    <3>5. ~(file.gen > proc[p].gen)
      BY <3>4
    <3> QED BY <3>1, <3>3, <3>4, <3>5 DEF Standing
  <2> QED BY <1>1, <2>1, <2>2, <2>3, FileChanges
<1>2. IInv /\ Current /\ [Next]_vars => [Reserves => Admitted]_vars
  BY <1>1
<1>3. Spec => [][Reserves => Admitted]_vars
  BY <1>2, Freshness, Currency, PTL DEF Spec
<1> QED BY <1>3 DEF AdmissionIsCurrent

-----------------------------------------------------------------------------
(* The hold and what it owes                                               *)

LEMMA NotInvolved ==
  ASSUME NEW s, NEW r,
         \/ s.pc \in Enrolling \cup {"idle", "pause", "unpause", "grant"}
         \/ s.pc = "reserve" /\ s.stage # "readback"
  PROVE  ~Keeping(s) /\ ~Claims(s, r) /\ ~Turn(s, r) /\ ~Owes(s, r)
<1>1. ~Keeping(s)
  BY DEF Keeping, Enrolling
<1>2. ~Claiming(s, r)
  BY <1>1 DEF Claiming, Enrolling
<1>3. ~Turn(s, r)
  BY DEF Turn, Enrolling
<1> QED BY <1>1, <1>2, <1>3 DEF Claims, Owes

LEMMA IdleNotInvolved ==
  ASSUME NEW r
  PROVE  ~Keeping(Idle) /\ ~Claims(Idle, r) /\ ~Turn(Idle, r) /\ ~Owes(Idle, r)
BY NotInvolved DEF Idle

LEMMA MineIsId ==
  ASSUME NEW s \in Invocations, s.id \in Ids
  PROVE  Mine(s) \in Ids /\ Mine(s) # None /\ Mine(s).work = s.id.work
BY ChargeIdType, AbsentAssumption DEF Mine, ChargeId, Ids

\* A claim needs a hold.
LEMMA ClaimIsHold ==
  ASSUME NEW s, NEW r, GoodInvocation(s), Claims(s, r)
  PROVE  r # None /\ r.res # None
<1>1. s.pc # "idle"
  BY DEF Claims, Claiming, Keeping
<1> QED BY <1>1, MineIsId DEF Claims, GoodInvocation

LEMMA DebtIs ==
  /\ Debt \in {0, 1}
  /\ (\A q \in Procs : ~Owes(proc[q], file)) => Debt = 0
  /\ \A q \in Procs : Owes(proc[q], file) => Debt = 1
BY DEF Debt

\* A failure has been counted.
Counted ==
  \/ attempts' = attempts + 1 /\ interrupted' = interrupted
  \/ attempts' = attempts /\ interrupted' = interrupted + 1

\* A step of p that leaves the record alone: it claims nothing new and owes
\* nothing new that it has not counted.
Follows(p, n) ==
  /\ Keeping(n) => Claims(n, file)
  /\ Claims(n, file) => Claims(proc[p], file) /\ n.id = proc[p].id
  /\ Turn(n, file) => Turn(proc[p], file) /\ n.id = proc[p].id
  /\ n.pc \in Unanswered => n.result = None
  /\ \/ UNCHANGED <<attempts, interrupted>> /\ (Owes(n, file) => Owes(proc[p], file))
     \/ Counted

LEMMA FollowsKeeps ==
  ASSUME IInv, Alone, Covered, NEW p \in Procs, NEW n, Become(p, n), file' = file,
         Follows(p, n)
  PROVE  Alone' /\ Covered'
<1>1. proc'[p] = n /\ \A q \in Procs \ {p} : proc'[q] = proc[q]
  BY BecomeIs DEF IInv
<1>2. Alone'
  <2>1. AloneOn(n, file)
    BY DEF AloneOn, Alone, Follows
  <2>2. \A q \in Procs : AloneOn(proc'[q], file')
    BY <1>1, <2>1 DEF Alone
  <2>3. ASSUME NEW q1 \in Procs, NEW q2 \in Procs,
               Claims(proc'[q1], file'), Claims(proc'[q2], file')
        PROVE  q1 = q2
    <3>1. Claims(proc[q1], file) /\ Claims(proc[q2], file)
      BY <1>1, <2>3 DEF Follows
    <3> QED BY <3>1 DEF Alone
  <2> QED BY <2>2, <2>3 DEF Alone
<1>3. \A q \in Procs : proc'[q].pc \in Unanswered => proc'[q].result = None
  BY <1>1 DEF Covered, Follows
<1>4. file # None => file.failed + Debt' <= attempts' + interrupted'
  <2> SUFFICES ASSUME file # None PROVE file.failed + Debt' <= attempts' + interrupted'
    OBVIOUS
  <2>1. /\ file.failed \in Nat /\ attempts \in Nat /\ interrupted \in Nat
        /\ file.failed + Debt <= attempts + interrupted
    BY BudgetAssumption DEF IInv, GoodStore, GoodRecord, GoodHistory, Records, Covered
  <2>2. Debt \in {0, 1} /\ Debt' \in {0, 1}
    BY DEF Debt
  <2>3. CASE UNCHANGED <<attempts, interrupted>> /\ (Owes(n, file) => Owes(proc[p], file))
    <3>1. Debt' = 1 => Debt = 1
      BY <1>1, <2>3 DEF Debt
    <3> QED BY <2>1, <2>2, <2>3, <3>1
  <2>4. CASE Counted
    BY <2>1, <2>2, <2>4 DEF Counted
  <2> QED BY <2>3, <2>4 DEF Follows
<1> QED BY <1>2, <1>3, <1>4 DEF Covered

LEMMA OutsideFollows ==
  ASSUME NEW p \in Procs, NEW n, UNCHANGED <<attempts, interrupted>>,
         \/ n.pc \in Enrolling \cup {"idle", "pause", "unpause", "grant"}
         \/ n.pc = "reserve" /\ n.stage # "readback",
         n.pc \in Unanswered => n.result = None
  PROVE  Follows(p, n)
BY NotInvolved DEF Follows

LEMMA IdleFollows ==
  ASSUME NEW p \in Procs, UNCHANGED <<attempts, interrupted>>
  PROVE  Follows(p, Idle)
BY OutsideFollows DEF Idle, Unanswered, Enrolling

\* An invocation that goes with its hold to another place that has one.
LEMMA ClaimFollows ==
  ASSUME NEW p \in Procs, NEW n, Claims(proc[p], file),
         proc[p].pc \notin {"chargeReserve", "chargeCommit"},
         Keeping(n) \/ n.pc = "cleanup", n.id = proc[p].id,
         n.pc \in {"running", "checkpoint", "cleanup", "abort"},
         ~(n.pc = "abort" /\ n.stage = "readback"),
         n.pc = "running" => n.result = None,
         \/ UNCHANGED <<attempts, interrupted>> /\ (Charging(n) => Charging(proc[p]))
         \/ Counted
  PROVE  Follows(p, n)
<1>1. Mine(n) = Mine(proc[p])
  BY DEF Mine
<1>2. Claims(n, file)
  BY <1>1 DEF Claims, Claiming
<1>3. ~Turn(n, file)
  BY DEF Turn
<1>4. n.pc \in Unanswered => n.result = None
  BY DEF Unanswered, Enrolling
<1> QED BY <1>2, <1>3, <1>4 DEF Follows, Owes

LEMMA KeepingFollows ==
  ASSUME Alone, NEW p \in Procs, NEW n, Keeping(proc[p]),
         Keeping(n) \/ n.pc = "cleanup", n.id = proc[p].id,
         n.pc \in {"running", "checkpoint", "cleanup", "abort"},
         ~(n.pc = "abort" /\ n.stage = "readback"),
         n.pc = "running" => n.result = None,
         \/ UNCHANGED <<attempts, interrupted>> /\ (Charging(n) => Charging(proc[p]))
         \/ Counted
  PROVE  Follows(p, n)
<1>1. Claims(proc[p], file) /\ proc[p].pc \notin {"chargeReserve", "chargeCommit"}
  BY DEF Alone, AloneOn, Keeping
<1> QED BY <1>1, ClaimFollows

\* A decision on a record claims nothing yet.
LEMMA DecideOutside ==
  ASSUME NEW p \in Procs, NEW s \in Invocations, s.result = None, NEW r, Decide(p, s, r)
  PROVE  \E n :
           /\ Become(p, n)
           /\ \/ n.pc \in {"idle", "pause", "unpause", "grant"}
              \/ n.pc = "reserve" /\ n.stage # "readback"
           /\ n.pc \in Unanswered => n.result = None
<1>1. PICK n :
        /\ Become(p, n)
        /\ \/ n = Idle
           \/ n.pc = "reserve" /\ n.stage = "load" /\ n.result = s.result
           \/ n.pc \in {"pause", "unpause", "grant"}
  BY DecideIs
<1>2. Idle.pc = "idle"
  BY DEF Idle
<1> QED BY <1>1, <1>2 DEF Unanswered, Enrolling

LEMMA StartFollows ==
  ASSUME IInv, NEW p \in Procs, Start(p)
  PROVE  \E n : Become(p, n) /\ Follows(p, n)
<1>1. PICK s \in Invocations :
        /\ s.result = None
        /\ \/ Decide(p, s, file)
           \/ \E n : Become(p, n) /\ n.pc \in {"witness", "retire"} /\ n.result = None
  BY StartIs
<1>2. UNCHANGED <<attempts, interrupted>>
  BY DEF Start, history
<1>3. CASE Decide(p, s, file)
  BY <1>1, <1>2, <1>3, DecideOutside, OutsideFollows
<1>4. ASSUME NEW n, Become(p, n), n.pc \in {"witness", "retire"}, n.result = None
      PROVE  Follows(p, n)
  BY <1>2, <1>4, OutsideFollows DEF Enrolling
<1> QED BY <1>1, <1>3, <1>4

LEMMA EnrolmentFollows ==
  ASSUME IInv, Covered, NEW p \in Procs, CreateWitness(p) \/ RetireWitness(p)
  PROVE  \E n : Become(p, n) /\ Follows(p, n)
<1>1. UNCHANGED <<attempts, interrupted>> /\ proc[p].pc \in {"witness", "retire"}
  BY DEF CreateWitness, RetireWitness, history
<1>2. ASSUME NEW pc \in {"link", "unlink"}, Goto(p, pc)
      PROVE  \E n : Become(p, n) /\ Follows(p, n)
  <2>1. PICK n : Become(p, n) /\ n.pc = pc /\ n.result = proc[p].result
    BY <1>2, GotoIs
  <2>2. n.result = None /\ n.pc \in Enrolling
    BY <1>1, <2>1 DEF Covered, Unanswered, Enrolling
  <2> QED BY <1>1, <2>1, <2>2, OutsideFollows
<1>3. CASE Become(p, Idle)
  BY <1>1, <1>3, IdleFollows
<1>4. Goto(p, "link") \/ Goto(p, "unlink") \/ Become(p, Idle)
  BY DEF CreateWitness, RetireWitness, End
<1> QED BY <1>2, <1>3, <1>4

\* Giving up before the analysis, or turning to the cleanup after it: if the
\* checkpoint has been written the hold is gone.
LEMMA UnwoundFollows ==
  ASSUME IInv, Steady, Current, Alone, NEW p \in Procs, NEW n,
         NEW cause \in {"error", "interrupt"}, Unwound(p, n, cause),
         proc[p].stage \in Entering \/ ~OnlyCrashes
  PROVE  Follows(p, n)
<1>1. CASE n = Idle /\ UNCHANGED <<attempts, interrupted>>
  BY <1>1, IdleFollows
<1>2. CASE /\ proc[p].pc = "checkpoint" /\ CountFailure(p, cause)
           /\ n.pc = "cleanup" /\ n.id = proc[p].id
  <2>1. \/ UNCHANGED <<attempts, interrupted>> /\ ~proc[p].result.complete
        \/ Counted
    BY <1>2 DEF CountFailure, Counted
  <2>2. CASE proc[p].stage \in Entering
    <3>1. Keeping(proc[p])
      BY <1>2, <2>2 DEF Keeping
    <3>2. ~proc[p].result.complete => Charging(proc[p])
      BY <1>2, <2>2 DEF Charging
    <3> QED BY <1>2, <2>1, <3>1, <3>2, KeepingFollows
  <2>3. CASE proc[p].stage \notin Entering
    <3>1. proc[p].stage = "readback" /\ ~OnlyCrashes
      BY <1>2, <2>3 DEF Steady, ReplacePcs, Stages, Entering
    <3>2. file # None /\ file.res = None /\ proc[p].id \in Ids
      BY <1>2, <3>1 DEF Current, CurrentOn, InReplace, IInv, GoodProcs, GoodInvocation
    <3>3. ~Keeping(n) /\ ~Turn(n, file) /\ n.pc \notin Unanswered
      BY <1>2, <3>1 DEF Keeping, Turn, Unanswered, Enrolling
    <3>4. ~Claims(n, file)
      BY <1>2, <3>2, AbsentAssumption DEF Claims, Mine
    <3> QED BY <2>1, <3>3, <3>4 DEF Follows, Owes
  <2> QED BY <2>2, <2>3
<1> QED BY <1>1, <1>2 DEF Unwound

\* A crash leaves its hold; every other failure is cleaned up or ends what had
\* not begun.
LEMMA FaultFollows ==
  ASSUME IInv, Steady, Current, Alone, NEW p \in Procs, IOError(p) \/ Interrupt(p) \/ Crash(p)
  PROVE  \E n : Become(p, n) /\ Follows(p, n)
<1>1. CASE Crash(p)
  BY <1>1, IdleFollows DEF Crash, End
<1>2. CASE Interrupt(p) /\ proc[p].pc = "running"
  <2>1. CleanUp(p, FALSE) /\ UNCHANGED <<attempts, interrupted>>
    BY <1>2 DEF Interrupt
  <2>2. PICK n : Become(p, n) /\ n.pc = "cleanup" /\ n.id = proc[p].id /\ n.charge = FALSE
    BY <2>1, CleanUpIs
  <2>3. Keeping(proc[p]) /\ ~Charging(n)
    BY <1>2, <2>2 DEF Keeping, Charging
  <2> QED BY <2>1, <2>2, <2>3, KeepingFollows
<1>3. CASE IOError(p) \/ (Interrupt(p) /\ proc[p].pc # "running")
  <2>1. ~OnlyCrashes
    BY <1>3 DEF IOError, Interrupt, OnlyCrashes
  <2>2. PICK cause \in {"error", "interrupt"} : Unwind(p, cause)
    BY <1>3 DEF IOError, Interrupt
  <2>3. PICK n : Become(p, n) /\ Unwound(p, n, cause)
    BY <2>2, UnwindIs
  <2> QED BY <2>1, <2>3, UnwoundFollows
<1> QED BY <1>1, <1>2, <1>3

\* A step of a replace before the write.
LEMMA KnowsFollows ==
  ASSUME IInv, Alone, Covered, NEW p \in Procs, NEW n, Knows(proc[p], n),
         proc[p].stage \in Entering, n.stage \in Entering, proc[p].pc \in ReplacePcs,
         proc[p].pc = "attach" => Claims(proc[p], file),
         UNCHANGED <<attempts, interrupted>>
  PROVE  Follows(p, n)
<1>k. /\ n.pc = proc[p].pc /\ n.id = proc[p].id /\ n.gen = proc[p].gen
      /\ n.result = proc[p].result /\ n.charge = proc[p].charge /\ Mine(n) = Mine(proc[p])
  BY DEF Knows, Mine
<1>e. proc[p].stage \notin {"readback", None} /\ n.stage \notin {"readback", None}
  BY StagesAssumption DEF Entering, Stages
<1>r. n.pc \in Unanswered => n.result = None
  BY <1>k DEF Covered
<1>1. CASE n.pc \in {"checkpoint", "abort"}
  <2>1. Keeping(proc[p]) /\ Keeping(n)
    BY <1>1, <1>k DEF Keeping
  <2>2. Charging(n) => Charging(proc[p])
    BY <1>1, <1>k DEF Charging
  <2> QED BY <1>1, <1>k, <1>e, <2>1, <2>2, KeepingFollows
<1>2. CASE n.pc = "attach"
  <2>1. Claims(proc[p], file) /\ proc[p].gen \in Nat
    BY <1>2, <1>k DEF IInv, GoodProcs, Invocations
  <2>2. Keeping(n) => Claims(n, file)
    BY <1>k, <2>1 DEF Claims, Claiming
  <2>3. ~Turn(n, file) /\ ~Charging(n)
    BY <1>2 DEF Turn, Charging
  <2> QED BY <1>k, <1>r, <2>1, <2>2, <2>3 DEF Follows, Owes
<1>3. CASE n.pc = "chargeReserve"
  <2>1. ~Keeping(n) /\ ~Claims(n, file)
    BY <1>3, <1>e DEF Keeping, Claims, Claiming
  <2>2. Turn(n, file) => Turn(proc[p], file)
    BY <1>3, <1>k DEF Turn
  <2>3. Charging(proc[p])
    BY <1>3, <1>k DEF Charging
  <2> QED BY <1>k, <1>r, <2>1, <2>2, <2>3 DEF Follows, Owes
<1>4. CASE n.pc = "chargeCommit"
  <2>1. ~Keeping(n) /\ ~Turn(n, file)
    BY <1>4 DEF Keeping, Turn
  <2>2. Claims(n, file) => Claims(proc[p], file)
    BY <1>4, <1>k, <2>1 DEF Claims, Claiming
  <2>3. Charging(proc[p])
    BY <1>4, <1>k DEF Charging
  <2> QED BY <1>k, <1>r, <2>1, <2>2, <2>3 DEF Follows, Owes
<1>5. CASE n.pc \in {"reserve", "pause", "unpause", "grant"}
  BY <1>5, <1>e, <1>r, OutsideFollows
<1> QED BY <1>k, <1>1, <1>2, <1>3, <1>4, <1>5 DEF ReplacePcs

LEMMA LoadFollows ==
  ASSUME IInv, Steady, Current, Alone, Covered, NEW p \in Procs, Load(p)
  PROVE  \E n : Become(p, n) /\ Follows(p, n)
<1>1. proc[p].stage \in Entering /\ proc[p].pc \in ReplacePcs
  BY LoadIs DEF Entering
<1>2. PICK n :
        /\ Become(p, n)
        /\ \/ /\ Readable /\ Accepts(proc[p], file) /\ Knows(proc[p], n) /\ n.stage = "fence"
              /\ UNCHANGED <<attempts, interrupted>>
           \/ Unwound(p, n, "error")
  BY LoadIs
<1>3. CASE Unwound(p, n, "error")
  BY <1>1, <1>2, <1>3, UnwoundFollows
<1>4. CASE /\ Readable /\ Accepts(proc[p], file) /\ Knows(proc[p], n) /\ n.stage = "fence"
           /\ UNCHANGED <<attempts, interrupted>>
  <2>1. proc[p].pc = "attach" => Claims(proc[p], file)
    <3> SUFFICES ASSUME proc[p].pc = "attach" PROVE Claims(proc[p], file)
      OBVIOUS
    <3>1. file # None /\ file.gen = proc[p].gen /\ file.res = proc[p].id
      BY <1>4 DEF Readable, Accepts, AttachAccepts
    <3> QED BY <1>1, <3>1 DEF Claims, Claiming, Mine
  <2>2. n.stage \in Entering
    BY <1>4 DEF Entering
  <2> QED BY <1>1, <1>2, <1>4, <2>1, <2>2, KnowsFollows
<1> QED BY <1>2, <1>3, <1>4

LEMMA FenceFollows ==
  ASSUME IInv, Current, Alone, Covered, NEW p \in Procs, Fence(p)
  PROVE  \E n : Become(p, n) /\ Follows(p, n)
<1>1. proc[p].stage = "fence" /\ proc[p].pc \in ReplacePcs /\ file = proc[p].old
  BY FenceIs DEF Current, CurrentOn, InReplace
<1>2. PICK n : /\ Become(p, n) /\ Knows(proc[p], n) /\ n.stage = "write"
               /\ UNCHANGED <<attempts, interrupted>>
  BY <1>1, FenceIs
<1>3. proc[p].pc = "attach" => Claims(proc[p], file)
  BY <1>1 DEF Alone, AloneOn, Keeping
<1>4. proc[p].stage \in Entering /\ n.stage \in Entering
  BY <1>1, <1>2 DEF Entering
<1> QED BY <1>1, <1>2, <1>3, <1>4, KnowsFollows

LEMMA ReadBackFollows ==
  ASSUME IInv, Current, Alone, Covered, NEW p \in Procs, ReadBack(p)
  PROVE  \E n : Become(p, n) /\ Follows(p, n)
<1>1. proc[p].stage = "readback" /\ file # None /\ file = proc[p].new
  BY ReadBackIs DEF Current, CurrentOn, InReplace
<1>2. Proceed(p) /\ UNCHANGED <<attempts, interrupted>>
  BY <1>1, ReadBackIs
<1>3. PICK n :
        /\ Become(p, n)
        /\ \/ n = Idle
           \/ /\ n.gen = file.gen /\ n.id = proc[p].id /\ n.result = proc[p].result
              /\ n.charge = proc[p].charge
              /\ \/ proc[p].pc = "reserve" /\ n.pc = "attach" /\ n.stage = "load"
                 \/ proc[p].pc = "attach" /\ n.pc = "running" /\ n.stage = None
                 \/ /\ proc[p].pc = "abort" /\ proc[p].charge
                    /\ n.pc = "chargeReserve" /\ n.stage = "load"
                 \/ /\ proc[p].pc = "chargeReserve"
                    /\ n.pc = "chargeCommit" /\ n.stage = "load"
  BY <1>1, <1>2, ProceedIs
<1>4. CASE n = Idle
  BY <1>2, <1>3, <1>4, IdleFollows
<1>5. CASE /\ proc[p].pc = "reserve" /\ n.pc = "attach" /\ n.stage = "load"
           /\ n.id = proc[p].id /\ n.result = proc[p].result
  <2>1. ~Keeping(n) /\ ~Turn(n, file) /\ ~Charging(n)
    BY <1>5 DEF Keeping, Turn, Charging
  <2>2. Claims(n, file) => Claims(proc[p], file)
    BY <1>1, <1>5 DEF Claims, Claiming, Mine
  <2>3. n.result = None
    BY <1>5 DEF Covered, Unanswered
  <2> QED BY <1>2, <1>3, <1>5, <2>1, <2>2, <2>3 DEF Follows, Owes
<1>6. CASE /\ proc[p].pc = "attach" /\ n.pc = "running"
           /\ n.id = proc[p].id /\ n.result = proc[p].result
  <2>1. Keeping(proc[p]) /\ Keeping(n) /\ ~Charging(n)
    BY <1>1, <1>6 DEF Keeping, Charging
  <2>2. n.result = None
    BY <1>6 DEF Covered, Unanswered
  <2> QED BY <1>2, <1>3, <1>6, <2>1, <2>2, KeepingFollows
<1>7. CASE /\ proc[p].pc = "abort" /\ proc[p].charge
           /\ n.pc = "chargeReserve" /\ n.stage = "load" /\ n.id = proc[p].id
  <2>1. ~Keeping(n) /\ ~Claims(n, file)
    BY <1>7 DEF Keeping, Claims, Claiming
  <2>2. Turn(proc[p], file) /\ Charging(proc[p])
    BY <1>1, <1>7 DEF Turn, Charging
  <2>3. n.pc \notin Unanswered
    BY <1>7 DEF Unanswered, Enrolling
  <2> QED BY <1>2, <1>3, <1>7, <2>1, <2>2, <2>3 DEF Follows, Owes
<1>8. CASE /\ proc[p].pc = "chargeReserve" /\ n.pc = "chargeCommit" /\ n.stage = "load"
           /\ n.id = proc[p].id
  <2>1. ~Keeping(n) /\ ~Turn(n, file) /\ n.pc \notin Unanswered
    BY <1>8 DEF Keeping, Turn, Unanswered, Enrolling
  <2>2. Claims(n, file) => Claims(proc[p], file)
    BY <1>1, <1>8 DEF Claims, Claiming, Mine
  <2>3. Charging(proc[p])
    BY <1>8 DEF Charging
  <2> QED BY <1>2, <1>3, <1>8, <2>1, <2>2, <2>3 DEF Follows, Owes
<1> QED BY <1>3, <1>4, <1>5, <1>6, <1>7, <1>8

LEMMA AnalyseFollows ==
  ASSUME IInv, Alone, NEW p \in Procs, Analyse(p)
  PROVE  \E n : Become(p, n) /\ Follows(p, n)
<1>1. PICK result, n :
        /\ result \in Results
        /\ Become(p, n)
        /\ n.pc = "checkpoint" /\ n.stage = "load" /\ n.id = proc[p].id /\ n.result = result
        /\ attempts' = IF result.complete THEN attempts ELSE attempts + 1
  BY AnalyseIs
<1>2. proc[p].pc = "running" /\ interrupted' = interrupted
  BY AnalyseIs
<1>3. Keeping(proc[p]) /\ Keeping(n) /\ (result.complete => ~Charging(n))
  BY <1>1, <1>2 DEF Keeping, Charging, Entering
<1>4. ~result.complete => Counted
  BY <1>1, <1>2 DEF Counted
<1> QED BY <1>1, <1>2, <1>3, <1>4, KeepingFollows

LEMMA FailureFollows ==
  ASSUME IInv, Alone, Covered, NEW p \in Procs, AnalysisFails(p) \/ BaselineUnusable(p)
  PROVE  \E n : Become(p, n) /\ Follows(p, n)
<1>1. proc[p].pc = "running" /\ Keeping(proc[p])
  BY DEF AnalysisFails, BaselineUnusable, Keeping
<1>2. PICK charge \in BOOLEAN :
        /\ CleanUp(p, charge)
        /\ \/ Counted
           \/ UNCHANGED <<attempts, interrupted>> /\ charge = FALSE
  <2>1. CASE AnalysisFails(p)
    <3>1. proc[p].result = None
      BY <1>1 DEF Covered, Unanswered
    <3>2. CleanUp(p, TRUE) /\ attempts' = attempts + 1 /\ interrupted' = interrupted
      BY <2>1, <3>1 DEF AnalysisFails, CountFailure
    <3> QED BY <3>2 DEF Counted
  <2>2. CASE BaselineUnusable(p)
    BY <2>2 DEF BaselineUnusable, history
  <2> QED BY <2>1, <2>2
<1>3. PICK n : Become(p, n) /\ n.pc = "cleanup" /\ n.id = proc[p].id /\ n.charge = charge
  BY <1>2, CleanUpIs
<1>4. charge = FALSE => ~Charging(n)
  BY <1>3 DEF Charging
<1> QED BY <1>1, <1>2, <1>3, <1>4, KeepingFollows

LEMMA CleanupFollows ==
  ASSUME IInv, Alone, NEW p \in Procs, Cleanup(p)
  PROVE  \E n : Become(p, n) /\ Follows(p, n)
<1>1. UNCHANGED <<attempts, interrupted>> /\ proc[p].pc = "cleanup"
  BY CleanupIs DEF history
<1>2. PICK n :
        /\ Become(p, n)
        /\ \/ n = Idle
           \/ /\ Readable /\ Owned(p) /\ n.pc = "abort" /\ n.stage = "load"
              /\ n.id = proc[p].id /\ n.charge = proc[p].charge
  BY CleanupIs
<1>3. CASE n = Idle
  BY <1>1, <1>2, <1>3, IdleFollows
<1>4. CASE /\ Readable /\ Owned(p) /\ n.pc = "abort" /\ n.stage = "load"
           /\ n.id = proc[p].id /\ n.charge = proc[p].charge
  <2>1. Claims(proc[p], file)
    BY <1>1, <1>4 DEF Claims, Claiming, Mine, Owned, Readable
  <2>2. Keeping(n) /\ (Charging(n) => Charging(proc[p]))
    BY <1>1, <1>4 DEF Keeping, Charging, Entering
  <2> QED BY <1>1, <1>2, <1>4, <2>1, <2>2, ClaimFollows
<1> QED BY <1>2, <1>3, <1>4

\* Once the generation has moved on nobody else has a hold but one that
\* counted on it before.
LEMMA OthersAfter ==
  ASSUME OwnHolds, Settled, IInv, Current, Alone, NEW p \in Procs, MayStep(p),
         file # None, file \in Records, file' \in Records, file'.gen = file.gen + 1,
         NEW q \in Procs \ {p}
  PROVE  /\ ~Turn(proc[q], file')
         /\ Claims(proc[q], file') => Keeping(proc[q])
         /\ Keeping(proc[q]) => Claims(proc[q], file)
<1>0. OnlyCrashes
  BY DEF OwnHolds, OneWriter
<1>1. proc[q].stage \notin {"fence", "write", "readback"}
  BY OthersWait
<1>2. proc[q].gen # file'.gen
  <2>1. proc[q].gen \in Nat /\ file.gen \in Nat /\ proc[q].gen <= file.gen
    BY DEF IInv, GoodProcs, Invocations, Records, Current, CurrentOn
  <2> QED BY <2>1
<1>3. Keeping(proc[q]) => Claims(proc[q], file)
  BY DEF Alone, AloneOn
<1>4. proc[q].pc = "cleanup" => Keeping(proc[q])
  BY <1>0 DEF Keeping
<1> QED BY <1>1, <1>2, <1>3, <1>4 DEF Turn, Claims, Claiming

\* Nobody else has one after a write over a free record, or by the claimant.
LEMMA OthersFree ==
  ASSUME OwnHolds, Settled, IInv, Current, Alone, NEW p \in Procs, MayStep(p),
         file # None, file \in Records, file' \in Records, file'.gen = file.gen + 1,
         file.res = None \/ Claims(proc[p], file),
         NEW q \in Procs \ {p}
  PROVE  ~Keeping(proc[q]) /\ ~Claims(proc[q], file') /\ ~Turn(proc[q], file')
<1>1. ~Claims(proc[q], file)
  <2>1. CASE file.res = None
    BY <2>1, ClaimIsHold DEF IInv, GoodProcs
  <2>2. CASE Claims(proc[p], file)
    BY <2>2 DEF Alone
  <2> QED BY <2>1, <2>2
<1> QED BY <1>1, OthersAfter

LEMMA WhenFree ==
  ASSUME IInv, Alone, NEW p \in Procs, NEW n, Become(p, n),
         \A q \in Procs \ {p} :
           ~Keeping(proc[q]) /\ ~Claims(proc[q], file') /\ ~Turn(proc[q], file'),
         AloneOn(n, file')
  PROVE  /\ Alone'
         /\ Debt' = IF Owes(n, file') THEN 1 ELSE 0
<1>1. proc'[p] = n /\ \A q \in Procs \ {p} : proc'[q] = proc[q]
  BY BecomeIs DEF IInv
<1>2. \A q \in Procs : AloneOn(proc'[q], file')
  BY <1>1 DEF AloneOn
<1>3. \A q \in Procs : Claims(proc'[q], file') => q = p
  BY <1>1
<1>4. \A q \in Procs : Owes(proc'[q], file') => q = p
  BY <1>1 DEF Owes
<1> QED BY <1>1, <1>2, <1>3, <1>4 DEF Alone, Debt

\* The count of failures starts again with another head.
LEMMA WriteCounts ==
  ASSUME NEW p \in Procs, Write(p), file # None
  PROVE  IF file'.failedHead = file.failedHead
         THEN UNCHANGED <<attempts, interrupted>>
         ELSE attempts' = 0 /\ interrupted' = 0
BY DEF Write

\* The counts are covered after a write if they were, and are owed no more.
LEMMA CoveredAfter ==
  ASSUME IInv, Covered, NEW p \in Procs, Write(p), file # None,
         file \in Records, file' \in Records,
         \/ /\ file'.failedHead = file.failedHead
            /\ \/ file'.failed = file.failed /\ Debt' <= Debt
               \/ file'.failed <= file.failed + 1 /\ Debt = 1 /\ Debt' = 0
         \/ file'.failedHead # file.failedHead /\ file'.failed = 0 /\ Debt' = 0
  PROVE  Covered'
<1>1. PICK n : Become(p, n) /\ n.pc = proc[p].pc /\ n.result = proc[p].result
  BY WriteIs DEF Knows
<1>2. \A q \in Procs : proc'[q].pc \in Unanswered => proc'[q].result = None
  BY <1>1, BecomeIs DEF Covered, IInv
<1>3. /\ file.failed \in Nat /\ file'.failed \in Nat /\ attempts \in Nat /\ interrupted \in Nat
      /\ file.failed + Debt <= attempts + interrupted
  BY BudgetAssumption DEF IInv, GoodHistory, Records, Covered
<1>4. Debt \in {0, 1} /\ Debt' \in {0, 1}
  BY DEF Debt
<1>5. CASE file'.failedHead = file.failedHead
  BY <1>2, <1>3, <1>4, <1>5, WriteCounts DEF Covered
<1>6. CASE file'.failedHead # file.failedHead
  BY <1>2, <1>3, <1>4, <1>6, WriteCounts DEF Covered
<1> QED BY <1>5, <1>6

\* A new hold is its writer's, over a record that nobody counts on.
LEMMA OpensKeeps ==
  ASSUME OwnHolds, Settled, IInv, Current, Alone, Covered, NEW p \in Procs, Write(p),
         proc[p].pc \in {"reserve", "chargeReserve"},
         NEW slot, Opens(file, file', Mine(proc[p]), slot, proc[p].gen)
  PROVE  Alone' /\ Covered'
<1>0. /\ file # None /\ file \in Records /\ file' \in Records /\ file' # None
      /\ proc[p].id \in Ids /\ proc[p] \in Invocations /\ proc[p].stage = "write" /\ MayStep(p)
  BY WriteReplaces, WriteIs, AbsentAssumption DEF GoodRecord, GoodInvocation
<1>1. PICK n : /\ Become(p, n) /\ n.stage = "readback" /\ n.pc = proc[p].pc
               /\ n.id = proc[p].id
  BY WriteIs DEF Knows
<1>2. /\ file.res = None /\ file'.gen = file.gen + 1 /\ file'.res = Mine(n)
      /\ Mine(n).work = n.id.work /\ file'.failedHead = HeadOf[n.id.work]
      /\ file'.failed = IF file.failedHead = file'.failedHead THEN file.failed ELSE 0
      /\ file.gen = proc[p].gen
  BY <1>0, <1>1, MineIsId DEF Opens, Mine
<1>3. \A q \in Procs \ {p} :
        ~Keeping(proc[q]) /\ ~Claims(proc[q], file') /\ ~Turn(proc[q], file')
  BY <1>0, <1>2, OthersFree
<1>4. AloneOn(n, file') /\ Claims(n, file')
  <2>1. ~Keeping(n) /\ ~Turn(n, file')
    BY <1>1 DEF Keeping, Turn, Entering
  <2>2. Claims(n, file')
    BY <1>0, <1>1, <1>2 DEF Claims, Claiming
  <2> QED BY <1>2, <2>1, <2>2 DEF AloneOn
<1>5. Alone' /\ Debt' = IF Owes(n, file') THEN 1 ELSE 0
  BY <1>1, <1>3, <1>4, WhenFree
<1>6. CASE proc[p].pc = "reserve"
  <2>1. Debt' = 0
    BY <1>1, <1>5, <1>6 DEF Owes, Charging
  <2>2. Debt' <= Debt
    BY <2>1 DEF Debt
  <2>3. Covered'
    BY <1>0, <1>2, <2>1, <2>2, CoveredAfter
  <2> QED BY <1>5, <2>3
<1>7. CASE proc[p].pc = "chargeReserve"
  <2>1. Turn(proc[p], file) /\ Charging(proc[p])
    BY <1>0, <1>2, <1>7 DEF Turn, Charging, Entering
  <2>2. file.failedHead = HeadOf[proc[p].id.work] /\ Debt = 1
    BY <2>1, DebtIs DEF Alone, AloneOn, Owes
  <2>3. Debt' <= Debt
    BY <2>2 DEF Debt
  <2>4. Covered'
    BY <1>0, <1>1, <1>2, <2>2, <2>3, CoveredAfter
  <2> QED BY <1>5, <2>4
<1> QED BY <1>6, <1>7

\* A hold is ended by the one that counts on it.
LEMMA EndsKeeps ==
  ASSUME OwnHolds, Settled, IInv, Current, Alone, Covered, NEW p \in Procs, Write(p),
         \/ proc[p].pc = "checkpoint" /\ Completes(proc[p], file, file')
         \/ proc[p].pc = "abort" /\ Aborts(proc[p], file, file')
         \/ proc[p].pc = "chargeCommit" /\ Charges(proc[p], file, file')
  PROVE  Alone' /\ Covered'
<1>0. /\ file # None /\ file \in Records /\ file' \in Records /\ file' # None
      /\ proc[p].id \in Ids /\ proc[p].stage = "write" /\ MayStep(p)
  BY WriteReplaces, WriteIs, AbsentAssumption DEF GoodRecord
<1>1. PICK n : /\ Become(p, n) /\ n.stage = "readback" /\ n.pc = proc[p].pc
               /\ n.id = proc[p].id /\ n.charge = proc[p].charge
  BY WriteIs DEF Knows
<1>2. /\ file'.gen = file.gen + 1 /\ file'.res = None /\ file'.failedHead = file.failedHead
  BY DEF Completes, Aborts, Charges, SameBudget
<1>3. Claims(proc[p], file)
  BY <1>0 DEF Claims, Claiming, Keeping, Mine, Entering, Completes, Aborts, Charges
<1>4. \A q \in Procs \ {p} :
        ~Keeping(proc[q]) /\ ~Claims(proc[q], file') /\ ~Turn(proc[q], file')
  BY <1>0, <1>2, <1>3, OthersFree
<1>5. ~Keeping(n) /\ ~Claims(n, file')
  BY <1>1 DEF Keeping, Claims, Claiming, Entering
<1>6. AloneOn(n, file')
  <2>1. ASSUME Turn(n, file')
        PROVE  file'.res = None /\ file'.tx = None /\ file'.failedHead = HeadOf[n.id.work]
    <3>1. proc[p].pc = "abort" /\ Aborts(proc[p], file, file')
      BY <1>1, <2>1 DEF Turn
    <3>2. file.failedHead = HeadOf[proc[p].id.work]
      BY <1>3 DEF Alone, AloneOn
    <3> QED BY <1>1, <1>2, <3>1, <3>2 DEF Aborts
  <2> QED BY <1>5, <2>1 DEF AloneOn
<1>7. Alone' /\ Debt' = IF Owes(n, file') THEN 1 ELSE 0
  BY <1>1, <1>4, <1>6, WhenFree
<1>8. Charging(proc[p]) => Debt = 1
  BY <1>3, DebtIs DEF Owes
<1>9. Covered'
  <2>1. CASE proc[p].pc = "checkpoint"
    <3>1. Debt' = 0 /\ Debt \in {0, 1} /\ Debt' <= Debt
      BY <1>1, <1>5, <1>7, <2>1 DEF Owes, Turn, Debt
    <3>2. CASE proc[p].result.complete
      <4>1. file'.failed = file.failed
        BY <2>1, <3>2 DEF Completes
      <4> QED BY <1>0, <1>2, <3>1, <4>1, CoveredAfter
    <3>3. CASE ~proc[p].result.complete
      <4>1. file'.failed <= file.failed + 1
        BY <2>1, <3>3 DEF Completes
      <4>2. Debt = 1
        BY <1>0, <1>8, <2>1, <3>3 DEF Charging, Entering
      <4> QED BY <1>0, <1>2, <3>1, <4>1, <4>2, CoveredAfter
    <3> QED BY <3>2, <3>3
  <2>2. CASE proc[p].pc = "abort"
    <3>1. file'.failed = file.failed
      BY <2>2 DEF Aborts, SameBudget
    <3>2. Debt' <= Debt
      <4>1. Charging(n) => Charging(proc[p])
        BY <1>1, <2>2 DEF Charging
      <4>2. Debt' = 1 => Debt = 1
        BY <1>7, <1>8, <4>1 DEF Owes
      <4> QED BY <4>2 DEF Debt
    <3> QED BY <1>0, <1>2, <3>1, <3>2, CoveredAfter
  <2>3. CASE proc[p].pc = "chargeCommit"
    <3>1. Debt' = 0
      BY <1>1, <1>5, <1>7, <2>3 DEF Owes, Turn
    <3>2. file'.failed <= file.failed + 1
      BY <2>3 DEF Charges
    <3>3. Debt = 1
      BY <1>0, <1>8, <2>3 DEF Charging, Entering
    <3> QED BY <1>0, <1>2, <3>1, <3>2, <3>3, CoveredAfter
  <2> QED BY <2>1, <2>2, <2>3
<1> QED BY <1>7, <1>9

\* Commands and the attached transaction leave the hold where it is.
LEMMA LeavesKeeps ==
  ASSUME OwnHolds, Settled, IInv, Current, Alone, Covered, NEW p \in Procs, Write(p),
         \/ proc[p].pc = "attach" /\ Attaches(proc[p], file, file')
         \/ proc[p].pc \in {"pause", "unpause", "grant"} /\ Commanded(file, file')
  PROVE  Alone' /\ Covered'
<1>0. /\ file # None /\ file \in Records /\ file' \in Records /\ file' # None
      /\ proc[p].id \in Ids /\ proc[p].stage = "write" /\ MayStep(p)
  BY WriteReplaces, WriteIs, AbsentAssumption DEF GoodRecord
<1>1. PICK n : /\ Become(p, n) /\ n.stage = "readback" /\ n.pc = proc[p].pc
               /\ n.id = proc[p].id
  BY WriteIs DEF Knows
<1>2. /\ file'.res = file.res /\ file'.failedHead = file.failedHead
      /\ file'.failed = file.failed
  BY DEF Attaches, Commanded, SameBudget
<1>p. proc'[p] = n /\ \A q \in Procs \ {p} : proc'[q] = proc[q]
  BY <1>1, BecomeIs DEF IInv
<1>n. ~Turn(n, file') /\ ~Charging(n)
  BY <1>1 DEF Turn, Charging
<1>c. /\ Claims(n, file') => Claims(proc[p], file)
      /\ Keeping(n) => Claims(n, file')
      /\ Claims(n, file') => file'.failedHead = HeadOf[n.id.work]
  <2>1. CASE proc[p].pc = "attach"
    <3>1. Keeping(proc[p]) /\ Keeping(n)
      BY <1>0, <1>1, <2>1 DEF Keeping
    <3>2. Claims(proc[p], file) /\ file.failedHead = HeadOf[proc[p].id.work]
      BY <3>1 DEF Alone, AloneOn
    <3>3. Claims(n, file')
      BY <1>0, <1>1, <1>2, <2>1, <3>1, <3>2 DEF Claims, Claiming, Mine
    <3> QED BY <1>1, <1>2, <3>2, <3>3
  <2>2. CASE proc[p].pc \in {"pause", "unpause", "grant"}
    BY <1>1, <2>2, NotInvolved
  <2> QED BY <2>1, <2>2
<1>q. ASSUME NEW q \in Procs \ {p}
      PROVE  /\ ~Turn(proc[q], file')
             /\ Claims(proc[q], file') => Claims(proc[q], file)
             /\ Keeping(proc[q]) => Claims(proc[q], file')
  <2>k. Keeping(proc[q]) => Claims(proc[q], file)
    BY DEF Alone, AloneOn
  <2>c. Keeping(proc[q]) => Claims(proc[q], file')
    BY <1>0, <1>2, <2>k DEF Claims, Claiming
  <2>1. CASE proc[p].pc = "attach" /\ Attaches(proc[p], file, file')
    <3>1. file'.gen = file.gen /\ file.res # None
      BY <1>0, <2>1, AbsentAssumption DEF Attaches
    <3>2. Turn(proc[q], file') => Turn(proc[q], file)
      BY <1>0, <3>1 DEF Turn
    <3>3. ~Turn(proc[q], file)
      BY <3>1 DEF Alone, AloneOn
    <3>4. Claims(proc[q], file') => Claims(proc[q], file)
      BY <1>0, <1>2, <3>1 DEF Claims, Claiming
    <3> QED BY <2>c, <3>2, <3>3, <3>4
  <2>2. CASE Commanded(file, file')
    <3>1. file'.gen = file.gen + 1
      BY <2>2 DEF Commanded
    <3> QED BY <1>0, <2>c, <3>1, OthersAfter
  <2> QED BY <2>1, <2>2
<1>3. Alone'
  <2>1. AloneOn(n, file')
    BY <1>n, <1>c DEF AloneOn
  <2>2. ASSUME NEW q \in Procs \ {p} PROVE AloneOn(proc[q], file')
    <3>1. Claims(proc[q], file) => file.failedHead = HeadOf[proc[q].id.work]
      BY DEF Alone, AloneOn
    <3> QED BY <1>2, <1>q, <3>1 DEF AloneOn
  <2>3. \A q \in Procs : AloneOn(proc'[q], file')
    BY <1>p, <2>1, <2>2
  <2>4. \A q \in Procs : Claims(proc'[q], file') => Claims(proc[q], file)
    BY <1>p, <1>c, <1>q
  <2> QED BY <2>3, <2>4 DEF Alone
<1>4. Covered'
  <2>1. \A q \in Procs : Owes(proc'[q], file') => Owes(proc[q], file)
    BY <1>p, <1>n, <1>q DEF Owes
  <2>2. Debt' <= Debt
    BY <2>1 DEF Debt
  <2> QED BY <1>0, <1>2, <2>2, CoveredAfter
<1> QED BY <1>3, <1>4

\* A reservation that changes nothing finds its id committed, not held.
LEMMA NothingOpened ==
  ASSUME IInv, Current, Alone, NEW p \in Procs, Write(p), file' = file,
         proc[p].pc \in {"reserve", "chargeReserve"}
  PROVE  file.res # Mine(proc[p])
<1>0. /\ file # None /\ GoodRecord(file) /\ proc[p].id \in Ids
      /\ GoodInvocation(proc[p]) /\ proc[p].stage = "write" /\ Accepts(proc[p], file)
  BY WriteReplaces
<1>1. ASSUME NEW slot, ReserveAccepts(file, Mine(proc[p]), slot, proc[p].gen),
             file.res = Mine(proc[p])
      PROVE  file.gen = proc[p].gen /\ file.res # None
  <2>1. Mine(proc[p]) # None
    BY <1>0, MineIsId DEF GoodInvocation
  <2> QED BY <1>0, <1>1, <2>1 DEF ReserveAccepts, GoodRecord, WellFormed
<1>2. CASE proc[p].pc = "reserve"
  <2>1. ReserveAccepts(file, Mine(proc[p]), proc[p].slot, proc[p].gen)
    BY <1>0, <1>2 DEF Accepts, Mine
  <2>2. Standing(proc[p], file)
    BY <1>0, <1>2 DEF Current, CurrentOn, Entering
  <2>3. file.gen = proc[p].gen => ~(file.gen > proc[p].gen)
    BY <1>0 DEF GoodInvocation, Invocations
  <2> QED BY <1>0, <1>1, <2>1, <2>2, <2>3 DEF Standing, Admits
<1>3. CASE proc[p].pc = "chargeReserve"
  <2>1. ReserveAccepts(file, Mine(proc[p]), "failed-attempt", proc[p].gen)
    BY <1>0, <1>3 DEF Accepts, Mine
  <2>2. file.gen = proc[p].gen => file.res = None
    BY <1>0, <1>3 DEF Alone, AloneOn, Turn, Entering
  <2> QED BY <1>1, <2>1, <2>2
<1> QED BY <1>2, <1>3

\* A replace that changes nothing: what it was to do has been done already.
LEMMA SameFollows ==
  ASSUME OwnHolds, Settled, IInv, Current, Alone, Covered, NEW p \in Procs, Write(p), file' = file
  PROVE  Alone' /\ Covered'
<1>0. /\ file # None /\ GoodRecord(file) /\ file = file' /\ proc[p].id \in Ids
      /\ GoodInvocation(proc[p]) /\ proc[p].pc \in ReplacePcs
      /\ proc[p].stage = "write" /\ Accepts(proc[p], file)
  BY WriteReplaces
<1>1. PICK n : /\ Become(p, n) /\ Knows(proc[p], n) /\ n.stage = "readback"
  BY WriteIs
<1>k. /\ n.pc = proc[p].pc /\ n.id = proc[p].id /\ n.result = proc[p].result
      /\ n.charge = proc[p].charge /\ Mine(n) = Mine(proc[p])
  BY <1>1 DEF Knows, Mine
<1>2. UNCHANGED <<attempts, interrupted>>
  BY <1>0, WriteCounts
<1>r. n.pc \in Unanswered => n.result = None
  BY <1>k DEF Covered
<1>3. Follows(p, n)
  <2>1. CASE n.pc \in {"reserve", "chargeReserve"}
    <3>1. file.res # Mine(proc[p])
      BY <1>k, <2>1, NothingOpened
    <3>2. ~Claims(n, file)
      BY <1>k, <3>1 DEF Claims
    <3>3. ~Keeping(n) /\ ~Turn(n, file)
      BY <1>1, <2>1 DEF Keeping, Turn, Entering
    <3> QED BY <1>2, <1>r, <3>2, <3>3 DEF Follows, Owes
  <2>2. CASE n.pc = "attach"
    <3>1. Claims(proc[p], file)
      BY <1>0, <1>k, <2>2 DEF Alone, AloneOn, Keeping
    <3>2. Keeping(n) /\ ~Turn(n, file) /\ ~Charging(n)
      BY <1>1, <2>2 DEF Keeping, Turn, Charging
    <3>3. Claims(n, file)
      BY <1>k, <3>1, <3>2 DEF Claims, Claiming
    <3> QED BY <1>k, <1>2, <1>r, <3>1, <3>2, <3>3 DEF Follows, Owes
  <2>3. CASE n.pc = "abort"
    \* A claimant's abort ends its hold.
    <3>1. file.res = proc[p].id /\ file.res # None
      <4>1. Claims(proc[p], file)
        BY <1>0, <1>k, <2>3 DEF Alone, AloneOn, Keeping, Entering
      <4> QED BY <1>0, <1>k, <2>3, <4>1, ClaimIsHold DEF Claims, Mine
    <3>2. Outcome(proc[p], file) = Aborted(file) /\ file' = Outcome(proc[p], file)
      <4>1. file' = Outcome(proc[p], file)
        BY <1>0, WriteIs DEF Current, CurrentOn, InReplace
      <4> QED BY <1>k, <2>3, <4>1 DEF Outcome
    <3>3. file'.res = None
      BY <1>0, <3>1, <3>2, AbortedIs DEF GoodRecord
    <3> QED BY <1>0, <3>1, <3>3
  <2>4. CASE n.pc \in {"checkpoint", "chargeCommit"}
    <3>1. ~Keeping(n) /\ ~Claims(n, file) /\ ~Turn(n, file)
      BY <1>1, <2>4 DEF Keeping, Claims, Claiming, Turn, Entering
    <3> QED BY <1>2, <1>r, <3>1 DEF Follows, Owes
  <2>5. CASE n.pc \in {"pause", "unpause", "grant"}
    BY <1>2, <1>r, <2>5, OutsideFollows
  <2> QED BY <1>0, <1>k, <2>1, <2>2, <2>3, <2>4, <2>5 DEF ReplacePcs
<1> QED BY <1>1, <1>3, FollowsKeeps

LEMMA WriteKeeps ==
  ASSUME OwnHolds, Settled, IInv, Current, Alone, Covered, NEW p \in Procs, Write(p)
  PROVE  Alone' /\ Covered'
<1>1. CASE file' = file
  BY <1>1, SameFollows
<1>2. CASE file' # file
  <2>1. Changed(proc[p], file, file')
    BY <1>2, WriteReplaces
  <2>2. CASE \/ proc[p].pc = "reserve" /\ Opens(file, file', proc[p].id, proc[p].slot, proc[p].gen)
             \/ /\ proc[p].pc = "chargeReserve"
                /\ Opens(file, file', ChargeId(proc[p].id), "failed-attempt", proc[p].gen)
    <3>1. \E slot : Opens(file, file', Mine(proc[p]), slot, proc[p].gen)
      BY <2>2 DEF Mine
    <3> QED BY <2>2, <3>1, OpensKeeps
  <2> QED BY <2>1, <2>2, EndsKeeps, LeavesKeeps DEF Changed
<1> QED BY <1>1, <1>2

LEMMA AloneInit == Init => Alone /\ Covered
<1> SUFFICES ASSUME Init PROVE Alone /\ Covered
  OBVIOUS
<1>1. \A p \in Procs : proc[p] = Idle
  BY DEF Init
<1>2. Alone
  BY <1>1, IdleNotInvolved DEF Alone, AloneOn
<1>3. Covered
  BY <1>1 DEF Init, Covered, Idle, Unanswered
<1> QED BY <1>2, <1>3

LEMMA AloneNext ==
  ASSUME OwnHolds, IInv, Enrolment, Steady, Settled, Current, Alone, Covered, [Next]_vars
  PROVE  Alone' /\ Covered'
<1>1. ASSUME NEW p \in Procs, Start(p) PROVE Alone' /\ Covered'
  <2>1. file' = file
    BY <1>1 DEF Start, ledger
  <2> QED BY <1>1, <2>1, StartFollows, FollowsKeeps
<1>2. ASSUME NEW p \in Procs, CreateWitness(p) \/ RetireWitness(p) PROVE Alone' /\ Covered'
  <2>1. file' = file
    BY <1>2 DEF CreateWitness, RetireWitness
  <2> QED BY <1>2, <2>1, EnrolmentFollows, FollowsKeeps
<1>e. ASSUME \A q \in Procs : \/ proc'[q].pc \in Enrolling \cup {"idle", "pause", "unpause", "grant"}
                              \/ proc'[q].pc = "reserve" /\ proc'[q].stage # "readback",
             \A q \in Procs : proc'[q].pc \in Unanswered => proc'[q].result = None,
             file' # None => file'.failed = 0 /\ attempts' = 0 /\ interrupted' = 0
      PROVE  Alone' /\ Covered'
  <2>1. ASSUME NEW q \in Procs
        PROVE  /\ ~Keeping(proc'[q]) /\ ~Claims(proc'[q], file') /\ ~Turn(proc'[q], file')
               /\ ~Owes(proc'[q], file')
    BY <1>e, NotInvolved
  <2>2. Debt' = 0
    BY <2>1 DEF Debt
  <2>3. Alone'
    BY <2>1 DEF Alone, AloneOn
  <2> QED BY <1>e, <2>2, <2>3 DEF Covered
<1>3. ASSUME NEW p \in Procs, LinkRecord(p) PROVE Alone' /\ Covered'
  <2> DEFINE r == Fresh(enrolled + 1)
  <2>f. CASE file # None
    <3>1. /\ file' = file /\ Become(p, Idle) /\ UNCHANGED <<attempts, interrupted>>
      BY <1>3, <2>f DEF LinkRecord, End
    <3> QED BY <3>1, IdleFollows, FollowsKeeps
  <2> SUFFICES ASSUME file = None PROVE Alone' /\ Covered'
    BY <2>f
  <2>0. \A q \in Procs : proc[q].pc \in Enrolling \cup {"idle"}
    BY <1>3, NobodyReads DEF LinkRecord
  <2>1. /\ file' = r /\ attempts' = 0 /\ interrupted' = 0
        /\ Decide(p, proc[p], r) \/ Become(p, Idle)
    BY <1>3 DEF LinkRecord, End
  <2>2. r.failed = 0
    BY DEF Fresh
  <2> HIDE DEF r
  <2>3. proc[p] \in Invocations /\ proc[p].result = None
    BY <1>3 DEF IInv, GoodProcs, LinkRecord, Covered, Unanswered, Enrolling
  <2>4. PICK n :
          /\ Become(p, n)
          /\ \/ n.pc \in {"idle", "pause", "unpause", "grant"}
             \/ n.pc = "reserve" /\ n.stage # "readback"
          /\ n.pc \in Unanswered => n.result = None
    <3>1. Idle.pc = "idle"
      BY DEF Idle
    <3> QED BY <2>1, <2>3, <3>1, DecideOutside DEF Unanswered, Enrolling
  <2>5. proc'[p] = n /\ \A q \in Procs \ {p} : proc'[q] = proc[q]
    BY <2>4, BecomeIs DEF IInv
  <2>6. \A q \in Procs : \/ proc'[q].pc \in Enrolling \cup {"idle", "pause", "unpause", "grant"}
                         \/ proc'[q].pc = "reserve" /\ proc'[q].stage # "readback"
    BY <2>0, <2>4, <2>5
  <2>7. \A q \in Procs : proc'[q].pc \in Unanswered => proc'[q].result = None
    BY <2>4, <2>5 DEF Covered
  <2> QED BY <1>e, <2>1, <2>2, <2>6, <2>7
<1>4. ASSUME NEW p \in Procs, UnlinkRecord(p) PROVE Alone' /\ Covered'
  <2>0. \A q \in Procs : proc[q].pc \in Enrolling \cup {"idle"}
    BY <1>4, NobodyReads DEF UnlinkRecord
  <2>1. file' = None /\ Goto(p, "witness") /\ proc[p].pc = "unlink"
    BY <1>4 DEF UnlinkRecord
  <2>2. PICK n : Become(p, n) /\ n.pc = "witness" /\ n.result = proc[p].result
    BY <2>1, GotoIs
  <2>3. proc'[p] = n /\ \A q \in Procs \ {p} : proc'[q] = proc[q]
    BY <2>2, BecomeIs DEF IInv
  <2>4. proc[p].result = None
    BY <2>1 DEF Covered, Unanswered, Enrolling
  <2>5. \A q \in Procs : proc'[q].pc \in Enrolling \cup {"idle"}
    BY <2>0, <2>2, <2>3 DEF Enrolling
  <2>6. \A q \in Procs : proc'[q].pc \in Unanswered => proc'[q].result = None
    BY <2>2, <2>3, <2>4 DEF Covered
  <2> QED BY <1>e, <2>1, <2>5, <2>6
<1>5. ASSUME NEW p \in Procs, Write(p) PROVE Alone' /\ Covered'
  BY <1>5, WriteKeeps
<1>6. ASSUME NEW p \in Procs,
             \/ Load(p) \/ Fence(p) \/ ReadBack(p) \/ Analyse(p) \/ AnalysisFails(p)
             \/ BaselineUnusable(p) \/ Cleanup(p)
      PROVE  Alone' /\ Covered'
  <2>1. file' = file
    BY <1>6 DEF Load, Fence, ReadBack, Analyse, AnalysisFails, BaselineUnusable, Cleanup, ledger
  <2>2. \E n : Become(p, n) /\ Follows(p, n)
    BY <1>6, LoadFollows, FenceFollows, ReadBackFollows, AnalyseFollows, FailureFollows,
       CleanupFollows
  <2> QED BY <2>1, <2>2, FollowsKeeps
<1>7. ASSUME NEW p \in Procs, IOError(p) \/ Interrupt(p) \/ Crash(p) PROVE Alone' /\ Covered'
  <2>1. file' = file
    BY <1>7, FaultIs DEF ledger
  <2> QED BY <1>7, <2>1, FaultFollows, FollowsKeeps
<1>8. CASE Delete
  <2>1. file' = None /\ proc' = proc /\ \A q \in Procs : proc[q].pc = "idle"
    BY <1>8 DEF Delete
  <2>2. Alone'
    BY <2>1, NotInvolved DEF Alone, AloneOn
  <2>3. Covered'
    BY <2>1 DEF Covered
  <2> QED BY <2>2, <2>3
<1>9. CASE Expire \/ UNCHANGED vars
  <2>1. UNCHANGED <<file, proc, attempts, interrupted>>
    BY <1>9 DEF Expire, vars, ledger, history
  <2>2. Debt' = Debt
    BY <2>1 DEF Debt
  <2> QED BY <2>1, <2>2 DEF Alone, Covered
<1> QED BY <1>1, <1>2, <1>3, <1>4, <1>5, <1>6, <1>7, <1>8, <1>9 DEF Next

LEMMA Aloneness ==
  ASSUME OwnHolds
  PROVE  Spec => [](Settled /\ Current /\ Alone /\ Covered)
<1>1. OneRecord
  BY DEF OwnHolds, OneRecord
<1>2. Spec => [](Settled /\ Current)
  BY <1>1, Currency
<1>3. Init => Alone /\ Covered
  BY AloneInit
<1>4. IInv /\ Enrolment /\ Steady /\ Settled /\ Current /\ Alone /\ Covered /\ [Next]_vars
        => Alone' /\ Covered'
  BY AloneNext
<1> QED BY <1>2, <1>3, <1>4, Freshness, PTL DEF Spec

\* The hold is compared, with its generation, before every step of the session
\* that relies on it, and a command does not touch it: two invocations never
\* pay for an analysis at the same time, whichever of them dies.
THEOREM OneAnalysis ==
  ASSUME OwnHolds
  PROVE  Spec => []OneAnalysisAtATime
<1>1. Alone => OneAnalysisAtATime
  BY DEF Alone, AloneOn, Keeping, OneAnalysisAtATime
<1> QED BY <1>1, Aloneness, PTL

\* Every failed or partial analysis has been counted before its hold is
\* exchanged for a failed-attempt slot, and a dead invocation's hold is never
\* charged by another.
THEOREM ChargedOnce ==
  ASSUME OwnHolds
  PROVE  Spec => []NeverOvercharged
<1>1. IInv /\ Covered => NeverOvercharged
  <2> SUFFICES ASSUME IInv, Covered, file # None PROVE file.failed <= attempts + interrupted
    BY DEF NeverOvercharged
  <2>1. /\ file.failed \in Nat /\ attempts \in Nat /\ interrupted \in Nat
        /\ file.failed + Debt <= attempts + interrupted
    BY BudgetAssumption DEF IInv, GoodStore, GoodRecord, GoodHistory, Records, Covered
  <2>2. Debt \in {0, 1}
    BY DEF Debt
  <2> QED BY <2>1, <2>2
<1> QED BY <1>1, Freshness, Aloneness, PTL

\* A reservation drops a settled transaction, but only that of an admitted
\* round, whose id is another one; a cleanup gives back a hold, and a charge is
\* reserved over the empty record its own abort has left.
THEOREM CheckpointStays ==
  ASSUME OwnHolds
  PROVE  Spec => CheckpointSurvives
<1> DEFINE Awaiting == file # None /\ file' # None /\ file.born = file'.born /\ Publishable(file)
           Kept == \/ file'.tx = file.tx
                   \/ file'.res # None /\ file'.slot # "failed-attempt" /\ file'.res # file.tx.id
<1>1. ASSUME IInv, Backed, Current, Alone, Next, Awaiting PROVE Kept
  <2>1. CASE file' = file
    BY <2>1
  <2>2. ASSUME NEW p \in Procs, Write(p), file' # file PROVE Kept
    <3>1. /\ GoodRecord(file) /\ proc[p].pc \in ReplacePcs /\ proc[p].stage = "write"
          /\ proc[p].id \in Ids /\ Changed(proc[p], file, file')
      BY <1>1, <2>2, WriteReplaces
    <3>2. /\ file.res = None /\ file.last = file.tx.id /\ file.tx # None
          /\ ChargeId(proc[p].id) \in Ids
      BY <1>1, <3>1, ChargeIdType DEF Publishable, GoodRecord, WellFormed
    <3>3. CASE proc[p].pc = "reserve" /\ Opens(file, file', proc[p].id, proc[p].slot, proc[p].gen)
      <4>1. proc[p].slot # "failed-attempt"
        BY <1>1, <3>3 DEF Backed, BackedInvocation
      <4> QED BY <3>1, <3>2, <3>3, <4>1, AbsentAssumption DEF Opens
    <3>4. CASE /\ proc[p].pc = "chargeReserve"
               /\ Opens(file, file', ChargeId(proc[p].id), "failed-attempt", proc[p].gen)
      <4>1. Turn(proc[p], file)
        BY <1>1, <3>1, <3>4 DEF Turn, Opens, Entering
      <4> QED BY <1>1, <3>2, <4>1 DEF Alone, AloneOn
    <3>5. CASE Commanded(file, file')
      BY <3>5 DEF Commanded
    <3> QED
      BY <1>1, <3>1, <3>2, <3>3, <3>4, <3>5, AbsentAssumption
         DEF Changed, Attaches, Completes, Aborts, Charges
  <2> QED BY <1>1, <2>1, <2>2, FileChanges
<1>2. IInv /\ Backed /\ Current /\ Alone /\ [Next]_vars => [Awaiting => Kept]_vars
  BY <1>1
<1>3. Spec => [][Awaiting => Kept]_vars
  BY <1>2, Freshness, Aloneness, PTL DEF Spec
<1> QED BY <1>3 DEF CheckpointSurvives

-----------------------------------------------------------------------------
(* The hold in hand, with one writer                                       *)

\* The replace of an invocation that has the hold is not refused.
LEMMA ReadyAccepts ==
  ASSUME NEW s, GoodInvocation(s), s.stage = "load", NEW r, GoodRecord(r),
         Claims(s, r), ReadyOn(s, r)
  PROVE  Accepts(s, r)
<1>1. /\ s.pc \in {"attach", "checkpoint", "abort", "chargeCommit"} /\ s.stage \in Entering
      /\ s.pc \in {"attach", "chargeCommit"} => s.gen = r.gen
  BY DEF GoodInvocation, ReplacePcs, Stages, Entering, Claims, Claiming, Keeping
<1>2. s.pc # "chargeCommit" => r.res = s.id
  BY <1>1 DEF Claims, Mine
<1>3. r.res # None /\ WellFormed(r)
  BY ClaimIsHold DEF GoodRecord
<1>4. CASE s.pc = "attach"
  BY <1>1, <1>2, <1>3, <1>4 DEF Accepts, AttachAccepts, WellFormed
<1>5. CASE s.pc = "checkpoint"
  BY <1>1, <1>2, <1>3, <1>5 DEF Accepts, CheckpointAccepts, WellFormed, ReadyOn, Analysing
<1>6. CASE s.pc = "abort"
  BY <1>1, <1>2, <1>6 DEF Accepts, AbortAccepts, ReadyOn
<1>7. CASE s.pc = "chargeCommit"
  BY <1>1, <1>7 DEF Accepts, CommitAccepts, ReadyOn, Claims, Mine
<1> QED BY <1>1, <1>4, <1>5, <1>6, <1>7

\* What the one invocation does is all that happens.
LEMMA InHandAfter ==
  ASSUME OneWriter, IInv, NEW p \in Procs, NEW n, Become(p, n),
         Claims(n, file') => ReadyOn(n, file'),
         Held' /\ ~expired' /\ ~leaked' => holder' = p /\ Claims(n, file')
  PROVE  InHand'
<1>1. \A q \in Procs : proc'[q] = n
  BY BecomeIs DEF OneWriter, IInv
<1> QED BY <1>1 DEF InHand

\* A step that leaves the record alone keeps the hold in hand, unless it owns
\* up to leaving it behind.
LEMMA HandStays ==
  ASSUME OneWriter, IInv, InHand, NEW p \in Procs, NEW n, Become(p, n),
         UNCHANGED <<file, expired, holder>>, leaked => leaked',
         Claims(n, file) => ReadyOn(n, file),
         Claims(proc[p], file) => Claims(n, file) \/ expired \/ leaked'
  PROVE  InHand'
<1>1. ASSUME Held', ~expired', ~leaked' PROVE holder' = p /\ Claims(n, file')
  <2>1. Held /\ ~expired /\ ~leaked
    BY <1>1 DEF Held
  <2>2. holder = p /\ Claims(proc[p], file)
    BY <2>1 DEF InHand, OneWriter
  <2> QED BY <1>1, <2>2
<1> QED BY <1>1, InHandAfter

LEMMA IdleHand ==
  ASSUME OneWriter, IInv, InHand, NEW p \in Procs, Become(p, Idle),
         UNCHANGED <<file, expired, holder>>, leaked => leaked',
         Claims(proc[p], file) => expired \/ leaked'
  PROVE  InHand'
BY IdleNotInvolved, HandStays

\* Outside of its rounds an invocation has no hold and takes none.
LEMMA OutsideHand ==
  ASSUME OneWriter, IInv, InHand, NEW p \in Procs, NEW n, Become(p, n),
         UNCHANGED <<file, expired, holder, leaked>>,
         proc[p].pc \in Enrolling \cup {"idle"},
         \/ n.pc \in Enrolling \cup {"idle", "pause", "unpause", "grant"}
         \/ n.pc = "reserve" /\ n.stage # "readback"
  PROVE  InHand'
<1>1. ~Claims(proc[p], file) /\ ~Claims(n, file)
  BY NotInvolved
<1> QED BY <1>1, HandStays

LEMMA EnrolmentHand ==
  ASSUME OneWriter, IInv, Covered, InHand, NEW p \in Procs,
         \/ Start(p) \/ CreateWitness(p) \/ RetireWitness(p)
         \/ LinkRecord(p) /\ file # None
  PROVE  InHand'
<1>1. UNCHANGED <<file, expired, holder, leaked>> /\ proc[p].pc \in Enrolling \cup {"idle"}
  BY DEF Start, CreateWitness, RetireWitness, LinkRecord, ledger, history, Enrolling
<1>2. PICK n : /\ Become(p, n)
               /\ \/ n.pc \in Enrolling \cup {"idle", "pause", "unpause", "grant"}
                  \/ n.pc = "reserve" /\ n.stage # "readback"
  <2>i. Idle.pc = "idle"
    BY DEF Idle
  <2>1. CASE Start(p)
    <3>1. PICK s \in Invocations :
            /\ s.result = None
            /\ \/ Decide(p, s, file)
               \/ \E n : Become(p, n) /\ n.pc \in {"witness", "retire"}
      BY <2>1, StartIs
    <3> QED BY <3>1, DecideOutside DEF Enrolling
  <2>2. CASE CreateWitness(p) \/ RetireWitness(p)
    <3>1. Goto(p, "link") \/ Goto(p, "unlink") \/ Become(p, Idle)
      BY <2>2 DEF CreateWitness, RetireWitness, End
    <3> QED BY <2>i, <3>1, GotoIs DEF Enrolling
  <2>3. CASE LinkRecord(p) /\ file # None
    BY <2>i, <2>3 DEF LinkRecord, End
  <2> QED BY <2>1, <2>2, <2>3
<1> QED BY <1>1, <1>2, OutsideHand

\* A new record, or none, has no hold.
LEMMA NewRecordHand ==
  ASSUME OneWriter, IInv, InHand, NEW p \in Procs,
         (LinkRecord(p) /\ file = None) \/ UnlinkRecord(p)
  PROVE  InHand'
<1>1. file' = None \/ file'.res = None
  BY DEF LinkRecord, UnlinkRecord, Fresh
<1>2. PICK n : Become(p, n) /\ ~Claims(n, file')
  <2>1. CASE file' = None
    <3>1. \E n : Become(p, n)
      BY DEF Become, UnlinkRecord, Goto, LinkRecord, Fresh, End, Decide, DecideReview, DecideCommand
    <3> QED BY <2>1, <3>1 DEF Claims
  <2>2. CASE LinkRecord(p) /\ file = None
    <3>1. Decide(p, proc[p], Fresh(enrolled + 1)) \/ Become(p, Idle)
      BY <2>2 DEF LinkRecord, End
    <3>2. PICK n : /\ Become(p, n)
                   /\ n.pc \in {"idle", "reserve", "pause", "unpause", "grant"}
                   /\ n.pc = "reserve" => n.stage = "load"
      BY <3>1, DecideIs DEF IInv, GoodProcs, Idle
    <3>3. ~Claims(n, file')
      BY <3>2, NotInvolved
    <3> QED BY <3>2, <3>3
  <2>3. CASE UnlinkRecord(p)
    BY <2>1, <2>3 DEF UnlinkRecord
  <2> QED BY <2>2, <2>3
<1>3. ~Held'
  BY <1>1 DEF Held
<1> QED BY <1>2, <1>3, InHandAfter

\* A step of a replace before the write.
LEMMA KnowsHand ==
  ASSUME OneWriter, IInv, InHand, NEW p \in Procs, NEW n, Become(p, n), Knows(proc[p], n),
         proc[p].stage \in Entering, n.stage \in {"fence", "write"},
         UNCHANGED <<file, expired, holder, leaked>>,
         proc[p].pc = "attach" => Claims(proc[p], file)
  PROVE  InHand'
<1>1. /\ n.pc = proc[p].pc /\ n.gen = proc[p].gen /\ Mine(n) = Mine(proc[p])
  BY DEF Knows, Mine
<1>2. Claims(proc[p], file) => Claims(n, file)
  <2>1. SUFFICES ASSUME file # None, Claiming(proc[p], file) PROVE Claiming(n, file)
    BY <1>1 DEF Claims
  <2> QED BY <1>1, <2>1 DEF Claiming, Keeping, Entering
<1>3. Claims(n, file) => Claims(proc[p], file)
  <2>1. CASE proc[p].pc = "attach"
    BY <2>1
  <2>2. CASE proc[p].pc # "attach"
    BY <1>1, <2>2 DEF Claims, Claiming, Keeping, Entering
  <2> QED BY <2>1, <2>2
<1>4. Claims(proc[p], file) => ReadyOn(n, file)
  <2>1. SUFFICES ASSUME ReadyOn(proc[p], file) PROVE ReadyOn(n, file)
    BY DEF InHand
  <2>2. n.stage # "readback"
    BY DEF Entering
  <2> QED BY <1>1, <2>1, <2>2 DEF ReadyOn
<1> QED BY <1>2, <1>3, <1>4, HandStays

LEMMA LoadHand ==
  ASSUME OneWriter, IInv, InHand, NEW p \in Procs, Load(p)
  PROVE  InHand'
<1>1. /\ proc[p].stage = "load" /\ proc[p].stage \in Entering
      /\ UNCHANGED <<file, expired, holder, leaked>>
  BY LoadIs DEF Entering, ledger
<1>2. PICK n :
        /\ Become(p, n)
        /\ \/ /\ Readable /\ Accepts(proc[p], file) /\ Knows(proc[p], n) /\ n.stage = "fence"
           \/ ~(Readable /\ Accepts(proc[p], file)) /\ Unwound(p, n, "error")
  BY LoadIs
<1>3. CASE Readable /\ Accepts(proc[p], file) /\ Knows(proc[p], n) /\ n.stage = "fence"
  <2>1. proc[p].pc = "attach" => Claims(proc[p], file)
    BY <1>1, <1>3 DEF Readable, Accepts, AttachAccepts, Claims, Claiming, Mine
  <2> QED BY <1>1, <1>2, <1>3, <2>1, KnowsHand
<1>4. CASE ~(Readable /\ Accepts(proc[p], file)) /\ Unwound(p, n, "error")
  <2>1. Claims(proc[p], file) => expired
    <3> SUFFICES ASSUME Claims(proc[p], file), ~expired PROVE FALSE
      OBVIOUS
    <3>1. Readable /\ GoodRecord(file) /\ GoodInvocation(proc[p]) /\ ReadyOn(proc[p], file)
      BY DEF Claims, Readable, IInv, GoodStore, GoodProcs, InHand
    <3> QED BY <1>1, <1>4, <3>1, ReadyAccepts
  <2>2. Claims(n, file) => ReadyOn(n, file)
    <3>1. CASE n = Idle
      BY <3>1, IdleNotInvolved
    <3>2. CASE n.pc = "cleanup"
      BY <3>2 DEF ReadyOn
    <3> QED BY <1>4, <3>1, <3>2 DEF Unwound
  <2> QED BY <1>1, <1>2, <2>1, <2>2, HandStays
<1> QED BY <1>2, <1>3, <1>4

LEMMA FenceHand ==
  ASSUME OneWriter, IInv, Current, Alone, InHand, NEW p \in Procs, Fence(p)
  PROVE  InHand'
<1>1. /\ proc[p].stage = "fence" /\ file = proc[p].old
      /\ UNCHANGED <<file, expired, holder, leaked>>
  BY FenceIs DEF Current, CurrentOn, InReplace, ledger
<1>2. PICK n : Become(p, n) /\ Knows(proc[p], n) /\ n.stage = "write"
  BY <1>1, FenceIs
<1>3. proc[p].pc = "attach" => Claims(proc[p], file)
  BY <1>1 DEF Alone, AloneOn, Keeping
<1>4. proc[p].stage \in Entering
  BY <1>1 DEF Entering
<1> QED BY <1>1, <1>2, <1>3, <1>4, KnowsHand

\* The write of a reservation takes the hold, the writes that follow it keep it
\* until they end it, and the writes of a command find none.
LEMMA WriteHand ==
  ASSUME OneWriter, IInv, Settled, Current, Alone, Backed, InHand, NEW p \in Procs, Write(p)
  PROVE  InHand'
<1>0. /\ file # None /\ GoodRecord(file) /\ GoodRecord(file') /\ file' # None
      /\ GoodInvocation(proc[p]) /\ proc[p].pc \in ReplacePcs /\ proc[p].stage = "write"
      /\ proc[p].id \in Ids /\ Accepts(proc[p], file)
      /\ file' = Outcome(proc[p], file)
      /\ file' = file \/ Changed(proc[p], file, file')
      /\ UNCHANGED <<expired, leaked>>
  BY WriteReplaces, WriteIs, AbsentAssumption DEF Current, CurrentOn, InReplace, GoodRecord
<1>1. PICK n : /\ Become(p, n) /\ n.stage = "readback"
               /\ n.pc = proc[p].pc /\ n.id = proc[p].id /\ n.gen = proc[p].gen
  BY WriteIs DEF Knows
<1>k. Held /\ ~expired /\ ~leaked => holder = p /\ Claims(proc[p], file)
  BY DEF InHand, OneWriter
<1>m. Mine(n) = Mine(proc[p]) /\ Mine(n) \in Ids /\ Mine(n) # None
  BY <1>0, <1>1, MineIsId DEF Mine, GoodInvocation
<1>2. CASE proc[p].pc \in {"reserve", "chargeReserve"} /\ file' = file
  <2>1. ~Claims(proc[p], file)
    BY <1>0, <1>2 DEF Claims, Claiming, Keeping
  <2>2. ~Claims(n, file')
    BY <1>2, <1>m, NothingOpened DEF Claims
  <2>3. ~(Held' /\ ~expired' /\ ~leaked')
    BY <1>0, <1>2, <1>k, <2>1 DEF Held
  <2> QED BY <1>1, <2>2, <2>3, InHandAfter
<1>3. CASE proc[p].pc \in {"reserve", "chargeReserve"} /\ file' # file
  <2>1. holder' = p
    <3>1. proc[p].new # proc[p].old
      BY <1>0, <1>3, WriteReplaces, WriteIs
    <3> QED BY <1>3, <3>1 DEF Write
  <2>2. /\ file'.res = Mine(n) /\ file'.tx = None
        /\ proc[p].pc = "reserve" => file'.slot = proc[p].slot
    BY <1>0, <1>1, <1>3 DEF Changed, Opens, Mine
  <2>3. Claims(n, file')
    BY <1>0, <1>1, <1>3, <2>2 DEF Claims, Claiming
  <2>4. proc[p].pc = "reserve" => file'.slot # "failed-attempt"
    BY <2>2 DEF Backed, BackedInvocation
  <2>5. ReadyOn(n, file')
    BY <1>1, <1>3, <2>2, <2>4 DEF ReadyOn
  <2> QED BY <1>1, <2>1, <2>3, <2>5, InHandAfter
<1>4. CASE proc[p].pc = "attach"
  <2>1. Claims(proc[p], file) /\ ReadyOn(proc[p], file)
    BY <1>0, <1>4 DEF Alone, AloneOn, Keeping, InHand
  <2>2. /\ file'.res = file.res /\ file'.slot = file.slot /\ file'.gen = file.gen
    BY <1>0, <1>4 DEF Changed, Attaches
  <2>3. file'.tx # None
    <3>1. file' = Attached(file, proc[p].id)
      BY <1>0, <1>4 DEF Outcome
    <3>2. CASE file.tx # None
      BY <3>1, <3>2 DEF Attached
    <3>3. CASE file.tx = None
      <4> DEFINE x == [id |-> proc[p].id, gen |-> file.gen, phase |-> "analysis", result |-> None]
      <4>1. x \in Transactions
        BY <1>0 DEF Transactions, GoodRecord, Records
      <4> HIDE DEF x
      <4>2. file' = [file EXCEPT !.tx = x]
        BY <3>1, <3>3 DEF Attached, x
      <4>3. file'.tx = x
        BY <1>0, <4>2 DEF GoodRecord, Records
      <4> QED BY <4>1, <4>3, AbsentAssumption
    <3> QED BY <3>2, <3>3
  <2>4. file'.res = Mine(n)
    BY <1>m, <2>1, <2>2 DEF Claims
  <2>5. Analysing(file')
    BY <1>0, <1>m, <2>3, <2>4 DEF GoodRecord, WellFormed, Analysing
  <2>6. Claims(n, file')
    BY <1>0, <1>1, <1>4, <2>4 DEF Claims, Claiming, Keeping
  <2>7. ReadyOn(n, file')
    BY <1>1, <1>4, <2>1, <2>2, <2>5 DEF ReadyOn
  <2>8. Held' /\ ~expired' /\ ~leaked' => holder' = p
    <3>1. holder' = holder
      BY <1>4 DEF Write
    <3>2. Held
      BY <1>0, <2>1, ClaimIsHold DEF Held
    <3> QED BY <1>0, <1>k, <3>1, <3>2
  <2> QED BY <1>1, <2>6, <2>7, <2>8, InHandAfter
<1>5. CASE proc[p].pc \in {"checkpoint", "abort", "chargeCommit"}
  <2>1. file'.res = None
    BY <1>0, <1>5, EndsHold
  <2>2. ~Claims(n, file') /\ ~Held'
    BY <1>m, <2>1 DEF Claims, Held
  <2> QED BY <1>1, <2>2, InHandAfter
<1>6. CASE proc[p].pc \in {"pause", "unpause", "grant"}
  <2>1. file'.res = file.res /\ holder' = holder
    BY <1>0, <1>6 DEF Changed, Commanded, Write
  <2>2. ~Claims(proc[p], file) /\ ~Claims(n, file')
    BY <1>1, <1>6, NotInvolved
  <2>3. ~(Held' /\ ~expired' /\ ~leaked')
    BY <1>0, <1>k, <2>1, <2>2 DEF Held
  <2> QED BY <1>1, <2>2, <2>3, InHandAfter
<1> QED BY <1>0, <1>2, <1>3, <1>4, <1>5, <1>6 DEF ReplacePcs

LEMMA ReadBackHand ==
  ASSUME OneWriter, IInv, Current, InHand, NEW p \in Procs, ReadBack(p)
  PROVE  InHand'
<1>1. /\ proc[p].stage = "readback" /\ file # None /\ file = proc[p].new
      /\ UNCHANGED <<file, expired, holder, leaked>>
  BY ReadBackIs DEF Current, CurrentOn, InReplace, ledger
<1>2. Proceed(p)
  BY <1>1, ReadBackIs
<1>3. PICK n :
        /\ Become(p, n)
        /\ \/ n = Idle /\ proc[p].pc \notin {"reserve", "attach", "chargeReserve"}
           \/ /\ n.gen = file.gen /\ n.id = proc[p].id
              /\ \/ proc[p].pc = "reserve" /\ n.pc = "attach" /\ n.stage = "load"
                 \/ proc[p].pc = "attach" /\ n.pc = "running" /\ n.stage = None
                 \/ /\ proc[p].pc = "abort" /\ n.pc = "chargeReserve" /\ n.stage = "load"
                 \/ /\ proc[p].pc = "chargeReserve"
                    /\ n.pc = "chargeCommit" /\ n.stage = "load"
  BY <1>1, <1>2, ProceedIs
<1>r. Claims(proc[p], file) => ReadyOn(proc[p], file)
  BY DEF InHand
<1>4. CASE n = Idle /\ proc[p].pc \notin {"reserve", "attach", "chargeReserve"}
  <2>1. ~Claims(proc[p], file)
    <3>1. proc[p].pc \in ReplacePcs
      BY ReadBackIs
    <3> QED BY <1>1, <1>4, <3>1 DEF Claims, Claiming, Keeping, Entering, ReplacePcs
  <2> QED BY <1>1, <1>3, <1>4, <2>1, IdleHand
<1>5. CASE /\ proc[p].pc = "reserve" /\ n.pc = "attach" /\ n.stage = "load"
           /\ n.gen = file.gen /\ n.id = proc[p].id
  <2>1. Claims(proc[p], file) <=> Claims(n, file)
    BY <1>1, <1>5 DEF Claims, Claiming, Keeping, Entering, Mine
  <2>2. ReadyOn(proc[p], file) => ReadyOn(n, file)
    BY <1>1, <1>5 DEF ReadyOn
  <2> QED BY <1>1, <1>3, <1>r, <2>1, <2>2, HandStays
<1>6. CASE /\ proc[p].pc = "attach" /\ n.pc = "running"
           /\ n.gen = file.gen /\ n.id = proc[p].id
  <2>1. Claims(proc[p], file) <=> Claims(n, file)
    BY <1>1, <1>6 DEF Claims, Claiming, Keeping, Entering, Mine
  <2>2. ReadyOn(proc[p], file) => ReadyOn(n, file)
    BY <1>1, <1>6 DEF ReadyOn
  <2> QED BY <1>1, <1>3, <1>r, <2>1, <2>2, HandStays
<1>7. CASE proc[p].pc = "abort" /\ n.pc = "chargeReserve" /\ n.stage = "load"
  <2>1. ~Claims(proc[p], file) /\ ~Claims(n, file)
    BY <1>1, <1>7 DEF Claims, Claiming, Keeping, Entering
  <2> QED BY <1>1, <1>3, <2>1, HandStays
<1>8. CASE /\ proc[p].pc = "chargeReserve" /\ n.pc = "chargeCommit" /\ n.stage = "load"
           /\ n.gen = file.gen /\ n.id = proc[p].id
  <2>1. Claims(proc[p], file) <=> Claims(n, file)
    BY <1>1, <1>8 DEF Claims, Claiming, Keeping, Entering, Mine
  <2>2. ReadyOn(proc[p], file) => ReadyOn(n, file)
    BY <1>1, <1>8 DEF ReadyOn
  <2> QED BY <1>1, <1>3, <1>r, <2>1, <2>2, HandStays
<1> QED BY <1>3, <1>4, <1>5, <1>6, <1>7, <1>8

LEMMA AnalysisHand ==
  ASSUME OneWriter, IInv, InHand, NEW p \in Procs,
         Analyse(p) \/ AnalysisFails(p) \/ BaselineUnusable(p)
  PROVE  InHand'
<1>1. proc[p].pc = "running" /\ UNCHANGED <<file, expired, holder, leaked>>
  BY DEF Analyse, AnalysisFails, BaselineUnusable, ledger, history
<1>2. PICK n : /\ Become(p, n) /\ n.id = proc[p].id /\ n.gen = proc[p].gen
               /\ n.pc = "cleanup" \/ (n.pc = "checkpoint" /\ n.stage = "load")
  <2>1. CASE Analyse(p)
    BY <2>1, AnalyseIs
  <2>2. CASE AnalysisFails(p) \/ BaselineUnusable(p)
    <3>1. PICK charge \in BOOLEAN : CleanUp(p, charge)
      BY <2>2 DEF AnalysisFails, BaselineUnusable
    <3> QED BY <3>1, CleanUpIs
  <2> QED BY <2>1, <2>2
<1>3. Claims(proc[p], file) <=> Claims(n, file)
  BY <1>1, <1>2 DEF Claims, Claiming, Keeping, Entering, Mine
<1>4. Claims(proc[p], file) => ReadyOn(proc[p], file)
  BY DEF InHand
<1>5. ReadyOn(proc[p], file) => ReadyOn(n, file)
  BY <1>1, <1>2 DEF ReadyOn
<1> QED BY <1>1, <1>2, <1>3, <1>4, <1>5, HandStays

LEMMA CleanupHand ==
  ASSUME OneWriter, IInv, InHand, NEW p \in Procs, Cleanup(p)
  PROVE  InHand'
<1>1. proc[p].pc = "cleanup" /\ UNCHANGED <<file, expired, holder, leaked>>
  BY CleanupIs DEF ledger, history
<1>2. PICK n :
        /\ Become(p, n)
        /\ \/ n = Idle /\ ~(Readable /\ Owned(p))
           \/ /\ Readable /\ Owned(p) /\ n.pc = "abort" /\ n.stage = "load"
              /\ n.id = proc[p].id /\ n.gen = file.gen
  BY CleanupIs
<1>3. CASE n = Idle /\ ~(Readable /\ Owned(p))
  <2>1. Claims(proc[p], file) => expired
    BY <1>1, <1>3 DEF Claims, Mine, Readable, Owned
  <2> QED BY <1>1, <1>2, <1>3, <2>1, IdleHand
<1>4. CASE /\ Readable /\ Owned(p) /\ n.pc = "abort" /\ n.stage = "load"
           /\ n.id = proc[p].id /\ n.gen = file.gen
  <2>1. Claims(n, file) /\ ReadyOn(n, file)
    BY <1>4 DEF Claims, Claiming, Keeping, Entering, Mine, Readable, Owned, ReadyOn
  <2> QED BY <1>1, <1>2, <2>1, HandStays
<1> QED BY <1>2, <1>3, <1>4

\* A failure that leaves the hold behind says so.
LEMMA FaultHand ==
  ASSUME OneWriter, IInv, InHand, NEW p \in Procs, IOError(p) \/ Interrupt(p) \/ Crash(p)
  PROVE  InHand'
<1>1. UNCHANGED <<file, expired, holder>> /\ leaked' \in {leaked, leaked \/ Held, TRUE}
      /\ (leaked => leaked')
  BY DEF IOError, Interrupt, Crash, Leaves, ledger, IInv, GoodHistory
<1>h. Claims(proc[p], file) => Held
  BY ClaimIsHold DEF IInv, GoodProcs, Held
<1>2. CASE Become(p, Idle) /\ (Held => leaked')
  BY <1>1, <1>h, <1>2, IdleHand
<1>3. CASE \E n : /\ Become(p, n) /\ n.pc = "cleanup" /\ n.id = proc[p].id
                  /\ proc[p].pc \in {"running", "checkpoint"}
  <2>1. PICK n : /\ Become(p, n) /\ n.pc = "cleanup" /\ n.id = proc[p].id
                 /\ proc[p].pc \in {"running", "checkpoint"}
    BY <1>3
  <2>2. Claims(proc[p], file) => Claims(n, file)
    BY <2>1 DEF Claims, Claiming, Mine
  <2>3. ReadyOn(n, file)
    BY <2>1 DEF ReadyOn
  <2> QED BY <1>1, <2>1, <2>2, <2>3, HandStays
<1>4. CASE Crash(p)
  BY <1>2, <1>4 DEF Crash, End
<1>5. CASE Interrupt(p) /\ proc[p].pc = "running"
  <2>1. CleanUp(p, FALSE)
    BY <1>5 DEF Interrupt
  <2> QED BY <1>3, <1>5, <2>1, CleanUpIs
<1>6. CASE IOError(p) \/ (Interrupt(p) /\ proc[p].pc # "running")
  <2>1. PICK cause : Unwind(p, cause)
    BY <1>6 DEF IOError, Interrupt
  <2>2. PICK n : Become(p, n) /\ Unwound(p, n, cause)
    BY <2>1, UnwindIs
  <2>3. CASE n = Idle /\ proc[p].pc # "checkpoint"
    BY <1>2, <1>6, <2>2, <2>3 DEF IOError, Interrupt, Leaves
  <2> QED BY <1>3, <2>2, <2>3 DEF Unwound
<1> QED BY <1>4, <1>5, <1>6

LEMMA InHandInit == Init => InHand
<1> SUFFICES ASSUME Init PROVE InHand
  OBVIOUS
<1>1. file = None
  BY DEF Init
<1> QED BY <1>1 DEF InHand, Claims, Held

LEMMA InHandNext ==
  ASSUME OneWriter, IInv, Settled, Current, Alone, Covered, Backed, InHand, [Next]_vars
  PROVE  InHand'
<1>1. ASSUME NEW p \in Procs,
             \/ Start(p) \/ CreateWitness(p) \/ RetireWitness(p)
             \/ LinkRecord(p) \/ UnlinkRecord(p)
      PROVE  InHand'
  BY <1>1, EnrolmentHand, NewRecordHand
<1>2. ASSUME NEW p \in Procs, Load(p) \/ Fence(p) \/ Write(p) \/ ReadBack(p) PROVE InHand'
  BY <1>2, LoadHand, FenceHand, WriteHand, ReadBackHand
<1>3. ASSUME NEW p \in Procs,
             Analyse(p) \/ AnalysisFails(p) \/ BaselineUnusable(p) \/ Cleanup(p)
      PROVE  InHand'
  BY <1>3, AnalysisHand, CleanupHand
<1>4. ASSUME NEW p \in Procs, IOError(p) \/ Interrupt(p) \/ Crash(p) PROVE InHand'
  BY <1>4, FaultHand
<1>5. CASE Expire
  BY <1>5 DEF Expire, history, InHand, Held
<1>6. CASE Delete
  <2>1. file' = None
    BY <1>6 DEF Delete
  <2> QED BY <2>1 DEF InHand, Claims, Held
<1>7. CASE UNCHANGED vars
  BY <1>7 DEF vars, ledger, history, InHand, Held
<1> QED BY <1>1, <1>2, <1>3, <1>4, <1>5, <1>6, <1>7 DEF Next

\* With one writer every exit after admission gives its reservation back: a
\* hold on a live record is that of a review still at work, unless a crash, or
\* a failure inside admission or cleanup, has left it.
THEOREM HoldIsAttended ==
  ASSUME OneWriter
  PROVE  Spec => []HoldHasWriter
<1>1. OwnHolds
  BY DEF OwnHolds
<1>2. Spec => [](Settled /\ Current /\ Alone /\ Covered)
  BY <1>1, Aloneness
<1>3. IInv /\ Settled /\ Current /\ Alone /\ Covered /\ Backed /\ InHand /\ [Next]_vars => InHand'
  BY InHandNext
<1>4. Steady /\ InHand => HoldHasWriter
  <2> SUFFICES ASSUME Steady, InHand, Held, ~expired, ~leaked
               PROVE  proc[holder].task = "review"
    BY DEF HoldHasWriter
  <2>1. holder \in Procs /\ Claims(proc[holder], file)
    BY DEF InHand
  <2>2. proc[holder].pc \in Working
    BY <2>1 DEF Claims, Claiming, Keeping, Working
  <2> QED BY <2>1, <2>2 DEF Steady
<1> QED BY <1>2, <1>3, <1>4, InHandInit, Freshness, PTL DEF Spec

-----------------------------------------------------------------------------
(* What was decided on is still so                                         *)

\* What an invocation found when it decided holds as long as the generation.
ChosenOn(s, r) ==
  s.stage \in Entering /\ r # None /\ s.gen = r.gen =>
    /\ s.pc = "reserve" => s.slot = RoundKind(r)
    /\ s.pc = "unpause" => r.res = None

\* The slot held is the one that the counts call for.
RightKind(r) ==
  r # None /\ r.res # None /\ r.slot # "failed-attempt" => r.slot = RoundKind(r)

Chosen == RightKind(file) /\ \A p \in Procs : ChosenOn(proc[p], file)

LEMMA ChosenElsewhere ==
  ASSUME NEW n, NEW r, n.pc \notin {"reserve", "unpause"} PROVE ChosenOn(n, r)
BY DEF ChosenOn

LEMMA ChosenStays ==
  ASSUME IInv, Chosen, NEW p \in Procs, NEW n, Become(p, n), file' = file, ChosenOn(n, file)
  PROVE  Chosen'
<1>1. proc'[p] = n /\ \A q \in Procs \ {p} : proc'[q] = proc[q]
  BY BecomeIs DEF IInv
<1> QED BY <1>1 DEF Chosen

LEMMA DecideChosen ==
  ASSUME NEW p \in Procs, NEW s \in Invocations, NEW r, Decide(p, s, r)
  PROVE  \E n : Become(p, n) /\ ChosenOn(n, r)
<1>1. PICK n :
        /\ Become(p, n)
        /\ \/ n = Idle
           \/ n.pc = "reserve" /\ n.slot = RoundKind(r)
           \/ n.pc \in {"pause", "unpause", "grant"} /\ (n.pc = "unpause" => r.res = None)
  BY DecideIs
<1>2. Idle.pc = "idle"
  BY DEF Idle
<1> QED BY <1>1, <1>2 DEF ChosenOn

\* A step of a replace that leaves the record alone.
LEMMA KnowsChosen ==
  ASSUME Chosen, NEW p \in Procs, NEW n, Knows(proc[p], n), proc[p].stage \in Entering
  PROVE  ChosenOn(n, file)
BY DEF Chosen, ChosenOn, Knows

LEMMA UnwoundChosen ==
  ASSUME NEW p \in Procs, NEW n, NEW cause, Unwound(p, n, cause)
  PROVE  ChosenOn(n, file)
BY ChosenElsewhere DEF Unwound, Idle

\* A new record is of a new generation, or it has a transaction attached and
\* is otherwise the old one.
LEMMA WriteChosen ==
  ASSUME IInv, Backed, Current, Chosen, NEW p \in Procs, Write(p)
  PROVE  Chosen'
<1>1. /\ file # None /\ file \in Records /\ file' \in Records /\ file' # None
      /\ proc[p].pc \in ReplacePcs /\ proc[p].stage = "write" /\ proc[p].id \in Ids
      /\ file' = file \/ Changed(proc[p], file, file')
  BY WriteReplaces, AbsentAssumption DEF GoodRecord
<1>2. PICK n : Become(p, n) /\ n.stage = "readback"
  BY WriteIs
<1>3. proc'[p] = n /\ \A q \in Procs \ {p} : proc'[q] = proc[q]
  BY <1>2, BecomeIs DEF IInv
<1>g. file.gen \in Nat /\ \A q \in Procs : proc[q].gen <= file.gen /\ proc[q].gen \in Nat
  BY <1>1 DEF Current, CurrentOn, IInv, GoodProcs, Records, Invocations
<1>4. \/ file'.gen = file.gen + 1
      \/ file'.gen = file.gen /\ file'.res = file.res /\ file'.initial = file.initial
  BY <1>1 DEF Changed, Opens, Attaches, Completes, Aborts, Charges, Commanded, SameBudget
<1>5. \A q \in Procs : ChosenOn(proc'[q], file')
  <2>1. ChosenOn(proc'[p], file')
    BY <1>2, <1>3 DEF ChosenOn, Entering
  <2>2. ASSUME NEW q \in Procs \ {p} PROVE ChosenOn(proc[q], file')
    <3>1. ChosenOn(proc[q], file)
      BY DEF Chosen
    <3>2. CASE file'.gen = file.gen + 1
      <4>1. proc[q].gen # file'.gen
        BY <1>g, <3>2
      <4> QED BY <4>1 DEF ChosenOn
    <3>3. CASE file'.gen = file.gen /\ file'.res = file.res /\ file'.initial = file.initial
      BY <1>1, <3>1, <3>3 DEF ChosenOn, RoundKind
    <3> QED BY <1>4, <3>2, <3>3
  <2> QED BY <1>3, <2>1, <2>2
<1>6. RightKind(file')
  <2>1. CASE file' = file
    BY <2>1 DEF Chosen
  <2>2. CASE proc[p].pc = "reserve" /\ Opens(file, file', proc[p].id, proc[p].slot, proc[p].gen)
    <3>1. proc[p].slot = RoundKind(file)
      BY <1>1, <2>2 DEF Chosen, ChosenOn, Entering, Opens
    <3> QED BY <2>2, <3>1 DEF RightKind, Opens, RoundKind
  <2>3. CASE Opens(file, file', ChargeId(proc[p].id), "failed-attempt", proc[p].gen)
    BY <2>3 DEF Opens, RightKind
  <2>4. CASE Attaches(proc[p], file, file') \/ Commanded(file, file')
    BY <1>1, <2>4 DEF Attaches, Commanded, SameBudget, Chosen, RightKind, RoundKind
  <2>5. CASE \/ Completes(proc[p], file, file') \/ Aborts(proc[p], file, file')
             \/ Charges(proc[p], file, file')
    BY <2>5 DEF Completes, Aborts, Charges, RightKind
  <2> QED BY <1>1, <2>1, <2>2, <2>3, <2>4, <2>5 DEF Changed
<1> QED BY <1>5, <1>6 DEF Chosen

LEMMA ChosenNext ==
  ASSUME IInv, Enrolment, Backed, Steady, Settled, Current, Chosen, [Next]_vars
  PROVE  Chosen'
<1>i. ChosenOn(Idle, file)
  BY ChosenElsewhere DEF Idle
<1>p. \A p \in Procs : proc[p] \in Invocations
  BY DEF IInv, GoodProcs
<1>1. ASSUME NEW p \in Procs, Start(p) PROVE Chosen'
  <2>1. file' = file
    BY <1>1 DEF Start, ledger
  <2>2. PICK s \in Invocations :
           \/ Decide(p, s, file)
           \/ \E n : Become(p, n) /\ n.pc \in {"witness", "retire"}
    BY <1>1, StartIs
  <2>3. \E n : Become(p, n) /\ ChosenOn(n, file)
    BY <2>2, DecideChosen, ChosenElsewhere
  <2> QED BY <2>1, <2>3, ChosenStays
<1>2. ASSUME NEW p \in Procs, CreateWitness(p) \/ RetireWitness(p) PROVE Chosen'
  <2>1. file' = file
    BY <1>2 DEF CreateWitness, RetireWitness
  <2>2. Goto(p, "link") \/ Goto(p, "unlink") \/ Become(p, Idle)
    BY <1>2 DEF CreateWitness, RetireWitness, End
  <2>3. \E n : Become(p, n) /\ ChosenOn(n, file)
    BY <1>i, <2>2, GotoIs, ChosenElsewhere
  <2> QED BY <2>1, <2>3, ChosenStays
<1>3. ASSUME NEW p \in Procs, LinkRecord(p) PROVE Chosen'
  <2>1. CASE file # None
    <3>1. file' = file /\ Become(p, Idle)
      BY <1>3, <2>1 DEF LinkRecord, End
    <3> QED BY <1>i, <3>1, ChosenStays
  <2>2. CASE file = None
    <3> DEFINE r == Fresh(enrolled + 1)
    <3>1. file' = r /\ (Decide(p, proc[p], r) \/ Become(p, Idle))
      BY <1>3, <2>2 DEF LinkRecord, End
    <3>2. RightKind(r)
      BY DEF Fresh, RightKind
    <3> HIDE DEF r
    <3>3. PICK n : Become(p, n) /\ ChosenOn(n, r)
      BY <1>p, <3>1, DecideChosen, ChosenElsewhere DEF Idle
    <3>4. proc'[p] = n /\ \A q \in Procs \ {p} : proc'[q] = proc[q]
      BY <3>3, BecomeIs DEF IInv
    <3>5. \A q \in Procs : ChosenOn(proc[q], r)
      BY <1>3, NobodyReads, ChosenElsewhere DEF LinkRecord, Enrolling
    <3> QED BY <3>1, <3>2, <3>3, <3>4, <3>5 DEF Chosen
  <2> QED BY <2>1, <2>2
<1>4. ASSUME file' = None PROVE Chosen'
  BY <1>4 DEF Chosen, RightKind, ChosenOn
<1>5. ASSUME NEW p \in Procs, UnlinkRecord(p) PROVE Chosen'
  BY <1>4, <1>5 DEF UnlinkRecord
<1>6. ASSUME NEW p \in Procs, Write(p) PROVE Chosen'
  BY <1>6, WriteChosen
<1>7. ASSUME NEW p \in Procs,
             \/ Load(p) \/ Fence(p) \/ ReadBack(p) \/ Analyse(p) \/ AnalysisFails(p)
             \/ BaselineUnusable(p) \/ Cleanup(p) \/ IOError(p) \/ Interrupt(p) \/ Crash(p)
      PROVE  Chosen'
  <2>1. file' = file
    BY <1>7, FaultIs
       DEF Load, Fence, ReadBack, Analyse, AnalysisFails, BaselineUnusable, Cleanup, ledger
  <2>2. CASE Load(p)
    BY <2>1, <2>2, LoadIs, KnowsChosen, UnwoundChosen, ChosenStays DEF Entering
  <2>3. CASE Fence(p)
    BY <2>1, <2>3, FenceIs, KnowsChosen, UnwoundChosen, ChosenStays DEF Entering
  <2>4. CASE ReadBack(p)
    <3>1. PICK n : /\ Become(p, n)
                   /\ \/ n.pc \in {"idle", "attach", "running", "chargeReserve", "chargeCommit"}
                      \/ Unwound(p, n, "error")
      BY <2>4, ReadBackIs, ProceedIs DEF Idle
    <3> QED BY <2>1, <3>1, UnwoundChosen, ChosenElsewhere, ChosenStays
  <2>5. CASE Analyse(p) \/ AnalysisFails(p) \/ BaselineUnusable(p) \/ Cleanup(p)
    <3>1. \/ Analyse(p) \/ Cleanup(p)
          \/ CleanUp(p, TRUE) \/ CleanUp(p, FALSE)
      BY <2>5 DEF AnalysisFails, BaselineUnusable
    <3>2. PICK n : Become(p, n) /\ n.pc \in {"idle", "checkpoint", "cleanup", "abort"}
      <4>1. CASE Analyse(p)
        BY <4>1, AnalyseIs
      <4>2. CASE Cleanup(p)
        BY <4>2, CleanupIs DEF Idle
      <4>3. CASE CleanUp(p, TRUE) \/ CleanUp(p, FALSE)
        BY <4>3, CleanUpIs
      <4> QED BY <3>1, <4>1, <4>2, <4>3
    <3> QED BY <2>1, <3>2, ChosenElsewhere, ChosenStays
  <2>6. CASE IOError(p) \/ Interrupt(p) \/ Crash(p)
    <3>1. PICK n : Become(p, n) /\ n.pc \in {"idle", "cleanup"}
      BY <2>6, FaultIs DEF Idle
    <3> QED BY <2>1, <3>1, ChosenElsewhere, ChosenStays
  <2> QED BY <1>7, <2>2, <2>3, <2>4, <2>5, <2>6
<1>8. CASE Delete
  BY <1>4, <1>8 DEF Delete
<1>9. CASE Expire \/ UNCHANGED vars
  BY <1>9 DEF Expire, vars, ledger, Chosen
<1> QED BY <1>1, <1>2, <1>3, <1>5, <1>6, <1>7, <1>8, <1>9 DEF Next

LEMMA Choices ==
  ASSUME OneRecord
  PROVE  Spec => []Chosen
<1>1. Init => Chosen
  BY ChosenElsewhere DEF Init, Chosen, RightKind, Idle
<1>2. IInv /\ Enrolment /\ Backed /\ Steady /\ Settled /\ Current /\ Chosen /\ [Next]_vars
        => Chosen'
  BY ChosenNext
<1> QED BY <1>1, <1>2, Freshness, Currency, PTL DEF Spec

-----------------------------------------------------------------------------
(* The transitions as the reader of the record sees them                   *)

\* A record the reader sees, field by field, and what each step changes of it.
View(hold, last, result, initial, verification, failed, head, granted, paused) ==
  [hold |-> hold, last |-> last, result |-> result, initial |-> initial,
   verification |-> verification, failed |-> failed, head |-> head,
   granted |-> granted, paused |-> paused]

SeenHeld(s, a, b, c, k) ==
  [s EXCEPT !.hold = a, !.result = b, !.head = c, !.failed = k, !.granted = @ \ {c}]
SeenComplete(s, a, b, c, j, w) ==
  [s EXCEPT !.hold = a, !.last = b, !.result = c, !.initial = j, !.verification = w]
SeenPartial(s, a, b, c, k) ==
  [s EXCEPT !.hold = a, !.last = b, !.result = c, !.failed = k]
SeenCharged(s, a, b, k) ==
  [s EXCEPT !.hold = a, !.last = b, !.failed = k]
SeenGranted(s, a, c) ==
  [s EXCEPT !.paused = a, !.granted = c]

LEMMA HeldView ==
  ASSUME NEW h, NEW l, NEW x, NEW i, NEW v, NEW f, NEW d, NEW g, NEW p,
         NEW a, NEW b, NEW c, NEW k
  PROVE  SeenHeld(View(h, l, x, i, v, f, d, g, p), a, b, c, k) =
           View(a, l, b, i, v, k, c, g \ {c}, p)
<1> DEFINE s0 == View(h, l, x, i, v, f, d, g, p)
           s1 == [s0 EXCEPT !.hold = a]
           s2 == [s1 EXCEPT !.result = b]
           s3 == [s2 EXCEPT !.head = c]
           s4 == [s3 EXCEPT !.failed = k]
           s5 == [s4 EXCEPT !.granted = s0.granted \ {c}]
<1>1. [s0 EXCEPT !.hold = a, !.result = b, !.head = c, !.failed = k, !.granted = @ \ {c}] = s5
  <2> HIDE DEF s0
  <2> QED OBVIOUS
<1>2. s0.granted = g
  BY DEF View
<1>3. s1 = View(a, l, x, i, v, f, d, g, p)
  BY DEF View
<1> HIDE DEF s1
<1>4. s2 = View(a, l, b, i, v, f, d, g, p)
  BY <1>3 DEF View
<1> HIDE DEF s2
<1>5. s3 = View(a, l, b, i, v, f, c, g, p)
  BY <1>4 DEF View
<1> HIDE DEF s3
<1>6. s4 = View(a, l, b, i, v, k, c, g, p)
  BY <1>5 DEF View
<1> HIDE DEF s4
<1>7. s5 = View(a, l, b, i, v, k, c, g \ {c}, p)
  BY <1>2, <1>6 DEF View
<1> HIDE DEF s5
<1> QED BY <1>1, <1>7 DEF SeenHeld

LEMMA CompleteView ==
  ASSUME NEW h, NEW l, NEW x, NEW i, NEW v, NEW f, NEW d, NEW g, NEW p,
         NEW a, NEW b, NEW c, NEW j, NEW w
  PROVE  SeenComplete(View(h, l, x, i, v, f, d, g, p), a, b, c, j, w) =
           View(a, b, c, j, w, f, d, g, p)
<1> DEFINE s0 == View(h, l, x, i, v, f, d, g, p)
           s1 == [s0 EXCEPT !.hold = a]
           s2 == [s1 EXCEPT !.last = b]
           s3 == [s2 EXCEPT !.result = c]
           s4 == [s3 EXCEPT !.initial = j]
           s5 == [s4 EXCEPT !.verification = w]
<1>1. [s0 EXCEPT !.hold = a, !.last = b, !.result = c, !.initial = j, !.verification = w] = s5
  <2> HIDE DEF s0
  <2> QED OBVIOUS
<1>2. s1 = View(a, l, x, i, v, f, d, g, p)
  BY DEF View
<1> HIDE DEF s1
<1>3. s2 = View(a, b, x, i, v, f, d, g, p)
  BY <1>2 DEF View
<1> HIDE DEF s2
<1>4. s3 = View(a, b, c, i, v, f, d, g, p)
  BY <1>3 DEF View
<1> HIDE DEF s3
<1>5. s4 = View(a, b, c, j, v, f, d, g, p)
  BY <1>4 DEF View
<1> HIDE DEF s4
<1>6. s5 = View(a, b, c, j, w, f, d, g, p)
  BY <1>5 DEF View
<1> HIDE DEF s5
<1> QED BY <1>1, <1>6 DEF SeenComplete

LEMMA PartialView ==
  ASSUME NEW h, NEW l, NEW x, NEW i, NEW v, NEW f, NEW d, NEW g, NEW p,
         NEW a, NEW b, NEW c, NEW k
  PROVE  SeenPartial(View(h, l, x, i, v, f, d, g, p), a, b, c, k) =
           View(a, b, c, i, v, k, d, g, p)
<1> DEFINE s0 == View(h, l, x, i, v, f, d, g, p)
           s1 == [s0 EXCEPT !.hold = a]
           s2 == [s1 EXCEPT !.last = b]
           s3 == [s2 EXCEPT !.result = c]
           s4 == [s3 EXCEPT !.failed = k]
<1>1. [s0 EXCEPT !.hold = a, !.last = b, !.result = c, !.failed = k] = s4
  <2> HIDE DEF s0
  <2> QED OBVIOUS
<1>2. s1 = View(a, l, x, i, v, f, d, g, p)
  BY DEF View
<1> HIDE DEF s1
<1>3. s2 = View(a, b, x, i, v, f, d, g, p)
  BY <1>2 DEF View
<1> HIDE DEF s2
<1>4. s3 = View(a, b, c, i, v, f, d, g, p)
  BY <1>3 DEF View
<1> HIDE DEF s3
<1>5. s4 = View(a, b, c, i, v, k, d, g, p)
  BY <1>4 DEF View
<1> HIDE DEF s4
<1> QED BY <1>1, <1>5 DEF SeenPartial

LEMMA ChargedView ==
  ASSUME NEW h, NEW l, NEW x, NEW i, NEW v, NEW f, NEW d, NEW g, NEW p,
         NEW a, NEW b, NEW k
  PROVE  SeenCharged(View(h, l, x, i, v, f, d, g, p), a, b, k) =
           View(a, b, x, i, v, k, d, g, p)
<1> DEFINE s0 == View(h, l, x, i, v, f, d, g, p)
           s1 == [s0 EXCEPT !.hold = a]
           s2 == [s1 EXCEPT !.last = b]
           s3 == [s2 EXCEPT !.failed = k]
<1>1. [s0 EXCEPT !.hold = a, !.last = b, !.failed = k] = s3
  <2> HIDE DEF s0
  <2> QED OBVIOUS
<1>2. s1 = View(a, l, x, i, v, f, d, g, p)
  BY DEF View
<1> HIDE DEF s1
<1>3. s2 = View(a, b, x, i, v, f, d, g, p)
  BY <1>2 DEF View
<1> HIDE DEF s2
<1>4. s3 = View(a, b, x, i, v, k, d, g, p)
  BY <1>3 DEF View
<1> HIDE DEF s3
<1> QED BY <1>1, <1>4 DEF SeenCharged

LEMMA GrantedView ==
  ASSUME NEW h, NEW l, NEW x, NEW i, NEW v, NEW f, NEW d, NEW g, NEW p,
         NEW a, NEW c
  PROVE  SeenGranted(View(h, l, x, i, v, f, d, g, p), a, c) =
           View(h, l, x, i, v, f, d, c, a)
<1> DEFINE s0 == View(h, l, x, i, v, f, d, g, p)
           s1 == [s0 EXCEPT !.paused = a]
           s2 == [s1 EXCEPT !.granted = c]
<1>1. [s0 EXCEPT !.paused = a, !.granted = c] = s2
  <2> HIDE DEF s0
  <2> QED OBVIOUS
<1>2. s1 = View(h, l, x, i, v, f, d, g, a)
  BY DEF View
<1> HIDE DEF s1
<1>3. s2 = View(h, l, x, i, v, f, d, c, a)
  BY <1>2 DEF View
<1> HIDE DEF s2
<1> QED BY <1>1, <1>3 DEF SeenGranted

LEMMA SeenIs ==
  ASSUME NEW r
  PROVE  /\ Seen(r) = View(r.res, r.last, LastResult(r), r.initial, r.verification,
                          r.failed, r.failedHead, HeadsOf(r.grants), r.paused)
         /\ Seen(r).hold = r.res /\ Seen(r).last = r.last /\ Seen(r).result = LastResult(r)
         /\ Seen(r).initial = r.initial /\ Seen(r).verification = r.verification
         /\ Seen(r).failed = r.failed /\ Seen(r).head = r.failedHead
         /\ Seen(r).granted = HeadsOf(r.grants) /\ Seen(r).paused = r.paused
BY DEF Seen, View

LEMMA ReservedSeen ==
  ASSUME NEW r \in Records, NEW id \in Ids, NEW slot \in Slots, ~AlreadyReserved(r, id, slot),
         NEW f, f = IF r.failedHead = HeadOf[id.work] THEN r.failed ELSE 0
  PROVE  Seen(Reserved(r, id, slot)) = SeenHeld(Seen(r), id, None, HeadOf[id.work], f)
<1> DEFINE h == HeadOf[id.work]
           s == FailedAttemptScope(r, h)
           rest == s.grants \ OpenGrants(r, h)
           n == [s EXCEPT !.gen = @ + 1, !.res = id, !.slot = slot, !.tx = None,
                          !.grants = rest]
<1>1. Reserved(r, id, slot) = n
  BY DEF Reserved
<1>2. /\ s.initial = r.initial /\ s.verification = r.verification /\ s.last = r.last
      /\ s.paused = r.paused /\ s.grants = r.grants /\ s.failedHead = h
      /\ s.failed = IF r.failedHead = h THEN r.failed ELSE 0
  <2>1. CASE r.failedHead = h
    BY <2>1 DEF FailedAttemptScope
  <2>2. CASE r.failedHead # h
    BY <2>2 DEF FailedAttemptScope, Records
  <2> QED BY <2>1, <2>2
<1>3. s \in Records
  BY ScopeType, HeadOfWork
<1> HIDE DEF s, h
<1>4. /\ n.res = id /\ n.tx = None /\ n.last = s.last /\ n.paused = s.paused
      /\ n.initial = s.initial /\ n.verification = s.verification
      /\ n.failedHead = s.failedHead /\ n.failed = s.failed /\ n.grants = rest
  BY <1>3 DEF Records
<1>5. HeadsOf(rest) = HeadsOf(r.grants) \ {h} /\ LastResult(n) = None
  BY <1>2, <1>4 DEF OpenGrants, HeadsOf, LastResult, Publishable
<1> HIDE DEF rest, n
<1>6. Seen(n) = SeenHeld(Seen(r), id, None, h, f)
  <2> DEFINE g == HeadsOf(r.grants) \ {h}
             before == View(r.res, r.last, LastResult(r), r.initial, r.verification, r.failed,
                            r.failedHead, HeadsOf(r.grants), r.paused)
             seen == View(id, r.last, None, r.initial, r.verification, f, h, g, r.paused)
  <2>1. n.failed = f /\ HeadsOf(n.grants) = g
    BY <1>2, <1>4, <1>5 DEF h
  <2> HIDE DEF g
  <2>2. Seen(n) = seen
    BY <1>2, <1>4, <1>5, <2>1, SeenIs
  <2>3. SeenHeld(before, id, None, h, f) = seen
    BY HeldView DEF g
  <2>4. Seen(r) = before
    BY SeenIs
  <2> QED BY <2>2, <2>3, <2>4
<1> QED BY <1>1, <1>6 DEF h

\* Attaching a transaction is not seen.
LEMMA AttachedSeen ==
  ASSUME NEW r \in Records, NEW id \in Ids
  PROVE  Seen(Attached(r, id)) = Seen(r)
<1>1. CASE r.tx # None
  BY <1>1 DEF Attached
<1>2. CASE r.tx = None
  <2> DEFINE t == [id |-> id, gen |-> r.gen, phase |-> "analysis", result |-> None]
             n == [r EXCEPT !.tx = t]
  <2>1. Attached(r, id) = n
    BY <1>2 DEF Attached
  <2>2. t.phase = "analysis"
    OBVIOUS
  <2> HIDE DEF t
  <2>3. /\ n.res = r.res /\ n.tx = t /\ n.last = r.last /\ n.paused = r.paused
        /\ n.initial = r.initial /\ n.verification = r.verification
        /\ n.failedHead = r.failedHead /\ n.failed = r.failed /\ n.grants = r.grants
    BY DEF Records
  <2> HIDE DEF n
  <2>4. LastResult(n) = LastResult(r)
    BY <1>2, <2>2, <2>3 DEF Publishable, LastResult
  <2>5. Seen(n) = Seen(r)
    BY <2>3, <2>4 DEF Seen
  <2> QED BY <2>1, <2>5
<1> QED BY <1>1, <1>2

LEMMA AbortedSeen ==
  ASSUME NEW r, GoodRecord(r), r.res # None
  PROVE  Seen(Aborted(r)) = [Seen(r) EXCEPT !.hold = None]
<1> DEFINE n == [r EXCEPT !.gen = @ + 1, !.res = None, !.slot = None, !.tx = None]
<1>1. Aborted(r) = n
  BY DEF Aborted
<1>2. /\ n.res = None /\ n.tx = None /\ n.last = r.last /\ n.paused = r.paused
      /\ n.initial = r.initial /\ n.verification = r.verification
      /\ n.failedHead = r.failedHead /\ n.failed = r.failed /\ n.grants = r.grants
  BY DEF GoodRecord, Records
<1> HIDE DEF n
<1>3. LastResult(n) = LastResult(r)
  BY <1>2 DEF Publishable, GoodRecord, WellFormed, LastResult
<1>4. Seen(n) = [Seen(r) EXCEPT !.hold = None]
  BY <1>2, <1>3 DEF Seen
<1> QED BY <1>1, <1>4

\* The count that a slot adds to, and that only.
LEMMA MoreIs ==
  ASSUME NEW bound \in Nat, NEW n \in 0..bound
  PROVE  AtMost(n + 1, bound) = Promise!More(n, bound)
BY DEF AtMost, Promise!More

LEMMA ApplySlotSeen ==
  ASSUME NEW r \in Records, NEW slot \in Slots
  PROVE  LET n == ApplySlot(r, slot)
         IN  /\ n.res = r.res /\ n.tx = r.tx /\ n.last = r.last /\ n.paused = r.paused
             /\ n.failedHead = r.failedHead /\ n.grants = r.grants
             /\ n.initial = IF slot = "initial" THEN Promise!More(r.initial, RoundCeiling)
                                                ELSE r.initial
             /\ n.verification = IF slot = "verification"
                                 THEN Promise!More(r.verification, RoundCeiling)
                                 ELSE r.verification
             /\ n.failed = IF slot = "failed-attempt" THEN Promise!More(r.failed, Ceiling)
                                                      ELSE r.failed
<1> DEFINE i == AtMost(r.initial + 1, RoundCeiling)
           v == AtMost(r.verification + 1, RoundCeiling)
           f == AtMost(r.failed + 1, Ceiling)
<1>1. /\ i = Promise!More(r.initial, RoundCeiling)
      /\ v = Promise!More(r.verification, RoundCeiling)
      /\ f = Promise!More(r.failed, Ceiling)
  BY MoreIs, CeilingAssumption, BudgetAssumption DEF Records
<1> HIDE DEF i, v, f
<1>2. CASE slot = "initial"
  <2>1. ApplySlot(r, slot) = [r EXCEPT !.initial = i]
    BY <1>2 DEF ApplySlot, i
  <2> QED BY <1>1, <1>2, <2>1 DEF Records
<1>3. CASE slot = "verification"
  <2>1. ApplySlot(r, slot) = [r EXCEPT !.verification = v]
    BY <1>3 DEF ApplySlot, v
  <2> QED BY <1>1, <1>3, <2>1 DEF Records
<1>4. CASE slot = "failed-attempt"
  <2>1. ApplySlot(r, slot) = [r EXCEPT !.failed = f]
    BY <1>4 DEF ApplySlot, f
  <2> QED BY <1>1, <1>4, <2>1 DEF Records
<1> QED BY <1>2, <1>3, <1>4 DEF Slots

LEMMA CommittedSeen ==
  ASSUME NEW r, GoodRecord(r), NEW id \in Ids, ~AlreadyCommitted(r, id),
         r.slot = "failed-attempt", NEW f, f = Promise!More(r.failed, Ceiling)
  PROVE  Seen(Committed(r, id)) = SeenCharged(Seen(r), None, id, f)
<1>0. r \in Records /\ r.slot \in Slots
  BY DEF GoodRecord, Slots
<1> DEFINE s == ApplySlot(r, r.slot)
           n == [s EXCEPT !.gen = @ + 1, !.res = None, !.slot = None, !.last = id]
<1>1. Committed(r, id) = n
  BY DEF Committed
<1>2. s \in Records
  BY <1>0, ApplySlotIs
<1>3. /\ s.tx = r.tx /\ s.paused = r.paused /\ s.failedHead = r.failedHead
      /\ s.grants = r.grants /\ s.initial = r.initial /\ s.verification = r.verification
      /\ s.failed = Promise!More(r.failed, Ceiling)
  BY <1>0, ApplySlotSeen
<1> HIDE DEF s
<1>4. /\ n.res = None /\ n.tx = s.tx /\ n.last = id /\ n.paused = s.paused
      /\ n.initial = s.initial /\ n.verification = s.verification
      /\ n.failedHead = s.failedHead /\ n.failed = s.failed /\ n.grants = s.grants
  BY <1>2 DEF Records
<1> HIDE DEF n
<1>5. LastResult(n) = LastResult(r)
  BY <1>3, <1>4 DEF LastResult, Publishable
<1>6. Seen(n) = SeenCharged(Seen(r), None, id, f)
  <2> DEFINE before == View(r.res, r.last, LastResult(r), r.initial, r.verification, r.failed,
                            r.failedHead, HeadsOf(r.grants), r.paused)
             seen == View(None, id, LastResult(r), r.initial, r.verification, f,
                          r.failedHead, HeadsOf(r.grants), r.paused)
  <2>1. Seen(n) = seen
    BY <1>3, <1>4, <1>5, SeenIs
  <2>2. SeenCharged(before, None, id, f) = seen
    BY ChargedView
  <2>3. Seen(r) = before
    BY SeenIs
  <2> QED BY <2>1, <2>2, <2>3
<1> QED BY <1>1, <1>6

LEMMA CheckpointedSeen ==
  ASSUME NEW r, GoodRecord(r), NEW id \in Ids, NEW result \in Results,
         r.tx.phase # "publication_pending", r.slot = RoundKind(r),
         NEW x, x = [round |-> id, result |-> result],
         NEW i, i = IF r.initial = 0 THEN Promise!More(r.initial, RoundCeiling) ELSE r.initial,
         NEW v, v = IF r.initial = 0 THEN r.verification
                    ELSE Promise!More(r.verification, RoundCeiling),
         NEW f, f = Promise!More(r.failed, Ceiling)
  PROVE  Seen(Checkpointed(r, id, result)) =
           IF result.complete THEN SeenComplete(Seen(r), None, id, x, i, v)
                              ELSE SeenPartial(Seen(r), None, id, x, f)
<1> DEFINE slot == IF result.complete THEN r.slot ELSE "failed-attempt"
           s == ApplySlot(r, slot)
           t == [id |-> id, gen |-> r.gen + 1, phase |-> "publication_pending",
                 result |-> result]
           b == IF result.complete THEN id.work ELSE s.baseline
           n == [s EXCEPT !.gen = @ + 1, !.res = None, !.slot = None, !.last = id,
                          !.baseline = b, !.tx = t]
<1>1. Checkpointed(r, id, result) = n
  BY DEF Checkpointed
<1>2. /\ slot \in Slots /\ r \in Records
      /\ result.complete => slot = (IF r.initial = 0 THEN "initial" ELSE "verification")
      /\ ~result.complete => slot = "failed-attempt"
  BY DEF Slots, RoundKind, GoodRecord
<1>3. t.id = id /\ t.phase = "publication_pending" /\ t.result = result /\ t # None
  <2>1. r.gen + 1 \in Nat
    BY <1>2 DEF Records
  <2>2. t \in Transactions
    BY <2>1 DEF Transactions
  <2> QED BY <2>2, AbsentAssumption
<1>4. /\ s.paused = r.paused /\ s.failedHead = r.failedHead /\ s.grants = r.grants
      /\ s.initial = IF slot = "initial" THEN Promise!More(r.initial, RoundCeiling)
                                         ELSE r.initial
      /\ s.verification = IF slot = "verification"
                          THEN Promise!More(r.verification, RoundCeiling)
                          ELSE r.verification
      /\ s.failed = IF slot = "failed-attempt" THEN Promise!More(r.failed, Ceiling)
                                               ELSE r.failed
  BY <1>2, ApplySlotSeen
<1>5. s \in Records
  BY <1>2, ApplySlotIs
<1> HIDE DEF slot, t, s, b
<1>6. /\ n.res = None /\ n.tx = t /\ n.last = id /\ n.paused = s.paused
      /\ n.initial = s.initial /\ n.verification = s.verification
      /\ n.failedHead = s.failedHead /\ n.failed = s.failed /\ n.grants = s.grants
  BY <1>5 DEF Records
<1> HIDE DEF n
<1>7. LastResult(n) = x
  BY <1>3, <1>6 DEF LastResult, Publishable
<1> DEFINE before == View(r.res, r.last, LastResult(r), r.initial, r.verification, r.failed,
                          r.failedHead, HeadsOf(r.grants), r.paused)
<1>b. Seen(r) = before
  BY SeenIs
<1>8. CASE result.complete
  <2> DEFINE seen == View(None, id, x, i, v, r.failed, r.failedHead, HeadsOf(r.grants),
                          r.paused)
  <2>1. n.failed = r.failed /\ n.initial = i /\ n.verification = v
    BY <1>2, <1>4, <1>6, <1>8
  <2>2. Seen(n) = seen
    BY <1>4, <1>6, <1>7, <2>1, SeenIs
  <2>3. SeenComplete(before, None, id, x, i, v) = seen
    BY CompleteView
  <2> QED BY <1>1, <1>8, <1>b, <2>2, <2>3
<1>9. CASE ~result.complete
  <2> DEFINE seen == View(None, id, x, r.initial, r.verification, f, r.failedHead,
                          HeadsOf(r.grants), r.paused)
  <2>1. n.failed = f /\ n.initial = r.initial /\ n.verification = r.verification
    BY <1>2, <1>4, <1>6, <1>9
  <2>2. Seen(n) = seen
    BY <1>4, <1>6, <1>7, <2>1, SeenIs
  <2>3. SeenPartial(before, None, id, x, f) = seen
    BY PartialView
  <2> QED BY <1>1, <1>9, <1>b, <2>2, <2>3
<1> QED BY <1>8, <1>9

LEMMA OperatorPausedSeen ==
  ASSUME NEW r \in Records, NEW paused \in BOOLEAN
  PROVE  Seen(OperatorPaused(r, paused)) = [Seen(r) EXCEPT !.paused = paused]
<1>1. CASE r.paused = paused
  BY <1>1 DEF OperatorPaused, Seen
<1>2. CASE r.paused # paused
  <2> DEFINE n == [r EXCEPT !.gen = @ + 1, !.paused = paused]
  <2>1. OperatorPaused(r, paused) = n
    BY <1>2 DEF OperatorPaused
  <2>2. /\ n.res = r.res /\ n.tx = r.tx /\ n.last = r.last /\ n.paused = paused
        /\ n.initial = r.initial /\ n.verification = r.verification
        /\ n.failedHead = r.failedHead /\ n.failed = r.failed /\ n.grants = r.grants
    BY DEF Records
  <2> HIDE DEF n
  <2>3. LastResult(n) = LastResult(r)
    BY <2>2 DEF LastResult, Publishable
  <2>4. Seen(n) = [Seen(r) EXCEPT !.paused = paused]
    BY <2>2, <2>3 DEF Seen
  <2> QED BY <2>1, <2>4
<1> QED BY <1>1, <1>2

LEMMA GrantedSeen ==
  ASSUME NEW r \in Records, OpenGrants(r, r.failedHead) = {},
         NEW g, g = HeadsOf(r.grants) \cup {r.failedHead}
  PROVE  Seen(Granted(r)) = SeenGranted(Seen(r), FALSE, g)
<1> DEFINE x == [head |-> r.failedHead, gen |-> r.gen]
           all == r.grants \cup {x}
           n == [r EXCEPT !.gen = @ + 1, !.paused = FALSE, !.grants = all]
<1>1. Granted(r) = n
  BY DEF Granted
<1>2. HeadsOf(all) = g
  <2>1. x.head = r.failedHead
    OBVIOUS
  <2> HIDE DEF x
  <2> QED BY <2>1 DEF HeadsOf
<1> HIDE DEF all
<1>3. /\ n.res = r.res /\ n.tx = r.tx /\ n.last = r.last /\ n.paused = FALSE
      /\ n.initial = r.initial /\ n.verification = r.verification
      /\ n.failedHead = r.failedHead /\ n.failed = r.failed /\ n.grants = all
  BY DEF Records
<1> HIDE DEF n
<1>4. LastResult(n) = LastResult(r)
  BY <1>3 DEF LastResult, Publishable
<1>5. Seen(n) = SeenGranted(Seen(r), FALSE, g)
  <2> DEFINE before == View(r.res, r.last, LastResult(r), r.initial, r.verification, r.failed,
                            r.failedHead, HeadsOf(r.grants), r.paused)
             no == FALSE
  <2>1. n.paused = no
    BY <1>3
  <2> HIDE DEF no
  <2>2. Seen(n) = View(r.res, r.last, LastResult(r), r.initial, r.verification,
                       r.failed, r.failedHead, g, no)
    BY <1>2, <1>3, <1>4, <2>1, SeenIs
  <2>3. SeenGranted(before, no, g) =
          View(r.res, r.last, LastResult(r), r.initial, r.verification,
               r.failed, r.failedHead, g, no)
    BY GrantedView
  <2>4. Seen(r) = before
    BY SeenIs
  <2> QED BY <2>2, <2>3, <2>4 DEF no
<1> QED BY <1>1, <1>5

-----------------------------------------------------------------------------
(* The session as single operations                                        *)

LEMMA SeenType ==
  ASSUME NEW r \in Records
  PROVE  Seen(r) \in Views /\ Seen(r) # None
<1>1. LastResult(r) \in [round : Ids, result : Results \cup {None}] \cup {None}
  BY DEF LastResult, Publishable, Records, Transactions
<1>2. /\ r.res \in Ids \cup {None} /\ r.last \in Ids \cup {None}
      /\ r.initial \in Nat /\ r.verification \in Nat /\ r.failed \in Nat
      /\ r.failedHead \in Heads \cup {None} /\ r.paused \in BOOLEAN
  BY CeilingAssumption, BudgetAssumption DEF Records
<1>3. HeadsOf(r.grants) \in SUBSET Heads
  BY DEF HeadsOf, Records
<1>4. Seen(r) \in Views
  BY <1>1, <1>2, <1>3 DEF Seen, Views
<1> QED BY <1>4, ViewsAssumption

LEMMA SessionIs ==
  ASSUME file # None, file \in Records
  PROVE  Session = Seen(file) /\ Session # None
BY SeenType DEF Session

LEMMA RunningAfter ==
  ASSUME IInv, NEW p \in Procs, NEW n, Become(p, n)
  PROVE  Running' = IF n.pc = "running" THEN Running \cup {p} ELSE Running \ {p}
BY BecomeIs DEF Running, IInv

\* An invocation that has the hold is the only one whose provider may run.
LEMMA NobodyElseRuns ==
  ASSUME Alone, NEW p \in Procs, Claims(proc[p], file)
  PROVE  Running \subseteq {p}
BY DEF Running, Alone, AloneOn, Keeping

\* A step that leaves the record alone ends an analysis, counts a failure or
\* is not seen.
LEMMA QuietStep ==
  ASSUME IInv, Alone, NEW p \in Procs, UNCHANGED <<file, enrolled, retired>>,
         \E n : Become(p, n) /\ n.pc # "running",
         \E n : Become(p, n) /\ Follows(p, n)
  PROVE  [Promise!Next]_(Promise!vars)
<1>1. PICK n : Become(p, n) /\ n.pc # "running"
  OBVIOUS
<1>2. Running' = Running \ {p}
  BY <1>1, RunningAfter
<1>3. Session' = Session
  BY DEF Session
<1>4. UNCHANGED <<attempts, interrupted>> \/ Counted
  BY DEF Follows
<1>5. attempts \in Nat /\ interrupted \in Nat
  BY DEF IInv, GoodHistory
<1> DEFINE f == attempts + interrupted
           l == retired + 1 - enrolled
<1>6. f' \in {f, f + 1} /\ (UNCHANGED <<attempts, interrupted>> => f' = f)
      /\ (Counted => f' = f + 1) /\ l' = l
  BY <1>4, <1>5 DEF Counted
<1>7. CASE p \in Running
  <2>1. Running = {p}
    BY <1>7, NobodyElseRuns DEF Running, Alone, AloneOn, Keeping
  <2>2. Promise!Stop
    BY <1>2, <1>3, <1>6, <2>1 DEF Promise!Stop
  <2> QED BY <2>2 DEF Promise!Next
<1>8. CASE p \notin Running
  <2>1. Running' = Running
    BY <1>2, <1>8
  <2>2. CASE Counted
    <3>1. Promise!Fail
      BY <1>3, <1>6, <2>1, <2>2 DEF Promise!Fail
    <3> QED BY <3>1 DEF Promise!Next
  <2>3. CASE UNCHANGED <<attempts, interrupted>>
    BY <1>3, <1>6, <2>1, <2>3 DEF Promise!vars
  <2> QED BY <1>4, <2>2, <2>3
<1> QED BY <1>7, <1>8

\* Only the end of an attach starts an analysis.
LEMMA QuietSteps ==
  ASSUME IInv, Steady, Current, Alone, Covered, NEW p \in Procs,
         \/ Start(p) \/ CreateWitness(p) \/ Load(p) \/ Fence(p) \/ Analyse(p)
         \/ AnalysisFails(p) \/ BaselineUnusable(p) \/ Cleanup(p)
         \/ IOError(p) \/ Interrupt(p) \/ Crash(p)
  PROVE  [Promise!Next]_(Promise!vars)
<1>0. Idle.pc # "running" /\ "running" \notin ReplacePcs
  BY DEF Idle, ReplacePcs
<1>1. UNCHANGED <<file, enrolled, retired>>
  <2>1. CASE IOError(p) \/ Interrupt(p) \/ Crash(p)
    BY <2>1, FaultIs DEF ledger
  <2> QED
    BY <2>1 DEF Start, CreateWitness, Load, Fence, Analyse, AnalysisFails, BaselineUnusable,
       Cleanup, ledger
<1>2. \E n : Become(p, n) /\ Follows(p, n)
  BY StartFollows, EnrolmentFollows, LoadFollows, FenceFollows, AnalyseFollows,
     FailureFollows, CleanupFollows, FaultFollows
<1>3. \E n : Become(p, n) /\ n.pc # "running"
  <2>1. CASE Start(p)
    BY <1>0, <2>1, StartIs, DecideIs
  <2>2. CASE CreateWitness(p)
    <3>1. Goto(p, "link") \/ Become(p, Idle)
      BY <2>2 DEF CreateWitness, End
    <3> QED BY <1>0, <3>1, GotoIs
  <2>3. CASE Load(p) \/ Fence(p)
    <3>1. PICK n : /\ Become(p, n)
                   /\ \/ Knows(proc[p], n) /\ proc[p].pc \in ReplacePcs
                      \/ Unwound(p, n, "error")
      <4>1. CASE Load(p)
        BY <4>1, LoadIs
      <4>2. CASE Fence(p)
        BY <4>2, FenceIs
      <4> QED BY <2>3, <4>1, <4>2
    <3>2. n.pc # "running"
      BY <1>0, <3>1 DEF Knows, Unwound
    <3> QED BY <3>1, <3>2
  <2>5. CASE Analyse(p)
    BY <2>5, AnalyseIs
  <2>6. CASE AnalysisFails(p) \/ BaselineUnusable(p)
    <3>1. CleanUp(p, TRUE) \/ CleanUp(p, FALSE)
      BY <2>6 DEF AnalysisFails, BaselineUnusable
    <3> QED BY <3>1, CleanUpIs
  <2>7. CASE Cleanup(p)
    BY <1>0, <2>7, CleanupIs
  <2>8. CASE IOError(p) \/ Interrupt(p) \/ Crash(p)
    BY <1>0, <2>8, FaultIs
  <2> QED BY <2>1, <2>2, <2>3, <2>5, <2>6, <2>7, <2>8
<1> QED BY <1>1, <1>2, <1>3, QuietStep

\* An analysis begins under a hold that is not a charge's, and alone.
LEMMA ReadBackStep ==
  ASSUME IInv, Backed, Current, Alone, Covered, NEW p \in Procs, ReadBack(p)
  PROVE  [Promise!Next]_(Promise!vars)
<1>1. /\ UNCHANGED <<file, enrolled, retired>> /\ proc[p].stage = "readback"
      /\ file # None /\ file = proc[p].new /\ Proceed(p) /\ UNCHANGED <<attempts, interrupted>>
  BY ReadBackIs DEF ledger, Current, CurrentOn, InReplace
<1>2. PICK n : /\ Become(p, n)
               /\ \/ n.pc # "running"
                  \/ proc[p].pc = "attach" /\ n.pc = "running"
  <2>1. Idle.pc # "running"
    BY DEF Idle
  <2> QED BY <1>1, <2>1, ProceedIs
<1>3. CASE n.pc # "running"
  BY <1>1, <1>2, <1>3, ReadBackFollows, QuietStep
<1>4. CASE proc[p].pc = "attach" /\ n.pc = "running"
  <2>1. Claims(proc[p], file) /\ GoodInvocation(proc[p])
    BY <1>1, <1>4 DEF Alone, AloneOn, Keeping, IInv, GoodProcs
  <2>2. file.res = proc[p].id /\ file.res # None /\ file \in Records
    BY <1>1, <1>4, <2>1, ClaimIsHold DEF Claims, Mine, IInv, GoodStore, GoodRecord
  <2>3. ~proc[p].id.charge
    BY <1>4 DEF Backed, BackedInvocation
  <2>4. Running = {}
    BY <1>4, <2>1, NobodyElseRuns DEF Running
  <2>5. Running' = {p}
    BY <1>2, <1>4, <2>4, RunningAfter
  <2>6. Session = Seen(file) /\ Session # None /\ Seen(file).hold = file.res
    BY <1>1, <2>2, SessionIs, SeenIs
  <2>7. Session' = Session
    BY <1>1 DEF Session
  <2>8. Promise!Begin(p)
    BY <1>1, <2>2, <2>3, <2>4, <2>5, <2>6, <2>7 DEF Promise!Begin, Promise!Analysed
  <2> QED BY <2>8 DEF Promise!Next
<1> QED BY <1>2, <1>3, <1>4

\* While the record is put in place or taken away no analysis runs.
LEMMA NobodyRuns ==
  ASSUME IInv, NEW p \in Procs, \E n : Become(p, n) /\ n.pc # "running",
         \A q \in Procs : proc[q].pc \in Enrolling \cup {"idle"}
  PROVE  Running = {} /\ Running' = {}
<1>1. Running = {}
  BY DEF Running, Enrolling
<1> QED BY <1>1, RunningAfter

LEMMA FreshSeen ==
  ASSUME NEW n \in Nat
  PROVE  Seen(Fresh(n)) = Promise!Afresh
<1> DEFINE r == Fresh(n)
<1>1. /\ r.res = None /\ r.tx = None /\ r.last = None /\ r.initial = 0 /\ r.verification = 0
      /\ r.failed = 0 /\ r.failedHead = None /\ r.grants = {} /\ r.paused = FALSE
  BY DEF Fresh
<1> HIDE DEF r
<1>2. LastResult(r) = None /\ HeadsOf(r.grants) = {}
  BY <1>1 DEF LastResult, Publishable, HeadsOf
<1>3. Seen(r) = Promise!Afresh
  BY <1>1, <1>2 DEF Seen, Promise!Afresh
<1> QED BY <1>3 DEF r

LEMMA LinkStep ==
  ASSUME IInv, Enrolment, Steady, Settled, Alone, Covered, NEW p \in Procs, LinkRecord(p)
  PROVE  [Promise!Next]_(Promise!vars)
<1>0. Idle.pc # "running" /\ GoodProcs
  BY DEF Idle, IInv
<1>1. CASE file # None
  <2>1. /\ UNCHANGED <<file, enrolled, retired, attempts, interrupted>> /\ Become(p, Idle)
    BY <1>1 DEF LinkRecord, End
  <2> QED BY <1>0, <2>1, IdleFollows, QuietStep
<1>2. CASE file = None
  <2> DEFINE r == Fresh(enrolled + 1)
  <2>1. /\ file' = r /\ enrolled' = enrolled + 1 /\ retired' = retired
        /\ attempts' = 0 /\ interrupted' = 0
        /\ Decide(p, proc[p], r) \/ Become(p, Idle)
        /\ proc[p].pc = "link" /\ proc[p] \in Invocations
    BY <1>0, <1>2 DEF LinkRecord, End, GoodProcs
  <2>2. enrolled \in Nat /\ retired \in Nat
    BY DEF IInv, GoodCounts
  <2>3. Seen(r) = Promise!Afresh
    BY <2>2, FreshSeen
  <2>4. r # None
    <3>1. GoodRecord(r)
      BY <2>2, FreshGood
    <3> QED BY <3>1, AbsentAssumption DEF GoodRecord
  <2> HIDE DEF r
  <2>5. \E n : Become(p, n) /\ n.pc # "running"
    BY <1>0, <2>1, DecideIs
  <2>6. Running = {} /\ Running' = {}
    BY <2>1, <2>5, NobodyReads, NobodyRuns
  <2>7. retired + 1 - enrolled > 0
    <3>1. p \in Linking /\ IsFiniteSet(Linking)
      BY <2>1 DEF Linking, Enrolment
    <3>2. Cardinality(Linking) \in Nat /\ Cardinality(Linking) # 0
      BY <3>1, FS_CardinalityType, FS_EmptySet
    <3> QED BY <2>2, <3>2 DEF Enrolment
  <2>8. Session = None /\ Session' = Promise!Afresh
    BY <1>2, <2>1, <2>3, <2>4 DEF Session
  <2>9. Promise!Enrol
    BY <2>1, <2>2, <2>6, <2>7, <2>8 DEF Promise!Enrol
  <2> QED BY <2>9 DEF Promise!Next
<1> QED BY <1>1, <1>2

LEMMA RetireStep ==
  ASSUME IInv, Alone, Covered, NEW p \in Procs, RetireWitness(p)
  PROVE  [Promise!Next]_(Promise!vars)
<1>1. /\ UNCHANGED <<file, enrolled, attempts, interrupted>> /\ proc[p].pc = "retire"
      /\ Goto(p, "unlink") /\ retired' = IF witness THEN retired + 1 ELSE retired
  BY DEF RetireWitness, history
<1>2. PICK n : Become(p, n) /\ n.pc = "unlink"
  BY <1>1, GotoIs
<1>3. CASE witness
  <2>1. Running' = Running
    BY <1>1, <1>2, RunningAfter DEF Running
  <2>2. Session' = Session
    BY <1>1 DEF Session
  <2>3. enrolled \in Nat /\ retired \in Nat
    BY DEF IInv, GoodCounts
  <2>4. Promise!License
    BY <1>1, <1>3, <2>1, <2>2, <2>3 DEF Promise!License
  <2> QED BY <2>4 DEF Promise!Next
<1>4. CASE ~witness
  <2>1. UNCHANGED <<file, enrolled, retired>>
    BY <1>1, <1>4
  <2> QED BY <1>2, <2>1, EnrolmentFollows, QuietStep
<1> QED BY <1>3, <1>4

LEMMA VanishStep ==
  ASSUME IInv, Enrolment, Steady, Settled,
         Delete \/ \E p \in Procs : UnlinkRecord(p)
  PROVE  [Promise!Next]_(Promise!vars)
<1>1. file' = None /\ UNCHANGED <<enrolled, retired, attempts, interrupted>>
  BY DEF Delete, UnlinkRecord, history
<1>2. Running = {} /\ Running' = {}
  <2>1. CASE Delete
    BY <2>1 DEF Delete, Running
  <2>2. ASSUME NEW p \in Procs, UnlinkRecord(p) PROVE Running = {} /\ Running' = {}
    <3>1. proc[p].pc = "unlink" /\ Goto(p, "witness")
      BY <2>2 DEF UnlinkRecord
    <3> QED BY <3>1, GotoIs, NobodyReads, NobodyRuns
  <2> QED BY <2>1, <2>2
<1>3. Session' = None
  BY <1>1 DEF Session
<1>4. Promise!Vanish
  BY <1>1, <1>2, <1>3 DEF Promise!Vanish
<1> QED BY <1>4 DEF Promise!Next

\* A write that changes the record: what is read of it, and what is counted.
WriteFacts(p) ==
  /\ file # None /\ GoodRecord(file) /\ file \in Records /\ file' # None /\ file' \in Records
  /\ proc[p].pc \in ReplacePcs /\ proc[p].stage = "write" /\ GoodInvocation(proc[p])
  /\ proc[p].id \in Ids
  /\ Accepts(proc[p], file) /\ file' = Outcome(proc[p], file)
  /\ Changed(proc[p], file, file')
  /\ UNCHANGED <<Running, enrolled, retired>>
  /\ Session = Seen(file) /\ Session # None /\ Session' = Seen(file')
  /\ IF file'.failedHead = file.failedHead
     THEN UNCHANGED <<attempts, interrupted>>
     ELSE attempts' = 0 /\ interrupted' = 0

LEMMA WriteFactsHold ==
  ASSUME IInv, Current, NEW p \in Procs, Write(p), file' # file
  PROVE  WriteFacts(p)
<1>1. /\ file # None /\ GoodRecord(file) /\ file \in Records /\ file' # None /\ file' \in Records
      /\ proc[p].pc \in ReplacePcs /\ proc[p].stage = "write" /\ GoodInvocation(proc[p])
      /\ proc[p].id \in Ids /\ Accepts(proc[p], file) /\ Changed(proc[p], file, file')
  BY WriteReplaces, AbsentAssumption DEF GoodRecord
<1>2. file' = Outcome(proc[p], file)
  BY WriteIs DEF Current, CurrentOn, InReplace
<1>3. Running' = Running
  <2>1. PICK n : Become(p, n) /\ n.pc = proc[p].pc
    BY WriteIs DEF Knows
  <2> QED BY <2>1, BecomeIs DEF Running, IInv
<1>4. UNCHANGED <<enrolled, retired>>
  BY WriteIs
<1>5. Session = Seen(file) /\ Session # None
  BY <1>1, SessionIs
<1>6. Session' = Seen(file')
  BY <1>1 DEF Session
<1>7. IF file'.failedHead = file.failedHead
      THEN UNCHANGED <<attempts, interrupted>>
      ELSE attempts' = 0 /\ interrupted' = 0
  BY <1>1, WriteCounts
<1> QED BY <1>1, <1>2, <1>3, <1>4, <1>5, <1>6, <1>7 DEF WriteFacts

\* A reservation, of a round or of a charge, takes a hold.
LEMMA HoldStep ==
  ASSUME IInv, NEW p \in Procs, WriteFacts(p),
         NEW id \in Ids, NEW slot \in Slots, NEW gen,
         file' = Reserved(file, id, slot), Opens(file, file', id, slot, gen)
  PROVE  /\ Promise!Hold(id) /\ id \in Promise!Rounds /\ Session'.hold = id /\ Session' # None
         /\ Promise!Free /\ Session.last # id
         /\ Promise!Head(id) = HeadOf[id.work]
<1>1. /\ Session = Seen(file) /\ Session # None /\ Session' = Seen(file')
      /\ file \in Records /\ file' \in Records
      /\ UNCHANGED <<Running, enrolled, retired>>
  BY DEF WriteFacts
<1>2. file.res = None /\ file.last # id /\ file'.res = id /\ file'.gen # file.gen
      /\ file'.failedHead = HeadOf[id.work]
  <2>1. file.gen \in Nat /\ file.gen + 1 # file.gen
    BY <1>1 DEF Records
  <2> QED BY <2>1 DEF Opens
<1>3. ~AlreadyReserved(file, id, slot)
  BY <1>2 DEF Reserved
<1> DEFINE h == HeadOf[id.work]
           failed == IF Session.head = h THEN Session.failed ELSE 0
<1>4. failed = IF file.failedHead = h THEN file.failed ELSE 0
  BY <1>1, SeenIs
<1>5. Session' = SeenHeld(Session, id, None, h, failed)
  BY <1>1, <1>3, <1>4, ReservedSeen
<1>6. (attempts + interrupted)' = IF Session.head = h THEN attempts + interrupted ELSE 0
  <2>1. Session.head = file.failedHead
    BY <1>1, SeenIs
  <2> QED BY <1>2, <2>1 DEF WriteFacts
<1>7. Promise!Head(id) = h /\ Promise!FailedFor(h) = failed
  BY DEF Promise!Head, Promise!FailedFor
<1>8. Promise!Hold(id)
  BY <1>1, <1>5, <1>6, <1>7 DEF Promise!Hold, SeenHeld
<1>9. Session.hold = None /\ Session.last # id /\ Session'.hold = id /\ Session' # None
  BY <1>1, <1>2, SeenIs, SeenType
<1> QED BY <1>1, <1>7, <1>8, <1>9 DEF Promise!Rounds, Promise!Free, Ids

\* An open grant and the count of the head are what the policy looks at.
LEMMA AdmitsWithinBudget ==
  ASSUME file # None, file \in Records, NEW id \in Ids, Admits(file, id)
  PROVE  ~Session.paused /\ Promise!WithinBudget(HeadOf[id.work])
<1> DEFINE h == HeadOf[id.work]
           n == FailedAttemptsForHead(file, h)
<1>1. /\ Session.paused = file.paused /\ Session.granted = HeadsOf(file.grants)
      /\ Session.head = file.failedHead /\ Session.failed = file.failed
  BY SessionIs, SeenIs
<1>2. ~file.paused /\ EffectiveFailed(file, h) < MaxFailed
  BY DEF Admits
<1>3. Promise!FailedFor(h) = n
  BY <1>1 DEF Promise!FailedFor, FailedAttemptsForHead
<1>4. OpenGrants(file, h) # {} => h \in Session.granted
  BY <1>1 DEF OpenGrants, HeadsOf
<1>5. n < MaxFailed \/ (n < Ceiling /\ OpenGrants(file, h) # {})
  BY <1>2 DEF EffectiveFailed
<1> QED BY <1>1, <1>2, <1>3, <1>4, <1>5 DEF Promise!WithinBudget

\* A reservation that is written takes the round up that was admitted.
LEMMA ReserveStep ==
  ASSUME IInv, Backed, Current, NEW p \in Procs, WriteFacts(p), proc[p].pc = "reserve"
  PROVE  Promise!Next
<1> DEFINE id == proc[p].id
<1>1. /\ Opens(file, file', id, proc[p].slot, proc[p].gen)
      /\ file' = Reserved(file, id, proc[p].slot) /\ file \in Records /\ file # None
      /\ id \in Ids /\ proc[p].slot \in Slots /\ proc[p].stage = "write"
  BY DEF WriteFacts, Changed, Outcome, GoodInvocation
<1>2. Admits(file, id)
  <2>1. Standing(proc[p], file)
    BY <1>1 DEF Current, CurrentOn, Entering
  <2>2. file.gen = proc[p].gen /\ file.gen \in Nat
    BY <1>1 DEF Opens, Records
  <2>3. ~(file.gen > proc[p].gen)
    BY <2>2
  <2> QED BY <1>1, <2>1, <2>3 DEF Standing
<1>3. ~id.charge
  BY DEF Backed, BackedInvocation
<1> HIDE DEF id
<1>4. /\ Promise!Hold(id) /\ id \in Promise!Rounds /\ Session'.hold = id /\ Session' # None
      /\ Promise!Free /\ Session.last # id /\ Promise!Head(id) = HeadOf[id.work]
  BY <1>1, HoldStep
<1>5. ~Session.paused /\ Promise!WithinBudget(HeadOf[id.work])
  BY <1>1, <1>2, AdmitsWithinBudget
<1>6. Promise!Admit(id)
  BY <1>3, <1>4, <1>5 DEF Promise!Admit
<1>7. Promise!TakeUp
  BY <1>4, <1>6 DEF Promise!TakeUp
<1> QED BY <1>7 DEF Promise!Next

\* The charge of a failure takes its hold where the round was given up.
LEMMA ChargeReserveStep ==
  ASSUME IInv, Alone, NEW p \in Procs, WriteFacts(p), proc[p].pc = "chargeReserve"
  PROVE  Promise!Next
<1> DEFINE id == ChargeId(proc[p].id)
<1>1. /\ Opens(file, file', id, "failed-attempt", proc[p].gen)
      /\ file' = Reserved(file, id, "failed-attempt") /\ file \in Records /\ file # None
      /\ proc[p].id \in Ids /\ proc[p].stage = "write"
  BY DEF WriteFacts, Changed, Outcome
<1>2. id \in Ids /\ id.charge /\ id.work = proc[p].id.work
  BY <1>1 DEF ChargeId, Ids
<1>3. Turn(proc[p], file)
  BY <1>1 DEF Turn, Opens, Entering
<1>4. file.tx = None /\ file.failedHead = HeadOf[id.work]
  BY <1>2, <1>3 DEF Alone, AloneOn
<1> HIDE DEF id
<1>5. /\ Promise!Hold(id) /\ id \in Promise!Rounds /\ Session'.hold = id /\ Session' # None
      /\ Promise!Free /\ Promise!Head(id) = HeadOf[id.work]
  BY <1>1, <1>2, HoldStep DEF Slots
<1>6. Session.result = None /\ Session.head = HeadOf[id.work]
  BY <1>1, <1>4, SessionIs, SeenIs DEF LastResult, Publishable
<1>7. Promise!HoldCharge(id)
  BY <1>2, <1>5, <1>6 DEF Promise!HoldCharge
<1>8. Promise!TakeUp
  BY <1>5, <1>7 DEF Promise!TakeUp
<1> QED BY <1>8 DEF Promise!Next

\* What is counted, when the head stays the same.
LEMMA SameCounts ==
  ASSUME NEW p \in Procs, WriteFacts(p), file'.failedHead = file.failedHead
  PROVE  /\ (attempts + interrupted)' = attempts + interrupted
         /\ (retired + 1 - enrolled)' = retired + 1 - enrolled
         /\ Running' = Running
BY DEF WriteFacts

\* The transaction of an analysis under way is not seen.
LEMMA AttachStep ==
  ASSUME NEW p \in Procs, WriteFacts(p), proc[p].pc = "attach"
  PROVE  UNCHANGED Promise!vars
<1>1. file' = Attached(file, proc[p].id) /\ file'.failedHead = file.failedHead
  BY DEF WriteFacts, Changed, Attaches, Outcome, SameBudget
<1>2. Session' = Session
  BY <1>1, AttachedSeen DEF WriteFacts
<1> QED BY <1>1, <1>2, SameCounts DEF Promise!vars

\* One that counts on its hold: what it holds, and whom it owes.
LEMMA HoldsIt ==
  ASSUME IInv, Backed, Alone, NEW p \in Procs, WriteFacts(p),
         proc[p].pc \in {"checkpoint", "abort"}
  PROVE  /\ Claims(proc[p], file) /\ file.res = proc[p].id /\ file.res # None
         /\ Running = {} /\ Promise!Analysed /\ Session.hold = proc[p].id
<1>1. Claims(proc[p], file) /\ proc[p].id \in Ids
  BY DEF WriteFacts, Alone, AloneOn, Keeping, Entering
<1>2. file.res = proc[p].id /\ file.res # None
  BY <1>1, AbsentAssumption DEF Claims, Mine
<1>3. ~proc[p].id.charge
  BY DEF Backed, BackedInvocation
<1>4. Running = {}
  BY <1>1, NobodyElseRuns DEF Running
<1>5. Session.hold = file.res /\ Session # None
  BY SeenIs DEF WriteFacts
<1> QED BY <1>1, <1>2, <1>3, <1>4, <1>5 DEF Promise!Analysed

LEMMA AbortStep ==
  ASSUME IInv, Backed, Alone, NEW p \in Procs, WriteFacts(p), proc[p].pc = "abort"
  PROVE  Promise!Next
<1>1. file' = Aborted(file) /\ file'.failedHead = file.failedHead
  BY DEF WriteFacts, Changed, Aborts, Outcome, SameBudget
<1>2. file.res # None /\ Running = {} /\ Promise!Analysed
  BY HoldsIt
<1>3. Session' = [Session EXCEPT !.hold = None]
  BY <1>1, <1>2, AbortedSeen DEF WriteFacts
<1>4. Promise!GiveUp
  BY <1>1, <1>2, <1>3, SameCounts DEF Promise!GiveUp
<1> QED BY <1>4 DEF Promise!Next

\* A debt is a failure that the count does not have yet.
LEMMA OwedIsCounted ==
  ASSUME IInv, Covered, NEW p \in Procs, WriteFacts(p), Owes(proc[p], file)
  PROVE  Session.failed < attempts + interrupted
<1>1. file.failed + 1 <= attempts + interrupted
  BY DebtIs DEF Covered, WriteFacts
<1>2. file.failed \in Nat /\ attempts \in Nat /\ interrupted \in Nat /\ Session.failed = file.failed
  BY SeenIs, BudgetAssumption DEF WriteFacts, Records, IInv, GoodHistory
<1> QED BY <1>1, <1>2

\* A checkpoint ends the round that was held, with the result it was held for.
LEMMA CheckpointStep ==
  ASSUME IInv, Backed, Alone, Covered, Chosen, NEW p \in Procs, WriteFacts(p),
         proc[p].pc = "checkpoint"
  PROVE  Promise!Next
<1> DEFINE result == proc[p].result
           id == proc[p].id
<1>1. /\ file' = Checkpointed(file, id, result) /\ Completes(proc[p], file, file')
      /\ CheckpointAccepts(file, id, proc[p].gen, result) /\ result \in Results
      /\ GoodRecord(file) /\ id \in Ids
  BY DEF WriteFacts, Changed, Outcome, Accepts, GoodInvocation
<1>2. /\ Claims(proc[p], file) /\ file.res # None /\ Running = {} /\ Promise!Analysed
      /\ Session.hold = id
  BY HoldsIt
<1>3. file.tx.phase # "publication_pending" /\ file.slot = RoundKind(file)
  <2>1. file # None /\ file.tx # None /\ file.tx.phase # "publication_pending"
    BY <1>1 DEF WriteFacts, Completes, Publishable
  <2>2. file.slot # "failed-attempt"
    BY <1>1, <2>1 DEF CheckpointAccepts
  <2> QED BY <1>2, <2>1, <2>2 DEF Chosen, RightKind
<1>4. file'.failedHead = file.failedHead
  BY <1>1 DEF Completes
<1>5. result.content \in Contents /\ result.complete \in BOOLEAN
      /\ result = [complete |-> result.complete, content |-> result.content]
  BY <1>1 DEF Results
<1>6. Session = Seen(file) /\ Session' = Seen(file') /\ file # None
  BY DEF WriteFacts
<1>7. Session.initial = file.initial /\ Session.verification = file.verification
      /\ Session.failed = file.failed
  BY <1>6, SeenIs
<1> DEFINE i == IF Session.initial = 0 THEN Promise!More(Session.initial, RoundCeiling)
                                       ELSE Session.initial
           v == IF Session.initial = 0 THEN Session.verification
                                       ELSE Promise!More(Session.verification, RoundCeiling)
           f == Promise!More(Session.failed, Ceiling)
           x == [round |-> id, result |-> result]
           whole == [complete |-> TRUE, content |-> result.content]
           part == [complete |-> FALSE, content |-> result.content]
<1>8. /\ i = IF file.initial = 0 THEN Promise!More(file.initial, RoundCeiling) ELSE file.initial
      /\ v = IF file.initial = 0 THEN file.verification
             ELSE Promise!More(file.verification, RoundCeiling)
      /\ f = Promise!More(file.failed, Ceiling)
  BY <1>7
<1> HIDE DEF i, v, f, x
<1>9. Session' = IF result.complete THEN SeenComplete(Session, None, id, x, i, v)
                                    ELSE SeenPartial(Session, None, id, x, f)
  <2>1. x = [round |-> id, result |-> result]
    BY DEF x
  <2> HIDE DEF result, id
  <2> QED BY <1>1, <1>3, <1>6, <1>8, <2>1, CheckpointedSeen
<1>10. CASE result.complete
  <2>1. x = [round |-> id, result |-> whole]
    BY <1>5, <1>10 DEF x
  <2>2. Session' = SeenComplete(Session, None, Session.hold, [round |-> Session.hold, result |-> whole],
                                i, v)
    BY <1>2, <1>9, <1>10, <2>1
  <2>3. Promise!Complete(result.content)
    BY <1>2, <1>4, <2>2, SameCounts DEF Promise!Complete, SeenComplete, i, v
  <2> QED BY <1>5, <2>3 DEF Promise!Next
<1>11. CASE ~result.complete
  <2>1. x = [round |-> id, result |-> part]
    BY <1>5, <1>11 DEF x
  <2>2. Session' = SeenPartial(Session, None, Session.hold, [round |-> Session.hold, result |-> part], f)
    BY <1>2, <1>9, <1>11, <2>1
  <2>3. Session.failed < attempts + interrupted
    <3>1. Owes(proc[p], file)
      BY <1>2, <1>11 DEF Owes, Charging, WriteFacts, Entering
    <3> QED BY <3>1, OwedIsCounted
  <2>4. Promise!Partial(result.content)
    BY <1>2, <1>4, <2>2, <2>3, SameCounts DEF Promise!Partial, SeenPartial, f
  <2> QED BY <1>5, <2>4 DEF Promise!Next
<1> QED BY <1>5, <1>10, <1>11

\* A charge is written for a failure that has been counted.
LEMMA ChargeCommitStep ==
  ASSUME IInv, Backed, Alone, Covered, NEW p \in Procs, WriteFacts(p),
         proc[p].pc = "chargeCommit"
  PROVE  Promise!Next
<1> DEFINE id == ChargeId(proc[p].id)
<1>1. /\ file' = Committed(file, id) /\ Charges(proc[p], file, file')
      /\ GoodRecord(file) /\ proc[p].id \in Ids /\ proc[p].stage = "write"
  BY DEF WriteFacts, Changed, Outcome
<1>2. id \in Ids /\ id.charge /\ id # None
  BY <1>1, AbsentAssumption DEF ChargeId, Ids
<1>3. file.res = id /\ file # None /\ Session = Seen(file) /\ Session' = Seen(file')
      /\ Session # None
  BY <1>1 DEF Charges, WriteFacts
<1>4. Owes(proc[p], file)
  <2>1. Claiming(proc[p], file)
    BY <1>1 DEF Claiming, Charges, Entering
  <2>2. Claims(proc[p], file)
    BY <1>3, <2>1 DEF Claims, Mine
  <2> QED BY <1>1, <2>2 DEF Owes, Charging, Entering
<1>5. Session.failed < attempts + interrupted
  BY <1>4, OwedIsCounted
<1>6. file.slot = "failed-attempt" /\ ~AlreadyCommitted(file, id)
  BY <1>2, <1>3 DEF Backed, BackedRecord, AlreadyCommitted
<1>7. file'.failedHead = file.failedHead
  BY <1>1 DEF Charges
<1> HIDE DEF id
<1> DEFINE f == Promise!More(Session.failed, Ceiling)
<1>8. f = Promise!More(file.failed, Ceiling) /\ Session.hold = id
  BY <1>3, SeenIs
<1> HIDE DEF f
<1>9. Session' = SeenCharged(Session, None, Session.hold, f)
  BY <1>1, <1>2, <1>3, <1>6, <1>8, CommittedSeen
<1>10. Promise!Charge
  BY <1>2, <1>3, <1>5, <1>7, <1>8, <1>9, SameCounts DEF Promise!Charge, SeenCharged, f
<1> QED BY <1>10 DEF Promise!Next

LEMMA PauseStep ==
  ASSUME NEW p \in Procs, WriteFacts(p), proc[p].pc = "pause"
  PROVE  Promise!Next
<1>1. file' = OperatorPaused(file, TRUE) /\ file'.failedHead = file.failedHead
  BY DEF WriteFacts, Changed, Commanded, SameBudget, Outcome
<1>2. Session' = [Session EXCEPT !.paused = TRUE] /\ Session # None
  BY <1>1, OperatorPausedSeen DEF WriteFacts
<1>3. Promise!Pause
  BY <1>1, <1>2, SameCounts DEF Promise!Pause
<1> QED BY <1>3 DEF Promise!Next

\* The record has not been taken since the command was decided on.
LEMMA ContinueStep ==
  ASSUME Chosen, NEW p \in Procs, WriteFacts(p), proc[p].pc = "unpause"
  PROVE  Promise!Next
<1>1. file' = OperatorPaused(file, FALSE) /\ file'.failedHead = file.failedHead
  BY DEF WriteFacts, Changed, Commanded, SameBudget, Outcome
<1>2. Session' = [Session EXCEPT !.paused = FALSE] /\ Session # None
  BY <1>1, OperatorPausedSeen DEF WriteFacts
<1>3. file.res = None
  BY DEF WriteFacts, Accepts, Chosen, ChosenOn, Entering
<1>4. Promise!Free
  BY <1>2, <1>3, SeenIs DEF Promise!Free, WriteFacts
<1>5. Promise!Continue
  BY <1>1, <1>2, <1>4, SameCounts DEF Promise!Continue
<1> QED BY <1>5 DEF Promise!Next

LEMMA GrantStep ==
  ASSUME NEW p \in Procs, WriteFacts(p), proc[p].pc = "grant"
  PROVE  Promise!Next
<1>1. /\ file' = Granted(file) /\ file'.failedHead = file.failedHead /\ GrantAccepts(file)
      /\ file \in Records /\ Session = Seen(file) /\ Session' = Seen(file') /\ Session # None
  BY DEF WriteFacts, Changed, Commanded, SameBudget, Outcome, Accepts
<1>2. Promise!Free
  BY <1>1, SeenIs DEF Promise!Free, GrantAccepts
<1>3. CASE OpenGrants(file, file.failedHead) # {}
  <2>1. Session' = [Session EXCEPT !.paused = FALSE]
    BY <1>1, <1>3, OperatorPausedSeen DEF Granted
  <2>2. Promise!Continue
    BY <1>1, <1>2, <2>1, SameCounts DEF Promise!Continue
  <2> QED BY <2>2 DEF Promise!Next
<1>4. CASE OpenGrants(file, file.failedHead) = {}
  <2> DEFINE g == Session.granted \cup {Session.head}
  <2>1. g = HeadsOf(file.grants) \cup {file.failedHead}
    BY <1>1, SeenIs
  <2> HIDE DEF g
  <2>2. Session' = SeenGranted(Session, FALSE, g)
    BY <1>1, <1>4, <2>1, GrantedSeen
  <2>3. Session.result = None
    BY <1>1, SeenIs DEF GrantAccepts, LastResult, Publishable
  <2>4. Session.head # None /\ Session.failed \in MaxFailed .. (Ceiling - 1)
    BY <1>1, <1>4, SeenIs DEF GrantAccepts
  <2>5. Promise!Grant
    BY <1>1, <1>2, <2>2, <2>3, <2>4, SameCounts DEF Promise!Grant, SeenGranted, g
  <2> QED BY <2>5 DEF Promise!Next
<1> QED BY <1>3, <1>4

\* The replaces, each as the operation that it is.
LEMMA WriteStep ==
  ASSUME IInv, Backed, Current, Alone, Covered, Chosen, NEW p \in Procs, Write(p)
  PROVE  [Promise!Next]_(Promise!vars)
<1>1. CASE file' = file
  <2>1. file # None
    BY WriteReplaces
  <2>2. UNCHANGED <<attempts, interrupted, enrolled, retired>>
    BY <1>1, <2>1, WriteCounts, WriteIs
  <2>3. Session' = Session
    BY <1>1 DEF Session
  <2>4. PICK n : Become(p, n) /\ n.pc = proc[p].pc
    BY WriteIs DEF Knows
  <2>5. Running' = Running
    BY <2>4, BecomeIs DEF Running, IInv
  <2> QED BY <2>2, <2>3, <2>5 DEF Promise!vars
<1>2. CASE file' # file
  <2>1. WriteFacts(p)
    BY <1>2, WriteFactsHold
  <2>2. proc[p].pc \in ReplacePcs
    BY <2>1 DEF WriteFacts
  <2> QED
    BY <2>1, <2>2, ReserveStep, ChargeReserveStep, AttachStep, CheckpointStep, AbortStep,
       ChargeCommitStep, PauseStep, ContinueStep, GrantStep DEF ReplacePcs
<1> QED BY <1>1, <1>2

LEMMA PromiseStep ==
  ASSUME IInv, Enrolment, Backed, Steady, Settled, Current, Alone, Covered, Chosen, [Next]_vars
  PROVE  [Promise!Next]_(Promise!vars)
<1>1. ASSUME NEW p \in Procs, Write(p) PROVE [Promise!Next]_(Promise!vars)
  BY <1>1, WriteStep
<1>2. ASSUME NEW p \in Procs,
             \/ Start(p) \/ CreateWitness(p) \/ Load(p) \/ Fence(p) \/ Analyse(p)
             \/ AnalysisFails(p) \/ BaselineUnusable(p) \/ Cleanup(p)
             \/ IOError(p) \/ Interrupt(p) \/ Crash(p)
      PROVE  [Promise!Next]_(Promise!vars)
  BY <1>2, QuietSteps
<1>3. ASSUME NEW p \in Procs, ReadBack(p) PROVE [Promise!Next]_(Promise!vars)
  BY <1>3, ReadBackStep
<1>4. ASSUME NEW p \in Procs, LinkRecord(p) \/ RetireWitness(p)
      PROVE  [Promise!Next]_(Promise!vars)
  BY <1>4, LinkStep, RetireStep
<1>5. ASSUME Delete \/ \E p \in Procs : UnlinkRecord(p)
      PROVE  [Promise!Next]_(Promise!vars)
  BY <1>5, VanishStep
<1>6. CASE Expire \/ UNCHANGED vars
  <2>1. UNCHANGED <<file, proc, enrolled, retired, attempts, interrupted>>
    BY <1>6 DEF Expire, vars, ledger, history
  <2>2. Session' = Session /\ Running' = Running
    BY <2>1 DEF Session, Running
  <2> QED BY <2>1, <2>2 DEF Promise!vars
<1> QED BY <1>1, <1>2, <1>3, <1>4, <1>5, <1>6 DEF Next

LEMMA PromiseInit == Init => Promise!Init
<1> SUFFICES ASSUME Init PROVE Promise!Init
  OBVIOUS
<1>1. Running = {}
  BY DEF Init, Running, Idle
<1>2. Session = None /\ attempts + interrupted = 0 /\ retired + 1 - enrolled = 1
  BY DEF Init, Session
<1> QED BY <1>1, <1>2 DEF Promise!Init

\* Four steps to a replace, generations, read-backs and cleanups come, for the
\* reader of the record, to operations that each take place at once: a round
\* is held within its budget before it is analysed, by one analysis at a time,
\* and the hold ends in its result, in nothing or in a charge that a failure of
\* its own backs (session.py, the round functions; disposition.py, the
\* commands; cli.py, admission, checkpoint and cleanup).
THEOREM SessionPromiseKept ==
  ASSUME OwnHolds
  PROVE  Spec => Promised
<1>1. OneRecord
  BY DEF OwnHolds, OneRecord
<1>2. Spec => []Chosen
  BY <1>1, Choices
<1>3. Spec => [](Settled /\ Current /\ Alone /\ Covered)
  BY Aloneness
<1>4. IInv /\ Enrolment /\ Backed /\ Steady /\ Settled /\ Current /\ Alone /\ Covered /\ Chosen
        /\ [Next]_vars => [Promise!Next]_(Promise!vars)
  BY PromiseStep
<1> QED BY <1>2, <1>3, <1>4, PromiseInit, Freshness, PTL DEF Spec, Promised, Promise!Spec
=============================================================================

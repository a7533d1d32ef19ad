-------------------------- MODULE LocalSessionProofs -------------------------
(***************************************************************************)
(* What holds of a local session ledger for every number of invocations,   *)
(* every interleaving of their replaces and every fault: the types, and    *)
(* that the stored record is always one its constructor accepts.           *)
(*                                                                         *)
(* Neither is inductive alone.  A record is stored by the Write step of a  *)
(* replace that computed it earlier, from a record that may be gone, so    *)
(* the invariant must speak of the record each replace is about to write,  *)
(* and of what an invocation remembers (its id, its slot, its result) for  *)
(* the transition it will compute next.                                    *)
(***************************************************************************)
EXTENDS LocalSession, TLAPS

GoodRecord(r) == r \in Records /\ WellFormed(r)

\* What an invocation remembers is enough for the transition it is about to
\* apply, and a record it has computed is well formed.
GoodInvocation(s) ==
  /\ s \in Invocations
  /\ s.pc # "idle" => s.id \in Ids
  /\ s.pc = "reserve" => s.slot \in Slots
  /\ s.pc = "checkpoint" => s.result \in Results
  /\ s.stage \in Stages => s.pc \in ReplacePcs
  /\ s.stage \in {"fence", "write", "readback"} => GoodRecord(s.new)

GoodStore == file = None \/ GoodRecord(file)

GoodProcs ==
  /\ proc \in [Procs -> Invocations]
  /\ \A p \in Procs : GoodInvocation(proc[p])

GoodCounts ==
  /\ witness \in BOOLEAN /\ expired \in BOOLEAN
  /\ starts \in 0..MaxStarts /\ enrolled \in Nat /\ retired \in Nat

GoodHistory ==
  /\ finished \subseteq [id : Ids, gen : Nat]
  /\ attempts \in Nat /\ interrupted \in Nat
  /\ holder \in Procs \cup {None}
  /\ leaked \in BOOLEAN

IInv == GoodStore /\ GoodProcs /\ GoodCounts /\ GoodHistory

-----------------------------------------------------------------------------
(* The transitions of the record                                           *)

\* A committed slot adds to one counter, which stays within its bound.
LEMMA ApplySlotType ==
  ASSUME NEW r \in Records, NEW slot \in Slots
  PROVE  /\ ApplySlot(r, slot) \in Records
         /\ ApplySlot(r, slot).tx = r.tx
<1>1. CASE slot = "initial"
  BY <1>1, CeilingAssumption DEF ApplySlot, AtMost, Records
<1>2. CASE slot = "verification"
  BY <1>2, CeilingAssumption DEF ApplySlot, AtMost, Records
<1>3. CASE slot = "failed-attempt"
  BY <1>3, BudgetAssumption DEF ApplySlot, AtMost, Records
<1> QED
  BY <1>1, <1>2, <1>3 DEF Slots

\* Scoping the failed attempts to a head touches only the budget.
LEMMA ScopeType ==
  ASSUME NEW r \in Records, NEW head \in Heads
  PROVE  /\ FailedAttemptScope(r, head) \in Records
         /\ FailedAttemptScope(r, head).last = r.last
<1>1. 0 \in 0..Ceiling
  BY BudgetAssumption
<1>2. CASE r.failedHead = head
  BY <1>2 DEF FailedAttemptScope
<1>3. CASE r.failedHead # head
  BY <1>1, <1>3 DEF FailedAttemptScope, Records
<1> QED
  BY <1>2, <1>3

LEMMA HeadOfWork ==
  ASSUME NEW id \in Ids
  PROVE  HeadOf[id.work] \in Heads
BY DEF Ids, Heads

\* A reservation of an id that is not the committed one yields a record whose
\* hold is accepted by the constructor.
LEMMA ReservedGood ==
  ASSUME NEW r, GoodRecord(r), NEW id \in Ids, NEW slot \in Slots, NEW gen,
         ReserveAccepts(r, id, slot, gen)
  PROVE  GoodRecord(Reserved(r, id, slot))
<1>1. CASE AlreadyReserved(r, id, slot)
  BY <1>1 DEF Reserved
<1>2. CASE ~AlreadyReserved(r, id, slot)
  <2> DEFINE h == HeadOf[id.work]
             s == FailedAttemptScope(r, h)
             g == s.gen + 1
             rest == s.grants \ OpenGrants(r, h)
             n == [s EXCEPT !.gen = g, !.res = id, !.slot = slot, !.tx = None,
                            !.grants = rest]
  <2>1. Reserved(r, id, slot) = n
    BY <1>2 DEF Reserved
  <2>2. s \in Records /\ s.last = r.last
    BY ScopeType, HeadOfWork DEF GoodRecord
  <2>3. r.last # id /\ id # None /\ slot # None
    BY <1>2, AbsentAssumption, NoneAssumption DEF AlreadyReserved, Slots
  <2> HIDE DEF s
  <2>0. g \in Nat /\ rest \in SUBSET [head : Heads, gen : Nat]
    BY <2>2 DEF Records
  <2> HIDE DEF g, rest
  <2>4. n \in Records
    BY <2>2, <2>0 DEF Records
  <2>5. n.res = id /\ n.slot = slot /\ n.tx = None /\ n.last = r.last
    BY <2>2 DEF Records
  <2> HIDE DEF n
  <2>6. WellFormed(n)
    BY <2>3, <2>5 DEF WellFormed
  <2> QED
    BY <2>1, <2>4, <2>6 DEF GoodRecord
<1> QED
  BY <1>1, <1>2

\* Attaching keeps the transaction tied to the hold.
LEMMA AttachedGood ==
  ASSUME NEW r, GoodRecord(r), NEW id \in Ids, NEW gen, AttachAccepts(r, id, gen)
  PROVE  GoodRecord(Attached(r, id))
<1>1. CASE r.tx # None
  BY <1>1 DEF Attached
<1>2. CASE r.tx = None
  <2> DEFINE t == [id |-> id, gen |-> r.gen, phase |-> "analysis", result |-> None]
             n == [r EXCEPT !.tx = t]
  <2>1. Attached(r, id) = n
    BY <1>2 DEF Attached
  <2>2. r \in Records /\ WellFormed(r) /\ r.res = id /\ id # None
    BY AbsentAssumption DEF GoodRecord, AttachAccepts
  <2>3. t \in Transactions
    BY <2>2 DEF Transactions, Records
  <2>4. n \in Records
    BY <2>2, <2>3 DEF Records
  <2>5. n.tx = t /\ n.res = id /\ n.slot = r.slot /\ n.last = r.last
    BY <2>2 DEF Records
  <2>6. t.phase = "analysis" /\ t.id = id
    OBVIOUS
  <2> HIDE DEF t, n
  <2>7. WellFormed(n)
    BY <2>2, <2>5, <2>6 DEF WellFormed
  <2> QED
    BY <2>1, <2>4, <2>7 DEF GoodRecord
<1> QED
  BY <1>1, <1>2

\* A commit releases the hold it settles.
LEMMA CommittedGood ==
  ASSUME NEW r, GoodRecord(r), NEW id \in Ids, NEW gen, CommitAccepts(r, id, gen)
  PROVE  GoodRecord(Committed(r, id))
<1>1. CASE AlreadyCommitted(r, id)
  BY <1>1 DEF Committed
<1>2. CASE ~AlreadyCommitted(r, id)
  <2> DEFINE s == ApplySlot(r, r.slot)
             g == s.gen + 1
             n == [s EXCEPT !.gen = g, !.res = None, !.slot = None, !.last = id]
  <2>1. Committed(r, id) = n
    BY <1>2 DEF Committed
  <2>2. r \in Records /\ WellFormed(r) /\ r.res = id /\ id # None /\ r.tx = None
    BY <1>2, AbsentAssumption DEF GoodRecord, CommitAccepts
  <2>3. r.slot \in Slots
    BY <2>2 DEF WellFormed, Records
  <2>4. s \in Records /\ s.tx = None
    BY <2>2, <2>3, ApplySlotType DEF Records
  <2>0. g \in Nat
    BY <2>4 DEF Records
  <2> HIDE DEF s, g
  <2>5. n \in Records
    BY <2>4, <2>0 DEF Records
  <2>6. n.tx = None /\ n.res = None /\ n.slot = None
    BY <2>4 DEF Records
  <2> HIDE DEF n
  <2>7. WellFormed(n)
    BY <2>6 DEF WellFormed
  <2> QED
    BY <2>1, <2>5, <2>7 DEF GoodRecord
<1> QED
  BY <1>1, <1>2

\* An abort leaves neither a hold nor its transaction.
LEMMA AbortedGood ==
  ASSUME NEW r, GoodRecord(r)
  PROVE  GoodRecord(Aborted(r))
<1>1. CASE r.res = None
  BY <1>1 DEF Aborted
<1>2. CASE r.res # None
  <2> DEFINE g == r.gen + 1
             n == [r EXCEPT !.gen = g, !.res = None, !.slot = None, !.tx = None]
  <2>1. Aborted(r) = n
    BY <1>2 DEF Aborted
  <2>0. g \in Nat
    BY DEF Records, GoodRecord
  <2> HIDE DEF g
  <2>2. n \in Records /\ n.tx = None /\ n.res = None /\ n.slot = None
    BY <2>0 DEF Records, GoodRecord
  <2> HIDE DEF n
  <2>3. WellFormed(n)
    BY <2>2 DEF WellFormed
  <2> QED
    BY <2>1, <2>2, <2>3 DEF GoodRecord
<1> QED
  BY <1>1, <1>2

\* A checkpoint settles the hold and hands its transaction over to the
\* publication.
LEMMA CheckpointedGood ==
  ASSUME NEW r, GoodRecord(r), NEW id \in Ids, NEW gen, NEW result \in Results,
         CheckpointAccepts(r, id, gen, result)
  PROVE  GoodRecord(Checkpointed(r, id, result))
<1>1. CASE r.tx.phase = "publication_pending"
  BY <1>1 DEF Checkpointed
<1>2. CASE r.tx.phase # "publication_pending"
  <2> DEFINE slot == IF result.complete THEN r.slot ELSE "failed-attempt"
             s == ApplySlot(r, slot)
             t == [id |-> id, gen |-> r.gen + 1, phase |-> "publication_pending",
                   result |-> result]
             g == s.gen + 1
             b == IF result.complete THEN id.work ELSE s.baseline
             n == [s EXCEPT !.gen = g, !.res = None, !.slot = None, !.last = id,
                            !.baseline = b, !.tx = t]
  <2>1. Checkpointed(r, id, result) = n
    BY <1>2 DEF Checkpointed
  <2>2. r \in Records /\ WellFormed(r) /\ r.res = id /\ id # None
    BY <1>2, AbsentAssumption DEF GoodRecord, CheckpointAccepts
  <2>3. slot \in Slots
    BY <2>2 DEF WellFormed, Records, Slots
  <2> HIDE DEF slot
  <2>4. s \in Records
    BY <2>2, <2>3, ApplySlotType
  <2>5. t \in Transactions
    BY <2>2 DEF Transactions, Records
  <2>6. t # None /\ t.phase = "publication_pending" /\ t.id = id
    BY <2>5, AbsentAssumption
  <2>7. g \in Nat /\ b \in Works \cup {None}
    BY <2>4 DEF Ids, Records
  <2> HIDE DEF s, t, g, b
  <2>8. n \in Records
    BY <2>4, <2>5, <2>7 DEF Records
  <2>9. n.tx = t /\ n.res = None /\ n.slot = None /\ n.last = id
    BY <2>4 DEF Records
  <2> HIDE DEF n
  <2>10. WellFormed(n)
    BY <2>6, <2>9 DEF WellFormed
  <2> QED
    BY <2>1, <2>8, <2>10 DEF GoodRecord
<1> QED
  BY <1>1, <1>2

\* Pausing and continuing leave the round alone.
LEMMA OperatorPausedGood ==
  ASSUME NEW r, GoodRecord(r), NEW paused \in BOOLEAN
  PROVE  GoodRecord(OperatorPaused(r, paused))
<1>1. CASE r.paused = paused
  BY <1>1 DEF OperatorPaused
<1>2. CASE r.paused # paused
  <2> DEFINE g == r.gen + 1
             n == [r EXCEPT !.gen = g, !.paused = paused]
  <2>1. OperatorPaused(r, paused) = n
    BY <1>2 DEF OperatorPaused
  <2>0. g \in Nat
    BY DEF Records, GoodRecord
  <2> HIDE DEF g
  <2>2. n \in Records
    BY <2>0 DEF Records, GoodRecord
  <2>3. n.tx = r.tx /\ n.res = r.res /\ n.slot = r.slot /\ n.last = r.last
    BY DEF Records, GoodRecord
  <2> HIDE DEF n
  <2>4. WellFormed(n)
    BY <2>3 DEF WellFormed, GoodRecord
  <2> QED
    BY <2>1, <2>2, <2>4 DEF GoodRecord
<1> QED
  BY <1>1, <1>2

\* A grant names the head whose budget is exhausted.
LEMMA GrantedGood ==
  ASSUME NEW r, GoodRecord(r), GrantAccepts(r)
  PROVE  GoodRecord(Granted(r))
<1>1. CASE OpenGrants(r, r.failedHead) # {}
  BY <1>1, OperatorPausedGood DEF Granted
<1>2. CASE OpenGrants(r, r.failedHead) = {}
  <2> DEFINE g == r.gen + 1
             all == r.grants \cup {[head |-> r.failedHead, gen |-> r.gen]}
             n == [r EXCEPT !.gen = g, !.paused = FALSE, !.grants = all]
  <2>1. Granted(r) = n
    BY <1>2 DEF Granted
  <2>2. r \in Records /\ WellFormed(r) /\ r.failedHead \in Heads
    BY DEF GoodRecord, GrantAccepts, Records
  <2>3. g \in Nat /\ all \in SUBSET [head : Heads, gen : Nat]
    BY <2>2 DEF Records
  <2> HIDE DEF g, all
  <2>4. n \in Records
    BY <2>2, <2>3 DEF Records
  <2>5. n.tx = r.tx /\ n.res = r.res /\ n.slot = r.slot /\ n.last = r.last
    BY <2>2 DEF Records
  <2> HIDE DEF n
  <2>6. WellFormed(n)
    BY <2>2, <2>5 DEF WellFormed
  <2> QED
    BY <2>1, <2>4, <2>6 DEF GoodRecord
<1> QED
  BY <1>1, <1>2

\* A new session starts from a record its constructor accepts.
LEMMA FreshGood ==
  ASSUME NEW n \in Nat
  PROVE  GoodRecord(Fresh(n))
<1>1. Fresh(n) \in Records
  BY BudgetAssumption, CeilingAssumption DEF Fresh, Records
<1>2. WellFormed(Fresh(n))
  BY DEF Fresh, WellFormed
<1> QED
  BY <1>1, <1>2 DEF GoodRecord

-----------------------------------------------------------------------------
(* The transition an invocation applies                                    *)

LEMMA ChargeIdType ==
  ASSUME NEW id \in Ids
  PROVE  ChargeId(id) \in Ids
BY DEF ChargeId, Ids

\* Whatever replace an invocation has reached, the record it computes from a
\* well-formed one is well formed.
LEMMA OutcomeGood ==
  ASSUME NEW s, GoodInvocation(s), s.pc \in ReplacePcs,
         NEW r, GoodRecord(r), Accepts(s, r)
  PROVE  GoodRecord(Outcome(s, r))
<1>0. s.id \in Ids /\ ChargeId(s.id) \in Ids
  BY ChargeIdType DEF GoodInvocation, ReplacePcs
<1>1. CASE s.pc = "reserve"
  <2>1. s.slot \in Slots /\ ReserveAccepts(r, s.id, s.slot, s.gen)
    BY <1>1 DEF GoodInvocation, Accepts
  <2> QED
    BY <1>0, <1>1, <2>1, ReservedGood DEF Outcome
<1>2. CASE s.pc = "attach"
  BY <1>0, <1>2, AttachedGood DEF Outcome, Accepts
<1>3. CASE s.pc = "checkpoint"
  <2>1. s.result \in Results /\ CheckpointAccepts(r, s.id, s.gen, s.result)
    BY <1>3 DEF GoodInvocation, Accepts
  <2> QED
    BY <1>0, <1>3, <2>1, CheckpointedGood DEF Outcome
<1>4. CASE s.pc = "abort"
  BY <1>4, AbortedGood DEF Outcome
<1>5. CASE s.pc = "chargeReserve"
  <2>1. ReserveAccepts(r, ChargeId(s.id), "failed-attempt", s.gen)
    BY <1>5 DEF Accepts
  <2>2. "failed-attempt" \in Slots
    BY DEF Slots
  <2> QED
    BY <1>0, <1>5, <2>1, <2>2, ReservedGood DEF Outcome
<1>6. CASE s.pc = "chargeCommit"
  BY <1>0, <1>6, CommittedGood DEF Outcome, Accepts
<1>7. CASE s.pc = "grant"
  BY <1>7, GrantedGood DEF Outcome, Accepts
<1>8. CASE s.pc \in {"pause", "unpause"}
  BY <1>8, OperatorPausedGood DEF Outcome
<1> QED
  BY <1>1, <1>2, <1>3, <1>4, <1>5, <1>6, <1>7, <1>8 DEF ReplacePcs

-----------------------------------------------------------------------------
(* What an invocation may become                                           *)

LEMMA BecomeGood ==
  ASSUME GoodProcs, NEW p \in Procs, NEW n, GoodInvocation(n), Become(p, n)
  PROVE  GoodProcs'
<1>1. n \in Invocations
  BY DEF GoodInvocation
<1>2. proc' \in [Procs -> Invocations]
  BY <1>1 DEF GoodProcs, Become
<1>3. ASSUME NEW q \in Procs PROVE GoodInvocation(proc'[q])
  BY DEF GoodProcs, Become
<1> QED
  BY <1>2, <1>3 DEF GoodProcs, GoodInvocation, GoodRecord, WellFormed, Invocations

LEMMA IdleGood == GoodInvocation(Idle)
BY StagesAssumption DEF GoodInvocation, Invocations, Idle, Pcs, Stages

LEMMA EndGood ==
  ASSUME GoodProcs, NEW p \in Procs, End(p)
  PROVE  GoodProcs'
BY IdleGood, BecomeGood DEF End

\* A replace may begin once what its transition needs is known.
LEMMA ReplaceGood ==
  ASSUME NEW s \in Invocations, s.id \in Ids, NEW pc \in ReplacePcs,
         pc = "reserve" => s.slot \in Slots,
         pc = "checkpoint" => s.result \in Results
  PROVE  GoodInvocation(Replace(s, pc))
<1> DEFINE n == Replace(s, pc)
<1>1. pc \in Pcs /\ "load" \in Stages /\ "load" \notin {"fence", "write", "readback"}
  BY DEF Pcs, Stages
<1>2. n \in Invocations
  BY <1>1 DEF Replace, Invocations
<1>3. n.pc = pc /\ n.stage = "load" /\ n.id = s.id /\ n.slot = s.slot /\ n.result = s.result
  BY DEF Replace, Invocations
<1> HIDE DEF n
<1>4. GoodInvocation(n)
  BY <1>1, <1>2, <1>3 DEF GoodInvocation
<1> QED
  BY <1>4 DEF n

\* Outside a replace only the id matters.
LEMMA OutsideGood ==
  ASSUME NEW n \in Invocations, n.id \in Ids, n.stage = None,
         n.pc \notin {"reserve", "checkpoint"}
  PROVE  GoodInvocation(n)
BY StagesAssumption DEF GoodInvocation, Stages

LEMMA GotoGood ==
  ASSUME GoodProcs, NEW p \in Procs, proc[p].pc # "idle",
         NEW pc \in {"witness", "link", "retire", "unlink"}, Goto(p, pc)
  PROVE  GoodProcs'
<1> DEFINE n == [proc[p] EXCEPT !.pc = pc, !.stage = None]
<1>1. proc[p] \in Invocations /\ proc[p].id \in Ids /\ pc \in Pcs
  BY DEF GoodProcs, GoodInvocation, Pcs
<1>2. n \in Invocations
  BY <1>1 DEF Invocations
<1>3. n.id = proc[p].id /\ n.stage = None /\ n.pc = pc
  BY <1>1 DEF Invocations
<1> HIDE DEF n
<1>4. GoodInvocation(n)
  BY <1>1, <1>2, <1>3, OutsideGood
<1> QED
  BY <1>4, BecomeGood DEF Goto, n

LEMMA CleanUpGood ==
  ASSUME GoodProcs, NEW p \in Procs, proc[p].pc # "idle",
         NEW charge \in BOOLEAN, CleanUp(p, charge)
  PROVE  GoodProcs'
<1> DEFINE n == [proc[p] EXCEPT !.pc = "cleanup", !.stage = None, !.charge = charge,
                                !.old = None, !.new = None]
<1>1. proc[p] \in Invocations /\ proc[p].id \in Ids /\ "cleanup" \in Pcs
  BY DEF GoodProcs, GoodInvocation, Pcs
<1>2. n \in Invocations
  BY <1>1 DEF Invocations
<1>3. n.id = proc[p].id /\ n.stage = None /\ n.pc = "cleanup"
  BY <1>1 DEF Invocations
<1> HIDE DEF n
<1>4. GoodInvocation(n)
  BY <1>1, <1>2, <1>3, OutsideGood
<1> QED
  BY <1>4, BecomeGood DEF CleanUp, n

LEMMA CountFailureGood ==
  ASSUME GoodHistory, NEW p \in Procs, NEW cause, CountFailure(p, cause)
  PROVE  attempts' \in Nat /\ interrupted' \in Nat
BY DEF GoodHistory, CountFailure

LEMMA UnwindGood ==
  ASSUME GoodProcs, GoodHistory, NEW p \in Procs, NEW cause, Unwind(p, cause)
  PROVE  GoodProcs' /\ attempts' \in Nat /\ interrupted' \in Nat
<1>1. CASE proc[p].pc = "checkpoint"
  <2>1. CleanUp(p, TRUE) /\ CountFailure(p, cause)
    BY <1>1 DEF Unwind
  <2> QED
    BY <1>1, <2>1, CleanUpGood, CountFailureGood
<1>2. CASE proc[p].pc # "checkpoint"
  <2>1. End(p) /\ UNCHANGED <<attempts, interrupted>>
    BY <1>2 DEF Unwind
  <2> QED
    BY <2>1, EndGood DEF GoodHistory
<1> QED
  BY <1>1, <1>2

-----------------------------------------------------------------------------
(* The decision on a loaded record                                         *)

LEMMA ReservationIdType ==
  ASSUME NEW r \in Records, NEW work \in Works
  PROVE  ReservationId(r, work) \in Ids
<1> DEFINE open == OpenGrants(r, HeadOf[work])
<1>1. CASE open = {} /\ SameAttempt(r, work)
  <2>1. r.tx \in Transactions
    BY <1>1 DEF SameAttempt, Records
  <2> QED
    BY <1>1, <2>1 DEF ReservationId, Transactions
<1>2. CASE open = {} /\ ~SameAttempt(r, work)
  BY <1>2 DEF ReservationId, Ids
<1>3. CASE open # {}
  <2>1. (CHOOSE g \in open : TRUE) \in open
    BY <1>3
  <2>2. open \subseteq [head : Heads, gen : Nat]
    BY DEF OpenGrants, Records
  <2>3. (CHOOSE g \in open : TRUE).gen \in Nat
    BY <2>1, <2>2
  <2> QED
    BY <1>3, <2>3 DEF ReservationId, Ids
<1> QED
  BY <1>1, <1>2, <1>3

LEMMA DecideReviewGood ==
  ASSUME GoodProcs, NEW p \in Procs, NEW s \in Invocations, s.id \in Ids,
         NEW r, GoodRecord(r), DecideReview(p, s, r)
  PROVE  GoodProcs'
<1> DEFINE id == ReservationId(r, s.id.work)
           kind == RoundKind(r)
           n == [s EXCEPT !.id = id, !.slot = kind, !.gen = r.gen]
<1>1. id \in Ids /\ kind \in Slots /\ r.gen \in Nat
  BY ReservationIdType DEF GoodRecord, Ids, RoundKind, Slots, Records
<1>2. CASE Admits(r, id)
  <2>1. Become(p, Replace(n, "reserve"))
    BY <1>2 DEF DecideReview
  <2> HIDE DEF id, kind
  <2>2. n \in Invocations /\ n.id = id /\ n.slot = kind
    BY <1>1 DEF Invocations
  <2> HIDE DEF n
  <2>3. GoodInvocation(Replace(n, "reserve"))
    BY <1>1, <2>2, ReplaceGood DEF ReplacePcs
  <2> QED
    BY <2>1, <2>3, BecomeGood
<1>3. CASE ~Admits(r, id)
  BY <1>3, IdleGood, BecomeGood DEF DecideReview
<1> QED
  BY <1>2, <1>3

LEMMA DecideCommandGood ==
  ASSUME GoodProcs, NEW p \in Procs, NEW s \in Invocations, s.id \in Ids,
         NEW r, GoodRecord(r), DecideCommand(p, s, r)
  PROVE  GoodProcs'
<1> DEFINE n == [s EXCEPT !.gen = r.gen]
<1>1. r.gen \in Nat
  BY DEF GoodRecord, Records
<1>2. n \in Invocations /\ n.id \in Ids
  BY <1>1 DEF Invocations
<1> HIDE DEF n
<1>3. /\ GoodInvocation(Replace(s, "grant"))
      /\ GoodInvocation(Replace(n, "pause"))
      /\ GoodInvocation(Replace(n, "unpause"))
  BY <1>2, ReplaceGood DEF ReplacePcs
<1>4. \/ Become(p, Idle)
      \/ Become(p, Replace(s, "grant"))
      \/ Become(p, Replace(n, "pause"))
      \/ Become(p, Replace(n, "unpause"))
  BY DEF DecideCommand, n
<1> QED
  BY <1>3, <1>4, IdleGood, BecomeGood

LEMMA DecideGood ==
  ASSUME GoodProcs, NEW p \in Procs, NEW s \in Invocations, s.id \in Ids,
         NEW r, GoodRecord(r), Decide(p, s, r)
  PROVE  GoodProcs'
<1>1. CASE s.task = "review"
  BY <1>1, DecideReviewGood DEF Decide
<1>2. CASE s.task = "reenroll"
  BY <1>2, EndGood DEF Decide
<1>3. CASE s.task \notin {"review", "reenroll"}
  BY <1>3, DecideCommandGood DEF Decide
<1> QED
  BY <1>1, <1>2, <1>3

-----------------------------------------------------------------------------
(* Every action keeps the invariant                                        *)

LEMMA LinkRecordGood ==
  ASSUME IInv, NEW p \in Procs, LinkRecord(p)
  PROVE  IInv'
<1>1. GoodInvocation(proc[p]) /\ proc[p] \in Invocations /\ proc[p].id \in Ids
  BY DEF IInv, GoodProcs, GoodInvocation, LinkRecord
<1>2. CASE file = None
  <2>1. file' = Fresh(enrolled + 1) /\ enrolled + 1 \in Nat /\ GoodRecord(Fresh(enrolled + 1))
    BY <1>2, FreshGood DEF IInv, GoodCounts, LinkRecord
  <2>2. Decide(p, proc[p], Fresh(enrolled + 1)) \/ End(p)
    BY <1>2 DEF LinkRecord
  <2>3. GoodProcs'
    BY <1>1, <2>1, <2>2, DecideGood, EndGood DEF IInv
  <2>4. GoodStore'
    BY <2>1 DEF GoodStore, GoodRecord, WellFormed
  <2>5. expired' = FALSE /\ enrolled' \in Nat /\ UNCHANGED <<witness, starts, retired>>
    BY <1>2, <2>1 DEF LinkRecord
  <2>6. GoodCounts'
    BY <2>5 DEF IInv, GoodCounts
  <2>7. /\ attempts' = 0 /\ interrupted' = 0 /\ leaked' = FALSE
        /\ UNCHANGED <<finished, holder>>
    BY <1>2 DEF LinkRecord
  <2>8. GoodHistory'
    BY <2>7 DEF IInv, GoodHistory
  <2> QED
    BY <2>3, <2>4, <2>6, <2>8 DEF IInv
<1>3. CASE file # None
  <2>1. End(p) /\ UNCHANGED <<ledger, starts, history>>
    BY <1>3 DEF LinkRecord, ledger, history
  <2>2. GoodProcs'
    BY <2>1, EndGood DEF IInv
  <2> QED
    BY <2>1, <2>2 DEF IInv, GoodStore, GoodCounts, GoodHistory, ledger, history
<1> QED
  BY <1>2, <1>3

LEMMA StartGood ==
  ASSUME IInv, NEW p \in Procs, Start(p)
  PROVE  IInv'
<1>1. PICK task \in Tasks, work \in Works :
        LET s == [Idle EXCEPT !.task = task,
                              !.id = [work |-> work, grant |-> 0, charge |-> FALSE]]
        IN  \/ task # "reenroll" /\ Readable /\ Decide(p, s, file)
            \/ task # "reenroll" /\ Missing /\ Become(p, [s EXCEPT !.pc = "witness"])
            \/ /\ task = "reenroll"
               /\ expired \/ (file = None /\ witness)
               /\ Become(p, [s EXCEPT !.pc = "retire"])
  BY DEF Start
<1> DEFINE id == [work |-> work, grant |-> 0, charge |-> FALSE]
           s == [Idle EXCEPT !.task = task, !.id = id]
<1>2. id \in Ids
  BY DEF Ids
<1> HIDE DEF id
<1>3. Idle \in Invocations
  BY IdleGood DEF GoodInvocation
<1>4. s \in Invocations /\ s.id \in Ids /\ s.stage = None
  BY <1>2, <1>3 DEF Invocations, Idle
<1>5. \/ Readable /\ Decide(p, s, file)
      \/ Become(p, [s EXCEPT !.pc = "witness"])
      \/ Become(p, [s EXCEPT !.pc = "retire"])
  BY <1>1 DEF id
<1> HIDE DEF s
<1>6. ASSUME NEW pc \in {"witness", "retire"} PROVE GoodInvocation([s EXCEPT !.pc = pc])
  <2> DEFINE n == [s EXCEPT !.pc = pc]
  <2>1. n \in Invocations /\ n.pc = pc /\ n.id \in Ids /\ n.stage = None
    BY <1>4 DEF Invocations, Pcs
  <2> HIDE DEF n
  <2>2. GoodInvocation(n)
    BY <2>1, OutsideGood
  <2> QED
    BY <2>2 DEF n
<1>7. Readable => GoodRecord(file)
  BY DEF Readable, IInv, GoodStore
<1>8. GoodProcs'
  BY <1>4, <1>5, <1>6, <1>7, DecideGood, BecomeGood DEF IInv
<1>9. GoodCounts'
  BY BoundAssumption DEF IInv, GoodCounts, Start, ledger
<1> QED
  BY <1>8, <1>9 DEF IInv, Start, GoodStore, GoodHistory, ledger, history

LEMMA EnrolmentGood ==
  ASSUME IInv, NEW p \in Procs,
         CreateWitness(p) \/ RetireWitness(p) \/ UnlinkRecord(p)
  PROVE  IInv'
<1>1. CASE CreateWitness(p)
  <2>1. GoodProcs'
    BY <1>1, GotoGood, EndGood DEF CreateWitness, IInv
  <2>2. GoodCounts'
    BY <1>1 DEF CreateWitness, IInv, GoodCounts
  <2> QED
    BY <1>1, <2>1, <2>2 DEF CreateWitness, IInv, GoodStore, GoodHistory, history
<1>2. CASE RetireWitness(p)
  <2>1. GoodProcs'
    BY <1>2, GotoGood DEF RetireWitness, IInv
  <2>2. retired' \in Nat
    BY <1>2 DEF RetireWitness, IInv, GoodCounts
  <2>3. GoodCounts'
    BY <1>2, <2>2 DEF RetireWitness, IInv, GoodCounts
  <2> QED
    BY <1>2, <2>1, <2>3 DEF RetireWitness, IInv, GoodStore, GoodHistory, history
<1>3. CASE UnlinkRecord(p)
  <2>1. GoodProcs'
    BY <1>3, GotoGood DEF UnlinkRecord, IInv
  <2>2. GoodCounts'
    BY <1>3 DEF UnlinkRecord, IInv, GoodCounts
  <2> QED
    BY <1>3, <2>1, <2>2 DEF UnlinkRecord, IInv, GoodStore, GoodHistory, history
<1> QED
  BY <1>1, <1>2, <1>3

\* Within a replace only the stage and the two records change.
LEMMA StageGood ==
  ASSUME GoodProcs, NEW p \in Procs, proc[p].pc \in ReplacePcs,
         NEW stage \in {"fence", "write", "readback"},
         NEW old \in Records \cup {None}, NEW new, GoodRecord(new)
  PROVE  GoodInvocation([proc[p] EXCEPT !.stage = stage, !.old = old, !.new = new])
<1> DEFINE n == [proc[p] EXCEPT !.stage = stage, !.old = old, !.new = new]
<1>1. GoodInvocation(proc[p]) /\ proc[p] \in Invocations /\ new \in Records
  BY DEF GoodProcs, GoodInvocation, GoodRecord
<1>2. n \in Invocations
  BY <1>1 DEF Invocations, Stages
<1>3. /\ n.pc = proc[p].pc /\ n.id = proc[p].id /\ n.slot = proc[p].slot
      /\ n.result = proc[p].result /\ n.new = new
  BY <1>1 DEF Invocations
<1> HIDE DEF n
<1>4. GoodInvocation(n)
  BY <1>1, <1>2, <1>3 DEF GoodInvocation
<1> QED
  BY <1>4 DEF n

LEMMA LoadGood ==
  ASSUME IInv, NEW p \in Procs, Load(p)
  PROVE  IInv'
<1>1. GoodInvocation(proc[p]) /\ proc[p].pc \in ReplacePcs
  BY DEF IInv, GoodProcs, GoodInvocation, Load, Stages
<1>2. CASE Readable /\ Accepts(proc[p], file)
  <2>1. file \in Records /\ GoodRecord(file)
    BY <1>2 DEF Readable, IInv, GoodStore, GoodRecord
  <2>2. GoodRecord(Outcome(proc[p], file))
    BY <1>1, <1>2, <2>1, OutcomeGood
  <2>3. /\ Become(p, [proc[p] EXCEPT !.stage = "fence", !.old = file,
                                     !.new = Outcome(proc[p], file)])
        /\ UNCHANGED history
    BY <1>2 DEF Load
  <2>4. GoodProcs'
    BY <1>1, <2>1, <2>2, <2>3, StageGood, BecomeGood DEF IInv
  <2> QED
    BY <2>3, <2>4 DEF Load, IInv, GoodStore, GoodCounts, GoodHistory, ledger, history
<1>3. CASE ~(Readable /\ Accepts(proc[p], file))
  <2>1. Unwind(p, "error") /\ UNCHANGED <<finished, holder, leaked>>
    BY <1>3 DEF Load
  <2>2. GoodProcs' /\ attempts' \in Nat /\ interrupted' \in Nat
    BY <2>1, UnwindGood DEF IInv
  <2> QED
    BY <2>1, <2>2 DEF Load, IInv, GoodStore, GoodCounts, GoodHistory, ledger
<1> QED
  BY <1>2, <1>3

LEMMA FenceGood ==
  ASSUME IInv, NEW p \in Procs, Fence(p)
  PROVE  IInv'
<1>1. /\ GoodInvocation(proc[p]) /\ proc[p].pc \in ReplacePcs
      /\ GoodRecord(proc[p].new) /\ proc[p] \in Invocations
  BY DEF IInv, GoodProcs, GoodInvocation, Fence, Stages
<1>2. CASE file = proc[p].old
  <2> DEFINE n == [proc[p] EXCEPT !.stage = "write"]
  <2>1. Become(p, n) /\ UNCHANGED history
    BY <1>2 DEF Fence
  <2>2. n \in Invocations
    BY <1>1 DEF Invocations, Stages
  <2>3. /\ n.pc = proc[p].pc /\ n.id = proc[p].id /\ n.slot = proc[p].slot
        /\ n.result = proc[p].result /\ n.new = proc[p].new
    BY <1>1 DEF Invocations
  <2> HIDE DEF n
  <2>4. GoodInvocation(n)
    BY <1>1, <2>2, <2>3 DEF GoodInvocation
  <2>5. GoodProcs'
    BY <2>1, <2>4, BecomeGood DEF IInv
  <2> QED
    BY <2>1, <2>5 DEF Fence, IInv, GoodStore, GoodCounts, GoodHistory, ledger, history
<1>3. CASE file # proc[p].old
  <2>1. Unwind(p, "error") /\ UNCHANGED <<finished, holder, leaked>>
    BY <1>3 DEF Fence
  <2>2. GoodProcs' /\ attempts' \in Nat /\ interrupted' \in Nat
    BY <2>1, UnwindGood DEF IInv
  <2> QED
    BY <2>1, <2>2 DEF Fence, IInv, GoodStore, GoodCounts, GoodHistory, ledger
<1> QED
  BY <1>2, <1>3

LEMMA WriteGood ==
  ASSUME IInv, NEW p \in Procs, Write(p)
  PROVE  IInv'
<1>1. /\ GoodInvocation(proc[p]) /\ proc[p].pc \in ReplacePcs
      /\ GoodRecord(proc[p].new) /\ proc[p] \in Invocations
  BY DEF IInv, GoodProcs, GoodInvocation, Write, Stages
<1> DEFINE n == [proc[p] EXCEPT !.stage = "readback"]
<1>2. file' = proc[p].new /\ Become(p, n)
  BY DEF Write
<1>3. n \in Invocations
  BY <1>1 DEF Invocations, Stages
<1>4. /\ n.pc = proc[p].pc /\ n.id = proc[p].id /\ n.slot = proc[p].slot
      /\ n.result = proc[p].result /\ n.new = proc[p].new
  BY <1>1 DEF Invocations
<1> HIDE DEF n
<1>5. GoodInvocation(n)
  BY <1>1, <1>3, <1>4 DEF GoodInvocation
<1>6. GoodProcs'
  BY <1>2, <1>5, BecomeGood DEF IInv
<1>7. GoodStore'
  BY <1>1, <1>2 DEF GoodStore, GoodRecord, WellFormed
<1>8. attempts' \in Nat /\ interrupted' \in Nat
  BY DEF Write, IInv, GoodHistory
<1>9. holder' \in Procs \cup {None}
  BY DEF Write, IInv, GoodHistory
<1> QED
  BY <1>6, <1>7, <1>8, <1>9 DEF Write, IInv, GoodCounts, GoodHistory

LEMMA ProceedGood ==
  ASSUME GoodProcs, NEW p \in Procs, proc[p].stage = "readback", Proceed(p)
  PROVE  GoodProcs'
<1> DEFINE gen == proc[p].new.gen
           s == [proc[p] EXCEPT !.gen = gen, !.old = None, !.new = None]
           run == [s EXCEPT !.pc = "running", !.stage = None]
<1>1. /\ GoodInvocation(proc[p]) /\ proc[p] \in Invocations /\ proc[p].id \in Ids
      /\ proc[p].pc \in ReplacePcs
      /\ gen \in Nat
  BY DEF GoodProcs, GoodInvocation, Stages, GoodRecord, Records, ReplacePcs
<1>2. \/ Become(p, Replace(s, "attach"))
      \/ Become(p, run)
      \/ Become(p, Replace(s, "chargeReserve"))
      \/ Become(p, Replace(s, "chargeCommit"))
      \/ Become(p, Idle)
  <2>1. s.pc = proc[p].pc
    BY <1>1 DEF Invocations
  <2> HIDE DEF run
  <2> QED
    BY <1>1, <2>1 DEF Proceed, run, ReplacePcs
<1> HIDE DEF gen
<1>3. s \in Invocations /\ s.id \in Ids
  BY <1>1 DEF Invocations
<1> HIDE DEF s
<1>4. run \in Invocations /\ run.id \in Ids /\ run.stage = None /\ run.pc = "running"
  BY <1>3 DEF Invocations, Pcs
<1> HIDE DEF run
<1>5. GoodInvocation(run)
  BY <1>4, OutsideGood
<1>6. /\ GoodInvocation(Replace(s, "attach"))
      /\ GoodInvocation(Replace(s, "chargeReserve"))
      /\ GoodInvocation(Replace(s, "chargeCommit"))
  BY <1>3, ReplaceGood DEF ReplacePcs
<1> QED
  BY <1>2, <1>5, <1>6, IdleGood, BecomeGood

LEMMA ReadBackGood ==
  ASSUME IInv, NEW p \in Procs, ReadBack(p)
  PROVE  IInv'
<1>1. CASE file = proc[p].new
  <2>1. Proceed(p) /\ UNCHANGED history
    BY <1>1 DEF ReadBack
  <2>2. GoodProcs'
    BY <2>1, ProceedGood DEF ReadBack, IInv
  <2> QED
    BY <2>1, <2>2 DEF ReadBack, IInv, GoodStore, GoodCounts, GoodHistory, ledger, history
<1>2. CASE file # proc[p].new
  <2>1. Unwind(p, "error") /\ UNCHANGED <<finished, holder, leaked>>
    BY <1>2 DEF ReadBack
  <2>2. GoodProcs' /\ attempts' \in Nat /\ interrupted' \in Nat
    BY <2>1, UnwindGood DEF IInv
  <2> QED
    BY <2>1, <2>2 DEF ReadBack, IInv, GoodStore, GoodCounts, GoodHistory, ledger
<1> QED
  BY <1>1, <1>2

LEMMA AnalyseGood ==
  ASSUME IInv, NEW p \in Procs, Analyse(p)
  PROVE  IInv'
<1>1. PICK result \in Results :
        /\ Become(p, Replace([proc[p] EXCEPT !.result = result], "checkpoint"))
        /\ finished' = IF result.complete
                       THEN finished \cup {[id |-> proc[p].id, gen |-> proc[p].gen]}
                       ELSE finished
        /\ attempts' = IF result.complete THEN attempts ELSE attempts + 1
  BY DEF Analyse
<1> DEFINE n == [proc[p] EXCEPT !.result = result]
<1>2. proc[p] \in Invocations /\ proc[p].id \in Ids /\ proc[p].gen \in Nat
  BY DEF Analyse, IInv, GoodProcs, GoodInvocation, Invocations
<1>3. n \in Invocations /\ n.id \in Ids /\ n.result \in Results
  BY <1>2 DEF Invocations
<1>4. Become(p, Replace(n, "checkpoint"))
  BY <1>1
<1> HIDE DEF n
<1>5. GoodInvocation(Replace(n, "checkpoint"))
  BY <1>3, ReplaceGood DEF ReplacePcs
<1>6. GoodProcs'
  BY <1>4, <1>5, BecomeGood DEF IInv
<1>7. attempts' \in Nat
  BY <1>1 DEF IInv, GoodHistory
<1>8. finished' \subseteq [id : Ids, gen : Nat]
  BY <1>1, <1>2 DEF IInv, GoodHistory
<1> QED
  BY <1>6, <1>7, <1>8 DEF Analyse, IInv, GoodStore, GoodCounts, GoodHistory, ledger

LEMMA FailureGood ==
  ASSUME IInv, NEW p \in Procs, AnalysisFails(p) \/ BaselineUnusable(p)
  PROVE  IInv'
<1>1. CASE AnalysisFails(p)
  <2>1. GoodProcs' /\ attempts' \in Nat /\ interrupted' \in Nat
    BY <1>1, CleanUpGood, CountFailureGood DEF AnalysisFails, IInv
  <2> QED
    BY <1>1, <2>1 DEF AnalysisFails, IInv, GoodStore, GoodCounts, GoodHistory, ledger
<1>2. CASE BaselineUnusable(p)
  <2>1. GoodProcs'
    BY <1>2, CleanUpGood DEF BaselineUnusable, IInv
  <2> QED
    BY <1>2, <2>1
    DEF BaselineUnusable, IInv, GoodStore, GoodCounts, GoodHistory, ledger, history
<1> QED
  BY <1>1, <1>2

LEMMA CleanupGood ==
  ASSUME IInv, NEW p \in Procs, Cleanup(p)
  PROVE  IInv'
<1>1. CASE Readable /\ Owned(p)
  <2> DEFINE gen == file.gen
             n == [proc[p] EXCEPT !.gen = gen]
  <2>1. Become(p, Replace(n, "abort"))
    BY <1>1 DEF Cleanup
  <2>2. gen \in Nat /\ proc[p] \in Invocations /\ proc[p].id \in Ids
    BY <1>1 DEF Readable, Cleanup, IInv, GoodStore, GoodRecord, Records, GoodProcs, GoodInvocation
  <2> HIDE DEF gen
  <2>3. n \in Invocations /\ n.id \in Ids
    BY <2>2 DEF Invocations
  <2> HIDE DEF n
  <2>4. GoodInvocation(Replace(n, "abort"))
    BY <2>3, ReplaceGood DEF ReplacePcs
  <2>5. GoodProcs'
    BY <2>1, <2>4, BecomeGood DEF IInv
  <2> QED
    BY <2>5 DEF Cleanup, IInv, GoodStore, GoodCounts, GoodHistory, ledger, history
<1>2. CASE ~(Readable /\ Owned(p))
  <2>1. GoodProcs'
    BY <1>2, EndGood DEF Cleanup, IInv
  <2> QED
    BY <2>1 DEF Cleanup, IInv, GoodStore, GoodCounts, GoodHistory, ledger, history
<1> QED
  BY <1>1, <1>2

LEMMA FaultGood ==
  ASSUME IInv, NEW p \in Procs, IOError(p) \/ Interrupt(p) \/ Crash(p)
  PROVE  IInv'
<1>0. Held \in BOOLEAN /\ leaked \in BOOLEAN
  BY DEF Held, IInv, GoodHistory
<1>1. CASE IOError(p)
  <2>1. GoodProcs' /\ attempts' \in Nat /\ interrupted' \in Nat
    BY <1>1, UnwindGood DEF IOError, IInv
  <2>2. leaked' \in BOOLEAN
    BY <1>1 DEF IOError, Leaves
  <2> QED
    BY <1>1, <2>1, <2>2 DEF IOError, IInv, GoodStore, GoodCounts, GoodHistory, ledger
<1>2. CASE Interrupt(p)
  <2>1. CASE proc[p].pc = "running"
    <3>1. GoodProcs'
      BY <1>2, <2>1, CleanUpGood DEF Interrupt, IInv
    <3> QED
      BY <1>2, <2>1, <3>1
      DEF Interrupt, IInv, GoodStore, GoodCounts, GoodHistory, ledger
  <2>2. CASE proc[p].pc # "running"
    <3>1. Unwind(p, "interrupt") /\ Leaves(p)
      BY <1>2, <2>2 DEF Interrupt
    <3>2. GoodProcs' /\ attempts' \in Nat /\ interrupted' \in Nat
      BY <3>1, UnwindGood DEF IInv
    <3>3. leaked' \in BOOLEAN
      BY <3>1 DEF Leaves
    <3> QED
      BY <1>2, <3>2, <3>3 DEF Interrupt, IInv, GoodStore, GoodCounts, GoodHistory, ledger
  <2> QED
    BY <2>1, <2>2
<1>3. CASE Crash(p)
  <2>1. GoodProcs'
    BY <1>3, EndGood DEF Crash, IInv
  <2>2. leaked' \in BOOLEAN
    BY <1>3 DEF Crash
  <2> QED
    BY <1>3, <2>1, <2>2 DEF Crash, IInv, GoodStore, GoodCounts, GoodHistory, ledger
<1> QED
  BY <1>1, <1>2, <1>3

LEMMA EnvironmentGood ==
  ASSUME IInv, Expire \/ Delete \/ UNCHANGED vars
  PROVE  IInv'
<1> USE DEF IInv, GoodStore, GoodRecord, WellFormed, GoodProcs, GoodInvocation,
            GoodCounts, GoodHistory
<1>1. CASE Expire
  BY <1>1 DEF Expire, history
<1>2. CASE Delete
  BY <1>2 DEF Delete, history
<1>3. CASE UNCHANGED vars
  BY <1>3 DEF vars, ledger, history
<1> QED
  BY <1>1, <1>2, <1>3

-----------------------------------------------------------------------------
(* The theorems                                                            *)

LEMMA InitGood == Init => IInv
<1> SUFFICES ASSUME Init PROVE IInv
  OBVIOUS
<1>1. Idle \in Invocations
  BY IdleGood DEF GoodInvocation
<1>2. GoodProcs
  BY <1>1, IdleGood DEF Init, GoodProcs
<1>3. GoodCounts
  <2>1. 0 \in 0..MaxStarts
    BY BoundAssumption
  <2>2. /\ witness = FALSE /\ expired = FALSE
        /\ starts = 0 /\ enrolled = 0 /\ retired = 0
    BY DEF Init
  <2> QED
    BY <2>1, <2>2 DEF GoodCounts
<1>4. GoodHistory
  <2>1. /\ finished = {} /\ attempts = 0 /\ interrupted = 0
        /\ holder = None /\ leaked = FALSE
    BY DEF Init
  <2> QED
    BY <2>1 DEF GoodHistory
<1> QED
  BY <1>2, <1>3, <1>4 DEF Init, IInv, GoodStore

LEMMA NextGood == IInv /\ [Next]_vars => IInv'
<1> SUFFICES ASSUME IInv, [Next]_vars PROVE IInv'
  OBVIOUS
<1>1. ASSUME NEW p \in Procs,
             \/ Start(p) \/ CreateWitness(p) \/ LinkRecord(p)
             \/ RetireWitness(p) \/ UnlinkRecord(p)
             \/ Load(p) \/ Fence(p) \/ Write(p) \/ ReadBack(p)
             \/ Analyse(p) \/ AnalysisFails(p) \/ BaselineUnusable(p) \/ Cleanup(p)
             \/ IOError(p) \/ Interrupt(p) \/ Crash(p)
      PROVE  IInv'
  BY <1>1, StartGood, EnrolmentGood, LinkRecordGood, LoadGood, FenceGood, WriteGood,
     ReadBackGood, AnalyseGood, FailureGood, CleanupGood, FaultGood
<1>2. CASE Expire \/ Delete \/ UNCHANGED vars
  BY <1>2, EnvironmentGood
<1> QED
  BY <1>1, <1>2 DEF Next

LEMMA Invariance == Spec => []IInv
BY InitGood, NextGood, PTL DEF Spec

\* The types hold of every reachable state: the counters of the record
\* saturate at their bounds and a reservation always has a work and a slot.
THEOREM SessionTypeOK == Spec => []TypeOK
<1>1. IInv => TypeOK
  BY DEF IInv, GoodStore, GoodRecord, GoodProcs, GoodCounts, GoodHistory, TypeOK
<1> QED
  BY <1>1, Invariance, PTL

\* Whatever the interleaving of the replaces of any number of invocations,
\* and whatever fails, the record that is stored is one the constructor
\* accepts: no accepted sequence of transitions bricks the session.
THEOREM RecordAlwaysReadable == Spec => []StoredRecordWellFormed
<1>1. IInv => StoredRecordWellFormed
  BY DEF IInv, GoodStore, GoodRecord, StoredRecordWellFormed
<1> QED
  BY <1>1, Invariance, PTL
=============================================================================

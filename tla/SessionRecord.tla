--------------------------- MODULE SessionRecord ---------------------------
(***************************************************************************)
(* The durable record of one pull request's review session and the         *)
(* transitions a ledger may apply to it (src/src/review_sensei/session.py, *)
(* SessionRecord and the mutate_* functions).  Every transition is a pure  *)
(* function of the stored record: an adapter loads the record, applies one *)
(* of them and stores the outcome.  A transition is split into the         *)
(* condition under which it does not raise (XAccepts) and the record it    *)
(* returns.                                                                *)
(*                                                                         *)
(* A reservation id is a digest of the work (head, base, configuration),   *)
(* of the continuation grant it uses and of the suffix that marks a        *)
(* charge; it is represented by those three things.  A transaction id is   *)
(* a digest of the same work and of the reservation id, so the id of the   *)
(* reservation stands for it.                                              *)
(***************************************************************************)
EXTENDS Integers, FiniteSets

CONSTANTS
  Works,        \* distinct pieces of work: a head with its base and configuration
  HeadOf,       \* the head commit of each piece of work
  MaxFailed,    \* max_failed_attempts of the policy, and DEFAULT_MAX_FAILED_ATTEMPTS
  Ceiling,      \* MAX_FAILED_ATTEMPTS
  RoundCeiling, \* DIAGNOSTIC_ROUND_CEILING
  Contents,     \* digests a review result can have
  None          \* the absent value

Heads == {HeadOf[w] : w \in Works}

ASSUME WorksAssumption   == None \notin Works /\ None \notin Heads
ASSUME NoneAssumption    == None \notin {"initial", "verification", "failed-attempt"}
ASSUME BudgetAssumption  == MaxFailed \in 1..Ceiling /\ Ceiling \in Nat
ASSUME CeilingAssumption == RoundCeiling \in Nat

-----------------------------------------------------------------------------
(* The record                                                              *)

\* grant: the generation in the command id of the grant the id was derived
\* from, 0 without one; charge: the id of a failed-attempt charge.
Ids     == [work : Works, grant : Nat, charge : BOOLEAN]
Slots   == {"initial", "verification", "failed-attempt"}
Results == [complete : BOOLEAN, content : Contents]

Transactions ==
  [id : Ids, gen : Nat, phase : {"analysis", "publication_pending"},
   result : Results \cup {None}]

Records ==
  [gen : Nat, res : Ids \cup {None}, slot : Slots \cup {None},
   last : Ids \cup {None}, initial : 0..RoundCeiling, verification : 0..RoundCeiling,
   failed : 0..Ceiling, failedHead : Heads \cup {None},
   tx : Transactions \cup {None}, paused : BOOLEAN,
   grants : SUBSET [head : Heads, gen : Nat], baseline : Works \cup {None},
   born : Nat]

ASSUME AbsentAssumption ==
  None \notin Ids /\ None \notin Results /\ None \notin Transactions /\ None \notin Records

\* What the constructor of a record demands, or raises.
WellFormed(r) ==
  /\ r.res # None => r.res # r.last
  /\ (r.res = None) = (r.slot = None)
  /\ r.tx # None /\ r.tx.phase = "analysis" => r.res = r.tx.id /\ r.slot # None
  /\ r.tx # None /\ r.tx.phase # "analysis" => r.res = None /\ r.last = r.tx.id

\* SessionRecord.create; `born` stands for created_at.
Fresh(n) ==
  [gen |-> 0, res |-> None, slot |-> None, last |-> None, initial |-> 0,
   verification |-> 0, failed |-> 0, failedHead |-> None, tx |-> None,
   paused |-> FALSE, grants |-> {}, baseline |-> None, born |-> n]

\* Slip: the counts do not saturate.
AtMostSlip(n, bound) == n

AtMost(n, bound) == IF n < bound THEN n ELSE bound

\* The count a committed slot adds, saturating at its storage bound.
ApplySlot(r, slot) ==
  CASE slot = "initial"        -> [r EXCEPT !.initial = AtMost(@ + 1, RoundCeiling)]
    [] slot = "verification"   -> [r EXCEPT !.verification = AtMost(@ + 1, RoundCeiling)]
    [] slot = "failed-attempt" -> [r EXCEPT !.failed = AtMost(@ + 1, Ceiling)]

\* The retry budget belongs to the head that burned it.
FailedAttemptsForHead(r, head) == IF r.failedHead = head THEN r.failed ELSE 0

\* Slip: a new head inherits the failures of the previous one.
FailedAttemptScopeSlip(r, head) == [r EXCEPT !.failedHead = head]

FailedAttemptScope(r, head) ==
  IF r.failedHead = head THEN r ELSE [r EXCEPT !.failed = 0, !.failedHead = head]

\* Grants not yet consumed by a reservation; a consumed one has no effect.
OpenGrants(r, head) == {g \in r.grants : g.head = head}

Analysing(r)   == r.tx # None /\ r.tx.phase = "analysis"
Publishable(r) == r.tx # None /\ r.tx.phase = "publication_pending"

-----------------------------------------------------------------------------
(* Admission of a round                                                    *)

\* The stored transaction is this work's, and the baseline proves it.
SameAttempt(r, work) ==
  r.tx # None /\ r.tx.id.work = work /\ r.baseline = work /\ r.last = r.tx.id

\* The id an invocation derives for its work from the record it loaded.
ReservationId(r, work) ==
  LET open == OpenGrants(r, HeadOf[work])
  IN  IF open = {} /\ SameAttempt(r, work)
      THEN r.tx.id
      ELSE [work |-> work, charge |-> FALSE,
            grant |-> IF open = {} THEN 0 ELSE (CHOOSE g \in open : TRUE).gen]

EffectiveFailed(r, head) ==
  IF FailedAttemptsForHead(r, head) < Ceiling /\ OpenGrants(r, head) # {}
  THEN 0
  ELSE FailedAttemptsForHead(r, head)

\* Slip: a hold does not refuse the round.
AdmitsSlip(r, id) ==
  /\ ~r.paused
  /\ EffectiveFailed(r, HeadOf[id.work]) < MaxFailed
  /\ r.last # id

\* A pause, a hold, an exhausted budget and an already committed id each
\* refuse the round; the counters never do.
Admits(r, id) ==
  /\ ~r.paused
  /\ r.res = None
  /\ EffectiveFailed(r, HeadOf[id.work]) < MaxFailed
  /\ r.last # id

RoundKind(r) == IF r.initial = 0 THEN "initial" ELSE "verification"

-----------------------------------------------------------------------------
(* The transitions                                                         *)

\* A committed id, and the same hold again, return the record unchanged.
AlreadyReserved(r, id, slot) == r.last = id \/ (r.res = id /\ r.slot = slot)

\* Slip: the generation is not compared.
ReserveAcceptsSlip(r, id, slot, gen) ==
  AlreadyReserved(r, id, slot) \/ (r.res = None /\ ~Analysing(r))

ReserveAccepts(r, id, slot, gen) ==
  \/ r.last = id
  \/ r.gen = gen /\ (AlreadyReserved(r, id, slot) \/ (r.res = None /\ ~Analysing(r)))

\* Slip: a settled transaction is kept.
ReservedSlip(r, id, slot) ==
  IF AlreadyReserved(r, id, slot)
  THEN r
  ELSE [FailedAttemptScope(r, HeadOf[id.work]) EXCEPT
          !.gen = @ + 1, !.res = id, !.slot = slot,
          !.grants = @ \ OpenGrants(r, HeadOf[id.work])]

\* A settled transaction is dropped and the head's grant is consumed.
Reserved(r, id, slot) ==
  IF AlreadyReserved(r, id, slot)
  THEN r
  ELSE [FailedAttemptScope(r, HeadOf[id.work]) EXCEPT
          !.gen = @ + 1, !.res = id, !.slot = slot, !.tx = None,
          !.grants = @ \ OpenGrants(r, HeadOf[id.work])]

\* Attaching the transaction does not advance the generation.
AttachAccepts(r, id, gen) ==
  r.gen = gen /\ r.res = id /\ (r.tx # None => r.tx.id = id)

Attached(r, id) ==
  IF r.tx # None
  THEN r
  ELSE [r EXCEPT !.tx = [id |-> id, gen |-> r.gen, phase |-> "analysis", result |-> None]]

AlreadyCommitted(r, id) == r.last = id /\ r.res = None

CommitAccepts(r, id, gen) ==
  r.tx = None /\ (AlreadyCommitted(r, id) \/ (r.gen = gen /\ r.res = id))

Committed(r, id) ==
  IF AlreadyCommitted(r, id)
  THEN r
  ELSE [ApplySlot(r, r.slot) EXCEPT !.gen = @ + 1, !.res = None, !.slot = None, !.last = id]

AbortAccepts(r, id, gen) == r.res = None \/ (r.gen = gen /\ r.res = id)

Aborted(r) ==
  IF r.res = None
  THEN r
  ELSE [r EXCEPT !.gen = @ + 1, !.res = None, !.slot = None, !.tx = None]

\* The checkpoint of a validated result: the same result again is accepted
\* and changes nothing, another one is refused.
CheckpointAccepts(r, id, gen, result) ==
  /\ r.tx # None /\ r.tx.id = id
  /\ IF r.tx.phase = "publication_pending"
     THEN r.tx.result = result
     ELSE r.gen = gen /\ r.res = id /\ r.slot # "failed-attempt"

\* Slip: a partial result completes the round.
CheckpointedSlip(r, id, result) ==
  IF r.tx.phase = "publication_pending"
  THEN r
  ELSE [ApplySlot(r, r.slot) EXCEPT
          !.gen = @ + 1, !.res = None, !.slot = None, !.last = id,
          !.tx = [id |-> id, gen |-> r.gen + 1, phase |-> "publication_pending",
                  result |-> result]]

\* A partial result is publishable but counts as a failed attempt and leaves
\* the baseline of the last complete one.
Checkpointed(r, id, result) ==
  IF r.tx.phase = "publication_pending"
  THEN r
  ELSE [ApplySlot(r, IF result.complete THEN r.slot ELSE "failed-attempt") EXCEPT
          !.gen = @ + 1, !.res = None, !.slot = None, !.last = id,
          !.baseline = IF result.complete THEN id.work ELSE @,
          !.tx = [id |-> id, gen |-> r.gen + 1, phase |-> "publication_pending",
                  result |-> result]]

\* Slip: a pause does not advance the generation.
OperatorPausedSlip(r, paused) == [r EXCEPT !.paused = paused]

\* _evolve_operator_paused (disposition.py)
OperatorPaused(r, paused) ==
  IF r.paused = paused THEN r ELSE [r EXCEPT !.gen = @ + 1, !.paused = paused]

\* A grant needs an exhausted budget below the hard ceiling and nothing in
\* flight; an open grant is not issued twice.
GrantAccepts(r) ==
  /\ r.res = None /\ r.tx = None
  /\ r.failedHead # None
  /\ \/ OpenGrants(r, r.failedHead) # {}
     \/ r.failed \in MaxFailed .. (Ceiling - 1)

Granted(r) ==
  IF OpenGrants(r, r.failedHead) # {}
  THEN OperatorPaused(r, FALSE)
  ELSE [r EXCEPT !.gen = @ + 1, !.paused = FALSE,
                 !.grants = @ \cup {[head |-> r.failedHead, gen |-> r.gen]}]
=============================================================================

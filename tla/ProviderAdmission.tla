------------------------- MODULE ProviderAdmission -------------------------
(***************************************************************************)
(* In-process admission to one provider concurrency group                  *)
(* (src/src/review_sensei/concurrency.py, ProviderAdmission and            *)
(* AdmissionLease).  Threads share a counter of active leases and a        *)
(* counter of waiters behind one mutex, `_lock`.  A waiter polls: it       *)
(* sleeps in Condition.wait for at most one poll interval and then tests,  *)
(* in this order, a free slot, its cancel event and its deadline.          *)
(*                                                                         *)
(* A critical section is one step, except that a cancel event is set       *)
(* without the mutex and so can fall between the grant and the second      *)
(* test of the event: "granting" is the only pc that keeps the mutex       *)
(* across a step.                                                          *)
(***************************************************************************)
EXTENDS Integers, FiniteSets

CONSTANTS
  Threads,      \* callers of acquire and try_acquire
  Deadlined,    \* the threads that pass a timeout to acquire
  MaxActive,    \* ConcurrencyGroup.max_active
  MaxWaiters    \* ProviderAdmission._max_waiters

ASSUME ThreadsAssumption == IsFiniteSet(Threads) /\ Deadlined \subseteq Threads
ASSUME BoundsAssumption  == MaxActive \in Nat \ {0} /\ MaxWaiters \in Nat

VARIABLES
  active,       \* ProviderAdmission._active
  waiters,      \* ProviderAdmission._waiters
  pc,           \* where each thread stands
  cancelled,    \* threads whose cancel_event is set
  expired,      \* threads whose deadline has passed
  released,     \* AdmissionLease._released of each thread's lease
  releaser      \* who holds AdmissionLease._lock, after setting _released

vars == <<active, waiters, pc, cancelled, expired, released, releaser>>

\* A lease has two releasers: the context manager's __exit__, after which its
\* thread is done with it, and a direct call of release() by anyone.
Releasers == {"exit", "call"}

\* Outside the queue and without a lease; "done" once the call has failed or
\* its lease has been closed, until the next request.
Idle   == {"idle", "done"}
Queued == {t \in Threads : pc[t] \in {"waiting", "granting"}}

\* The mutex is held across steps only by a thread between its two tests of
\* the cancel event.
Locked == \E t \in Threads : pc[t] = "granting"

\* The threads whose slot is taken and not yet given back.
LeaseHolders ==
  {t \in Threads : \/ pc[t] = "granting"
                   \/ pc[t] = "holding" /\ (released[t] => releaser[t] # "none")}

Goto(t, to) == pc' = [pc EXCEPT ![t] = to]

Init ==
  /\ active    = 0
  /\ waiters   = 0
  /\ pc        = [t \in Threads |-> "idle"]
  /\ cancelled = {}
  /\ expired   = {}
  /\ released  = [t \in Threads |-> FALSE]
  /\ releaser  = [t \in Threads |-> "none"]

-----------------------------------------------------------------------------
(* acquire and try_acquire, up to the first wait *)

\* A free slot is granted at once, whether the caller is cancelled or not.
GrantNow(t) ==
  /\ pc[t] = "idle" /\ ~Locked
  /\ active < MaxActive
  /\ active'   = active + 1
  /\ released' = [released EXCEPT ![t] = FALSE]
  /\ Goto(t, "holding")
  /\ UNCHANGED <<waiters, cancelled, expired, releaser>>

\* No slot: reject past the waiter bound, and reject or cancel a caller whose
\* first pass through the loop finds its deadline gone or its event set.
TurnAway(t) ==
  /\ pc[t] = "idle" /\ ~Locked
  /\ active >= MaxActive
  /\ waiters >= MaxWaiters \/ t \in cancelled \cup expired
  /\ Goto(t, "done")
  /\ UNCHANGED <<active, waiters, cancelled, expired, released, releaser>>

\* Slip: the bound is not looked at before the caller joins the queue.
EnqueueUnbounded(t) ==
  /\ pc[t] = "idle" /\ ~Locked
  /\ active >= MaxActive
  /\ t \notin cancelled \cup expired
  /\ waiters' = waiters + 1
  /\ Goto(t, "waiting")
  /\ UNCHANGED <<active, cancelled, expired, released, releaser>>

Enqueue(t) ==
  /\ pc[t] = "idle" /\ ~Locked
  /\ active >= MaxActive /\ waiters < MaxWaiters
  /\ t \notin cancelled \cup expired
  /\ waiters' = waiters + 1
  /\ Goto(t, "waiting")
  /\ UNCHANGED <<active, cancelled, expired, released, releaser>>

-----------------------------------------------------------------------------
(* One pass of the polling loop, after Condition.wait returns *)

\* Slip: the last slot is never taken.
TakeSlotTooFew(t) ==
  /\ pc[t] = "waiting" /\ ~Locked
  /\ active + 1 < MaxActive /\ t \notin cancelled
  /\ active'   = active + 1
  /\ released' = [released EXCEPT ![t] = FALSE]
  /\ Goto(t, "granting")
  /\ UNCHANGED <<waiters, cancelled, expired, releaser>>

\* The slot is counted before the event is tested a second time.
TakeSlot(t) ==
  /\ pc[t] = "waiting" /\ ~Locked
  /\ active < MaxActive /\ t \notin cancelled
  /\ active'   = active + 1
  /\ released' = [released EXCEPT ![t] = FALSE]
  /\ Goto(t, "granting")
  /\ UNCHANGED <<waiters, cancelled, expired, releaser>>

\* Slip: the event is tested only once a slot opens.
LeaveCancelledLate(t) ==
  /\ pc[t] = "waiting" /\ ~Locked
  /\ active < MaxActive /\ t \in cancelled
  /\ waiters' = waiters - 1
  /\ Goto(t, "done")
  /\ UNCHANGED <<active, cancelled, expired, released, releaser>>

LeaveCancelled(t) ==
  /\ pc[t] = "waiting" /\ ~Locked
  /\ t \in cancelled
  /\ waiters' = waiters - 1
  /\ Goto(t, "done")
  /\ UNCHANGED <<active, cancelled, expired, released, releaser>>

\* Slips: the timeout path returns outside the finally clause; the deadline is
\* tested only on the cancellation path.
LeaveExpiredUncounted(t) ==
  /\ pc[t] = "waiting" /\ ~Locked
  /\ active >= MaxActive /\ t \in expired \ cancelled
  /\ Goto(t, "done")
  /\ UNCHANGED <<active, waiters, cancelled, expired, released, releaser>>

LeaveExpiredIfCancelled(t) ==
  /\ t \in cancelled
  /\ LeaveExpiredUncounted(t)

LeaveExpired(t) ==
  /\ pc[t] = "waiting" /\ ~Locked
  /\ active >= MaxActive /\ t \in expired \ cancelled
  /\ waiters' = waiters - 1
  /\ Goto(t, "done")
  /\ UNCHANGED <<active, cancelled, expired, released, releaser>>

\* A pass that finds none of these sleeps again and changes nothing.
Poll(t) == TakeSlot(t) \/ LeaveCancelled(t) \/ LeaveExpired(t)

\* Slips: the abandoned lease keeps its slot; the second test is dropped.
FinishGrantLeaking(t) ==
  /\ pc[t] = "granting"
  /\ waiters' = waiters - 1
  /\ Goto(t, IF t \in cancelled THEN "done" ELSE "holding")
  /\ UNCHANGED <<active, cancelled, expired, released, releaser>>

FinishGrantUntested(t) ==
  /\ pc[t] = "granting"
  /\ waiters' = waiters - 1
  /\ Goto(t, "holding")
  /\ UNCHANGED <<active, cancelled, expired, released, releaser>>

\* _grant_unless_cancelled_locked: the second test, and the finally clause.
FinishGrant(t) ==
  /\ pc[t] = "granting"
  /\ waiters' = waiters - 1
  /\ IF t \in cancelled
       THEN /\ active'   = active - 1
            /\ released' = [released EXCEPT ![t] = TRUE]
            /\ Goto(t, "done")
       ELSE /\ Goto(t, "holding")
            /\ UNCHANGED <<active, released>>
  /\ UNCHANGED <<cancelled, expired, releaser>>

-----------------------------------------------------------------------------
(* AdmissionLease.release and __exit__ *)

\* Slip: release does not look at _released.
BeginReleaseTwice(t, r) ==
  /\ pc[t] = "holding" /\ releaser[t] = "none"
  /\ released' = [released EXCEPT ![t] = TRUE]
  /\ releaser' = [releaser EXCEPT ![t] = r]
  /\ UNCHANGED <<active, waiters, pc, cancelled, expired>>

\* Take the lease's own lock and claim the release.
BeginRelease(t, r) ==
  /\ pc[t] = "holding" /\ releaser[t] = "none"
  /\ ~released[t]
  /\ released' = [released EXCEPT ![t] = TRUE]
  /\ releaser' = [releaser EXCEPT ![t] = r]
  /\ UNCHANGED <<active, waiters, pc, cancelled, expired>>

\* Still under the lease's lock, take the mutex and give the slot back.
FinishRelease(t, r) ==
  /\ releaser[t] = r /\ ~Locked
  /\ active'   = active - 1
  /\ releaser' = [releaser EXCEPT ![t] = "none"]
  /\ Goto(t, IF r = "exit" THEN "done" ELSE "holding")
  /\ UNCHANGED <<waiters, cancelled, expired, released>>

\* __exit__ on a lease somebody else has released: a snapshot, nothing more.
ExitReleased(t) ==
  /\ pc[t] = "holding" /\ releaser[t] = "none"
  /\ released[t]
  /\ Goto(t, "done")
  /\ UNCHANGED <<active, waiters, cancelled, expired, released, releaser>>

-----------------------------------------------------------------------------
(* The caller's environment: its event, its clock, its next request *)

Cancel(t) ==
  /\ t \notin cancelled
  /\ cancelled' = cancelled \cup {t}
  /\ UNCHANGED <<active, waiters, pc, expired, released, releaser>>

Expire(t) ==
  /\ t \in Deadlined \ expired
  /\ expired' = expired \cup {t}
  /\ UNCHANGED <<active, waiters, pc, cancelled, released, releaser>>

\* A later call passes a fresh event and a fresh deadline.
NewRequest(t) ==
  /\ pc[t] = "done"
  /\ cancelled' = cancelled \ {t}
  /\ expired'   = expired \ {t}
  /\ Goto(t, "idle")
  /\ UNCHANGED <<active, waiters, released, releaser>>

Next ==
  \E t \in Threads :
    \/ GrantNow(t) \/ TurnAway(t) \/ Enqueue(t)
    \/ Poll(t) \/ FinishGrant(t)
    \/ \E r \in Releasers : BeginRelease(t, r) \/ FinishRelease(t, r)
    \/ ExitReleased(t)
    \/ Cancel(t) \/ Expire(t) \/ NewRequest(t)

Spec == Init /\ [][Next]_vars

\* A thread in its critical section runs on; a polling waiter wakes at the end
\* of every interval and gets a mutex that keeps being free (weak fairness
\* would let the others keep it from the mutex for ever); clocks advance.
\* Nothing says that a lease is ever released or that anyone asks again.
Fairness ==
  \A t \in Threads :
    /\ WF_vars(FinishGrant(t))
    /\ WF_vars(Expire(t))
    /\ SF_vars(Poll(t))

FairSpec == Spec /\ Fairness

-----------------------------------------------------------------------------
(* Properties *)

\* Types of the counters (never negative) and of the per-thread state.
TypeOK ==
  /\ active \in Nat /\ waiters \in Nat
  /\ pc \in [Threads -> Idle \cup {"waiting", "granting", "holding"}]
  /\ cancelled \subseteq Threads /\ expired \subseteq Threads
  /\ released \in [Threads -> BOOLEAN]
  /\ releaser \in [Threads -> Releasers \cup {"none"}]

\* `_active` is the number of threads that hold a lease, `_waiters` the number
\* of those inside the loop.
ActiveCountsLeases == active = Cardinality(LeaseHolders)
WaitersCountsQueue == waiters = Cardinality(Queued)

\* No slot is lost and none is given back twice, and no waiter is counted out
\* twice or left counted in: through cancellation between the two tests, two
\* concurrent releases of one lease, exits that find it released, and every
\* way out of the loop, granted, cancelled or timed out.
CountersAgree == ActiveCountsLeases /\ WaitersCountsQueue

\* The promise of the class, said of threads and not of its counters: never
\* more lease holders than max_active nor more queued threads than the bound.
AdmissionBounded ==
  /\ Cardinality(LeaseHolders) <= MaxActive
  /\ Cardinality(Queued) <= MaxWaiters

\* A waiter whose cancel event is set never comes out of the queue with a
\* lease, wherever in the loop the event caught it.
CancelledWaiterNotGranted ==
  [][\A t \in Queued \cap cancelled : pc'[t] # "holding"]_vars

\* A cancelled waiter leaves within a poll, even if no slot is ever freed.
CancelledWaiterLeaves ==
  \A t \in Threads :
    (t \in Queued /\ t \in cancelled) ~> (t \notin Queued)

\* A waiter with a deadline does not wait for ever, whatever the holders do.
DeadlineEndsTheWait ==
  \A t \in Deadlined : (t \in Queued) ~> (t \notin Queued)

\* A freed slot does not stay free while threads wait for it, whether or not
\* the notification reached one of them.
FreedSlotIsTaken ==
  (active < MaxActive /\ Queued # {}) ~> (active = MaxActive \/ Queued = {})
=============================================================================

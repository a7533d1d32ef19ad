--------------------- MODULE ProviderAdmissionProofs ---------------------
(* Safety of ProviderAdmission for any finite set of threads and any      *)
(* bounds.  The counters are related to sets of threads, so the argument  *)
(* is about how one step changes LeaseHolders and Queued: by one thread,  *)
(* the one that moves, or not at all.                                     *)
EXTENDS ProviderAdmission, FiniteSetTheorems, TLAPS

\* A release in progress is of a lease still held and already marked, which
\* is why its thread counts among the holders until the slot is dropped; a
\* lease being granted has not been released, so finishing the grant moves
\* its thread from one half of LeaseHolders to the other.
LeaseShape ==
  /\ \A t \in Threads :
       releaser[t] # "none" => pc[t] = "holding" /\ released[t]
  /\ \A t \in Threads : pc[t] = "granting" => ~released[t]

Bounded == active <= MaxActive /\ waiters <= MaxWaiters

\* The inductive invariant.
IInv ==
  TypeOK /\ LeaseShape /\ Bounded
  /\ ActiveCountsLeases /\ WaitersCountsQueue

-----------------------------------------------------------------------------
\* The two sets are finite, being sets of threads.
LEMMA FiniteThreadSets ==
  /\ IsFiniteSet(LeaseHolders) /\ Cardinality(LeaseHolders) \in Nat
  /\ IsFiniteSet(Queued) /\ Cardinality(Queued) \in Nat
<1>1. LeaseHolders \in SUBSET Threads /\ Queued \in SUBSET Threads
  BY DEF LeaseHolders, Queued
<1> QED
  BY <1>1, ThreadsAssumption, FS_Subset, FS_CardinalityType

\* One thread more.
LEMMA OneMore ==
  ASSUME NEW S, IsFiniteSet(S), NEW t, t \notin S
  PROVE  Cardinality(S \cup {t}) = Cardinality(S) + 1
BY FS_AddElement

\* One thread less; there was at least one.
LEMMA OneLess ==
  ASSUME NEW S, IsFiniteSet(S), NEW t, t \in S
  PROVE  /\ Cardinality(S \ {t}) = Cardinality(S) - 1
         /\ Cardinality(S) - 1 \in Nat
<1>1. Cardinality(S \ {t}) = Cardinality(S) - 1
  BY FS_RemoveElement
<1>2. Cardinality(S \ {t}) \in Nat
  BY FS_RemoveElement, FS_CardinalityType
<1> QED
  BY <1>1, <1>2

-----------------------------------------------------------------------------
\* Initially nobody holds a lease and nobody waits.
LEMMA InitIInv == Init => IInv
<1> SUFFICES ASSUME Init PROVE IInv
  OBVIOUS
<1>1. LeaseHolders = {} /\ Queued = {}
  BY DEF Init, LeaseHolders, Queued
<1>2. Cardinality({}) = 0
  BY FS_EmptySet
<1> QED
  BY <1>1, <1>2, BoundsAssumption
  DEF Init, IInv, TypeOK, Idle, Releasers, LeaseShape, Bounded,
      ActiveCountsLeases, WaitersCountsQueue

\* Each step preserves the inductive invariant.
LEMMA NextIInv == IInv /\ [Next]_vars => IInv'
<1> SUFFICES ASSUME IInv, [Next]_vars PROVE IInv'
  OBVIOUS
<1> USE BoundsAssumption DEF IInv, TypeOK, Idle, Releasers, Goto
<1>f. /\ IsFiniteSet(LeaseHolders) /\ Cardinality(LeaseHolders) \in Nat
      /\ IsFiniteSet(Queued) /\ Cardinality(Queued) \in Nat
  BY FiniteThreadSets
<1>c. active = Cardinality(LeaseHolders) /\ waiters = Cardinality(Queued)
  BY DEF ActiveCountsLeases, WaitersCountsQueue
<1>1. ASSUME NEW t \in Threads, GrantNow(t) PROVE IInv'
  <2>1. LeaseHolders' = LeaseHolders \cup {t} /\ t \notin LeaseHolders
    BY <1>1 DEF GrantNow, LeaseHolders, LeaseShape
  <2>2. Queued' = Queued
    BY <1>1 DEF GrantNow, Queued
  <2>3. active' = Cardinality(LeaseHolders') /\ waiters' = Cardinality(Queued')
    BY <1>1, <2>1, <2>2, <1>f, <1>c, OneMore DEF GrantNow
  <2>4. TypeOK' /\ LeaseShape' /\ Bounded'
    BY <1>1 DEF GrantNow, LeaseShape, Bounded
  <2> QED
    BY <2>3, <2>4 DEF ActiveCountsLeases, WaitersCountsQueue
<1>2. ASSUME NEW t \in Threads, TurnAway(t) \/ NewRequest(t) PROVE IInv'
  <2>1. LeaseHolders' = LeaseHolders /\ Queued' = Queued
    BY <1>2 DEF TurnAway, NewRequest, LeaseHolders, Queued
  <2>2. TypeOK' /\ LeaseShape' /\ Bounded'
    BY <1>2 DEF TurnAway, NewRequest, LeaseShape, Bounded
  <2> QED
    BY <1>2, <2>1, <2>2, <1>c
    DEF TurnAway, NewRequest, ActiveCountsLeases, WaitersCountsQueue
<1>3. ASSUME NEW t \in Threads, Enqueue(t) PROVE IInv'
  <2>1. Queued' = Queued \cup {t} /\ t \notin Queued
    BY <1>3 DEF Enqueue, Queued
  <2>2. LeaseHolders' = LeaseHolders
    BY <1>3 DEF Enqueue, LeaseHolders
  <2>3. active' = Cardinality(LeaseHolders') /\ waiters' = Cardinality(Queued')
    BY <1>3, <2>1, <2>2, <1>f, <1>c, OneMore DEF Enqueue
  <2>4. TypeOK' /\ LeaseShape' /\ Bounded'
    BY <1>3 DEF Enqueue, LeaseShape, Bounded
  <2> QED
    BY <2>3, <2>4 DEF ActiveCountsLeases, WaitersCountsQueue
<1>4. ASSUME NEW t \in Threads, TakeSlot(t) PROVE IInv'
  <2>1. LeaseHolders' = LeaseHolders \cup {t} /\ t \notin LeaseHolders
    BY <1>4 DEF TakeSlot, LeaseHolders
  <2>2. Queued' = Queued
    BY <1>4 DEF TakeSlot, Queued
  <2>3. active' = Cardinality(LeaseHolders') /\ waiters' = Cardinality(Queued')
    BY <1>4, <2>1, <2>2, <1>f, <1>c, OneMore DEF TakeSlot
  <2>4. TypeOK' /\ LeaseShape' /\ Bounded'
    BY <1>4 DEF TakeSlot, LeaseShape, Bounded
  <2> QED
    BY <2>3, <2>4 DEF ActiveCountsLeases, WaitersCountsQueue
<1>5. ASSUME NEW t \in Threads, LeaveCancelled(t) \/ LeaveExpired(t) PROVE IInv'
  <2>1. Queued' = Queued \ {t} /\ t \in Queued
    BY <1>5 DEF LeaveCancelled, LeaveExpired, Queued
  <2>2. LeaseHolders' = LeaseHolders
    BY <1>5 DEF LeaveCancelled, LeaveExpired, LeaseHolders
  <2>3. /\ active' = Cardinality(LeaseHolders') /\ waiters' = Cardinality(Queued')
        /\ waiters' \in Nat /\ waiters' <= MaxWaiters /\ active' = active
    BY <1>5, <2>1, <2>2, <1>f, <1>c, OneLess
    DEF LeaveCancelled, LeaveExpired, Bounded
  <2>4. TypeOK' /\ LeaseShape' /\ Bounded'
    BY <1>5, <2>3 DEF LeaveCancelled, LeaveExpired, LeaseShape, Bounded
  <2> QED
    BY <2>3, <2>4 DEF ActiveCountsLeases, WaitersCountsQueue
<1>6. ASSUME NEW t \in Threads, FinishGrant(t) PROVE IInv'
  <2>1. Queued' = Queued \ {t} /\ t \in Queued
    BY <1>6 DEF FinishGrant, Queued
  <2>2. waiters' = Cardinality(Queued') /\ waiters' \in Nat /\ waiters' <= MaxWaiters
    BY <1>6, <2>1, <1>f, <1>c, OneLess DEF FinishGrant, Bounded
  <2>3. t \in LeaseHolders /\ releaser[t] = "none"
    BY <1>6 DEF FinishGrant, LeaseHolders, LeaseShape
  <2>4. CASE t \in cancelled
    <3>1. LeaseHolders' = LeaseHolders \ {t}
      BY <1>6, <2>4 DEF FinishGrant, LeaseHolders
    <3>2. active' = Cardinality(LeaseHolders') /\ active' \in Nat /\ active' <= MaxActive
      BY <1>6, <2>4, <2>3, <3>1, <1>f, <1>c, OneLess DEF FinishGrant, Bounded
    <3>3. TypeOK' /\ LeaseShape' /\ Bounded'
      BY <1>6, <2>2, <2>3, <2>4, <3>2 DEF FinishGrant, LeaseShape, Bounded
    <3> QED
      BY <2>2, <3>2, <3>3 DEF ActiveCountsLeases, WaitersCountsQueue
  <2>5. CASE t \notin cancelled
    <3>1. pc' = [pc EXCEPT ![t] = "holding"] /\ UNCHANGED <<active, released, releaser>>
      BY <1>6, <2>5 DEF FinishGrant
    <3>2. released[t] = FALSE
      BY <1>6 DEF FinishGrant, LeaseShape
    <3>4. LeaseHolders' = LeaseHolders
      BY <1>6, <3>1, <3>2 DEF FinishGrant, LeaseHolders
    <3>5. TypeOK' /\ LeaseShape' /\ Bounded'
      BY <1>6, <2>2, <3>1 DEF FinishGrant, LeaseShape, Bounded
    <3> QED
      BY <2>2, <3>1, <3>4, <3>5, <1>c DEF ActiveCountsLeases, WaitersCountsQueue
  <2> QED
    BY <2>4, <2>5
<1>7. ASSUME NEW t \in Threads, NEW r \in Releasers, BeginRelease(t, r)
      PROVE  IInv'
  <2>1. LeaseHolders' = LeaseHolders /\ Queued' = Queued
    BY <1>7 DEF BeginRelease, LeaseHolders, Queued
  <2>2. TypeOK' /\ LeaseShape' /\ Bounded'
    BY <1>7 DEF BeginRelease, LeaseShape, Bounded
  <2> QED
    BY <1>7, <2>1, <2>2, <1>c
    DEF BeginRelease, ActiveCountsLeases, WaitersCountsQueue
<1>8. ASSUME NEW t \in Threads, NEW r \in Releasers, FinishRelease(t, r)
      PROVE  IInv'
  <2>1. pc[t] = "holding" /\ released[t] /\ r # "none"
    BY <1>8 DEF FinishRelease, LeaseShape
  <2>2. LeaseHolders' = LeaseHolders \ {t} /\ t \in LeaseHolders
    BY <1>8, <2>1 DEF FinishRelease, LeaseHolders
  <2>3. Queued' = Queued
    BY <1>8, <2>1 DEF FinishRelease, Queued
  <2>4. active' = Cardinality(LeaseHolders') /\ active' \in Nat /\ active' <= MaxActive
    BY <1>8, <2>2, <1>f, <1>c, OneLess DEF FinishRelease, Bounded
  <2>5. TypeOK' /\ LeaseShape' /\ Bounded'
    BY <1>8, <2>1, <2>4 DEF FinishRelease, LeaseShape, Bounded
  <2> QED
    BY <1>8, <2>3, <2>4, <2>5, <1>c
    DEF FinishRelease, ActiveCountsLeases, WaitersCountsQueue
<1>9. ASSUME NEW t \in Threads, ExitReleased(t) PROVE IInv'
  <2>1. LeaseHolders' = LeaseHolders /\ Queued' = Queued
    BY <1>9 DEF ExitReleased, LeaseHolders, Queued
  <2>2. TypeOK' /\ LeaseShape' /\ Bounded'
    BY <1>9 DEF ExitReleased, LeaseShape, Bounded
  <2> QED
    BY <1>9, <2>1, <2>2, <1>c
    DEF ExitReleased, ActiveCountsLeases, WaitersCountsQueue
<1>10. ASSUME NEW t \in Threads, Cancel(t) \/ Expire(t) PROVE IInv'
  <2>1. LeaseHolders' = LeaseHolders /\ Queued' = Queued
    BY <1>10 DEF Cancel, Expire, LeaseHolders, Queued
  <2>2. TypeOK' /\ LeaseShape' /\ Bounded'
    BY <1>10 DEF Cancel, Expire, LeaseShape, Bounded
  <2> QED
    BY <1>10, <2>1, <2>2, <1>c
    DEF Cancel, Expire, ActiveCountsLeases, WaitersCountsQueue
<1>11. CASE UNCHANGED vars
  <2>1. LeaseHolders' = LeaseHolders /\ Queued' = Queued
    BY <1>11 DEF vars, LeaseHolders, Queued
  <2> QED
    BY <1>11, <2>1
    DEF vars, LeaseShape, Bounded, ActiveCountsLeases, WaitersCountsQueue
<1> QED
  BY <1>1, <1>2, <1>3, <1>4, <1>5, <1>6, <1>7, <1>8, <1>9, <1>10, <1>11
  DEF Next, Poll

-----------------------------------------------------------------------------
\* The inductive invariant holds throughout.
LEMMA SpecIInv == Spec => []IInv
<1> QED
  BY InitIInv, NextIInv, PTL DEF Spec

\* For any threads and bounds: the counters never go wrong (in particular are
\* never negative) through cancelled grants and doubled releases of a lease.
THEOREM AdmissionTypeOK == Spec => []TypeOK
<1>1. IInv => TypeOK
  BY DEF IInv
<1> QED
  BY <1>1, SpecIInv, PTL

\* `_active` is the number of threads holding a lease and `_waiters` the number
\* of those in the queue: no slot is lost and none is given back twice, and a
\* thread that is cancelled, times out or is granted while others poll is
\* counted out once.
THEOREM CountersAccounted == Spec => []CountersAgree
<1>1. IInv => CountersAgree
  BY DEF IInv, CountersAgree
<1> QED
  BY <1>1, SpecIInv, PTL

\* What ProviderAdmission promises: at most max_active leases and at most
\* max_waiters waiters, counted in threads.
THEOREM AdmissionIsBounded == Spec => []AdmissionBounded
<1>1. IInv => AdmissionBounded
  BY DEF IInv, Bounded, ActiveCountsLeases, WaitersCountsQueue, AdmissionBounded
<1> QED
  BY <1>1, SpecIInv, PTL

\* No step takes a cancelled waiter out of the queue with a lease.
THEOREM CancelledNeverGranted == Spec => CancelledWaiterNotGranted
<1>1. IInv /\ [Next]_vars =>
        [\A t \in Queued \cap cancelled : pc'[t] # "holding"]_vars
  <2> SUFFICES ASSUME IInv, Next, NEW u \in Queued \cap cancelled
               PROVE  pc'[u] # "holding"
    BY DEF vars
  <2>1. PICK t \in Threads :
          \/ GrantNow(t) \/ TurnAway(t) \/ Enqueue(t) \/ Poll(t) \/ FinishGrant(t)
          \/ \E r \in Releasers : BeginRelease(t, r) \/ FinishRelease(t, r)
          \/ ExitReleased(t) \/ Cancel(t) \/ Expire(t) \/ NewRequest(t)
    BY DEF Next
  <2>2. u \in Threads /\ pc \in [Threads -> Idle \cup {"waiting", "granting", "holding"}]
        /\ pc[u] \in {"waiting", "granting"} /\ u \in cancelled
    BY DEF Queued, IInv, TypeOK
  <2>3. \A r \in Releasers : FinishRelease(t, r) => t # u
    BY <2>2 DEF FinishRelease, Releasers, IInv, LeaseShape
  <2> QED
    BY <2>1, <2>2, <2>3
    DEF GrantNow, TurnAway, Enqueue, Poll, TakeSlot, LeaveCancelled, LeaveExpired,
        FinishGrant, BeginRelease, FinishRelease, ExitReleased, Cancel, Expire,
        NewRequest, Goto, Idle
<1> QED
  BY <1>1, SpecIInv, PTL DEF Spec, CancelledWaiterNotGranted
=============================================================================

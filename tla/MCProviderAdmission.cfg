SPECIFICATION FairSpec
CONSTANTS
  t1 = t1
  t2 = t2
  t3 = t3
  Threads <- MCThreads
  Deadlined <- MCDeadlined
  MaxActive = 1
  MaxWaiters = 1
INVARIANTS
  TypeOK
  CountersAgree
  AdmissionBounded
PROPERTIES
  CancelledWaiterNotGranted
  CancelledWaiterLeaves
  DeadlineEndsTheWait
  FreedSlotIsTaken

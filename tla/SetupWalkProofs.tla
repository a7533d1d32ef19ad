--------------------------- MODULE SetupWalkProofs ---------------------------
(***************************************************************************)
(* What a walk over an installation has covered when it ends, for every    *)
(* number of repositories, size of pages and number of changes.            *)
(*                                                                         *)
(* A cursor says how far the walk has come in the listing it was signed    *)
(* for: that is the invariant.  A step goes on from it only if the listing *)
(* is still that one, and a page holds what its positions count.           *)
(***************************************************************************)
EXTENDS SetupWalk, SequenceTheorems, FiniteSetTheorems, TLAPS

\* The first n repositories of a listing.
FirstOf(l, n) == {l[i] : i \in 1..n}

\* What a cursor has behind it.
Walked(c, done) ==
  IF c.digest = None
  THEN c.page = 1 /\ c.offset = 0
  ELSE Index(c) < Len(c.digest) /\ FirstOf(c.digest, Index(c)) \subseteq done

IInv ==
  /\ TypeOK
  /\ call # None => outcome = None /\ Walked(call, attempted)

-----------------------------------------------------------------------------
(* Listings and positions                                                  *)

LEMMA SameBound ==
  ASSUME NEW a \in Nat, NEW b \in Nat, 1..a = 1..b
  PROVE  a = b
<1>1. (a \in 1..a <=> a \in 1..b) /\ (b \in 1..a <=> b \in 1..b)
  OBVIOUS
<1> QED BY <1>1

LEMMA ListingFacts ==
  ASSUME NEW l \in Listings
  PROVE  /\ Len(l) \in Nat /\ Len(l) <= PageSize * MaxPages /\ DOMAIN l = 1..Len(l)
         /\ \A i \in 1..Len(l) : l[i] \in Repositories
<1>1. PICK n \in 0..Cardinality(Repositories) : l \in [1..n -> Repositories]
  BY DEF Listings
<1>2. Cardinality(Repositories) \in Nat /\ Cardinality(Repositories) <= PageSize * MaxPages
  BY PagesAssumption, FS_CardinalityType
<1>3. n \in Nat /\ n <= Cardinality(Repositories)
  BY <1>1, <1>2
<1>4. l \in Seq(Repositories)
  BY <1>1, <1>3, SeqDef
<1>5. Len(l) \in Nat /\ DOMAIN l = 1..Len(l)
  BY <1>4
<1>6. Len(l) = n
  <2>1. 1..Len(l) = 1..n
    BY <1>1, <1>5
  <2> QED BY <1>3, <1>5, <2>1, SameBound
<1>7. PageSize * MaxPages \in Nat
  BY PagesAssumption
<1> QED BY <1>1, <1>2, <1>3, <1>5, <1>6, <1>7

Positions == [page : 1..MaxPages, offset : 0..(PageSize - 1)]

LEMMA IndexType ==
  ASSUME NEW position, position.page \in Nat \ {0}, position.offset \in Nat
  PROVE  Index(position) \in Nat
<1>1. (position.page - 1) \in Nat /\ PageSize \in Nat
  BY PagesAssumption
<1>2. (position.page - 1) * PageSize \in Nat
  BY <1>1
<1> QED BY <1>2 DEF Index

\* The next position is one further, and on the page after the last only when
\* every listing has been walked.
LEMMA NextIsNext ==
  ASSUME NEW position \in Positions
  PROVE  LET next == NextPosition(position)
         IN  /\ next.page \in Nat \ {0} /\ next.offset \in 0..(PageSize - 1)
             /\ Index(position) \in Nat /\ Index(next) = Index(position) + 1
             /\ next.page > MaxPages => Index(next) >= PageSize * MaxPages
<1> DEFINE pg   == position.page
           off  == position.offset
           next == NextPosition(position)
<1>1. /\ PageSize \in Nat \ {0} /\ MaxPages \in Nat \ {0}
      /\ pg \in 1..MaxPages /\ off \in 0..(PageSize - 1)
  BY PagesAssumption DEF Positions
<1>2. Index(position) \in Nat
  BY <1>1, IndexType
<1>3. CASE off + 1 < PageSize
  <2>1. next.page = pg /\ next.offset = off + 1
    BY <1>3 DEF NextPosition, Positions
  <2>2. Index(next) = Index(position) + 1
    <3>1. (pg - 1) * PageSize \in Nat
      BY <1>1
    <3> QED BY <1>1, <2>1, <3>1 DEF Index
  <2> HIDE DEF next
  <2>3. /\ next.page \in Nat \ {0} /\ next.offset \in 0..(PageSize - 1)
        /\ ~(next.page > MaxPages)
    BY <1>1, <1>3, <2>1
  <2> QED BY <1>2, <2>2, <2>3 DEF next
<1>4. CASE ~(off + 1 < PageSize)
  <2>1. next.page = pg + 1 /\ next.offset = 0
    BY <1>4 DEF NextPosition
  <2>2. off = PageSize - 1
    BY <1>1, <1>4
  <2>3. pg * PageSize = (pg - 1) * PageSize + PageSize /\ pg * PageSize \in Nat
        /\ (pg - 1) * PageSize \in Nat
    BY <1>1
  <2>4. Index(next) = pg * PageSize /\ Index(position) = (pg - 1) * PageSize + off
    BY <1>1, <2>1 DEF Index
  <2>5. Index(next) = Index(position) + 1
    BY <1>1, <2>2, <2>3, <2>4
  <2>6. next.page > MaxPages => pg = MaxPages
    BY <1>1, <2>1
  <2>7. next.page > MaxPages => Index(next) >= PageSize * MaxPages
    BY <1>1, <2>4, <2>6
  <2> HIDE DEF next
  <2>8. next.page \in Nat \ {0} /\ next.offset \in 0..(PageSize - 1)
    BY <1>1, <2>1
  <2> QED BY <1>2, <2>5, <2>7, <2>8 DEF next
<1> QED BY <1>3, <1>4

\* A cursor is at a position, with everything before it in the present listing
\* behind it.
LEMMA PositionWalked ==
  ASSUME TypeOK, call # None, Walked(call, attempted), Valid(call)
  PROVE  LET position == Position(call)
         IN  /\ position \in Positions
             /\ FirstOf(listing, Index(position)) \subseteq attempted
             /\ Index(position) = 0 \/ Index(position) < Len(listing)
<1> DEFINE position == Position(call)
<1>1. call \in Cursors /\ listing \in Listings
  BY DEF TypeOK
<1>2. position \in Positions
  BY PagesAssumption DEF Valid, Position, Positions
<1>3. CASE call.digest = listing
  <2>1. position.page = call.page /\ position.offset = call.offset
    BY <1>3 DEF Position
  <2>2. Index(position) = Index(call)
    BY <2>1 DEF Index
  <2>3. listing # None
    BY <1>1, NoneAssumption
  <2> QED BY <1>2, <1>3, <2>2, <2>3 DEF Walked
<1>4. CASE call.digest # listing
  <2>1. position.page = 1 /\ position.offset = 0
    BY <1>4 DEF Position, Walked
  <2>2. Index(position) = 0
    BY <2>1, PagesAssumption DEF Index
  <2>3. FirstOf(listing, 0) = {}
    BY DEF FirstOf
  <2> QED BY <1>2, <2>2, <2>3
<1> QED BY <1>3, <1>4

-----------------------------------------------------------------------------
(* The steps                                                               *)

\* The repository at a position joins those before it.
LEMMA OneMoreWalked ==
  ASSUME NEW n \in Nat, NEW done, FirstOf(listing, n) \subseteq done
  PROVE  FirstOf(listing, n + 1) \subseteq done \cup {listing[n + 1]}
<1>1. \A i \in 1..(n + 1) : i \in 1..n \/ i = n + 1
  OBVIOUS
<1> QED BY <1>1 DEF FirstOf

\* A walk that goes on signs a cursor that has walked one more; a walk that is
\* over by itself has walked the listing.
LEMMA ContinueWalked ==
  ASSUME TypeOK, NEW position \in Positions, NEW failures \in 0..(MaxFailures + 1),
         FirstOf(listing, Index(position)) \subseteq attempted,
         Index(position) < Len(listing),
         attempted' = attempted \cup {listing[Index(position) + 1]},
         outcome = None, Continue(position, failures)
  PROVE  /\ call' \in Cursors \cup {None} /\ outcome' \in Outcomes \cup {None}
         /\ call' # None => outcome' = None /\ Walked(call', attempted')
         /\ outcome' = "complete" => Range(listing) \subseteq attempted'
<1> DEFINE next == NextPosition(position)
           cursor == [page |-> next.page, offset |-> next.offset,
                      digest |-> listing, failures |-> failures]
           last == Index(next) >= Len(listing) \/ next.page > MaxPages
<1>1. /\ next.page \in Nat \ {0} /\ next.offset \in 0..(PageSize - 1)
      /\ Index(position) \in Nat /\ Index(next) = Index(position) + 1
      /\ next.page > MaxPages => Index(next) >= PageSize * MaxPages
  BY NextIsNext
<1>2. /\ listing \in Listings /\ listing # None
      /\ Len(listing) \in Nat /\ Len(listing) <= PageSize * MaxPages
      /\ DOMAIN listing = 1..Len(listing)
  BY ListingFacts, NoneAssumption DEF TypeOK
<1>3. FirstOf(listing, Index(next)) \subseteq attempted'
  BY <1>1, OneMoreWalked
<1>4. MaxPages \in Nat /\ PageSize * MaxPages \in Nat
  BY PagesAssumption
<1>5. IF last THEN call' = None /\ outcome' = "complete" ELSE call' = cursor /\ outcome' = None
  BY DEF Continue
<1> HIDE DEF next
<1>6. CASE last
  <2>1. Index(next) >= Len(listing)
    BY <1>1, <1>2, <1>4, <1>6
  <2>2. \A i \in 1..Len(listing) : i \in 1..Index(next)
    BY <1>1, <1>2, <2>1
  <2>3. Range(listing) \subseteq attempted'
    BY <1>2, <1>3, <2>2 DEF Range, FirstOf
  <2> QED BY <1>5, <1>6, <2>3 DEF Outcomes
<1>7. CASE ~last
  <2>1. next.page \in 1..MaxPages /\ Index(next) < Len(listing)
    BY <1>1, <1>2, <1>4, <1>7
  <2>2. cursor \in Cursors
    BY <1>1, <1>2, <2>1 DEF Cursors
  <2>3. Index(cursor) = Index(next)
    BY DEF Index
  <2>4. Walked(cursor, attempted')
    BY <1>2, <1>3, <2>1, <2>3 DEF Walked
  <2> QED BY <1>5, <1>7, <2>2, <2>4, NoneAssumption DEF Outcomes
<1> QED BY <1>6, <1>7

LEMMA ReceiveStep ==
  ASSUME IInv, Receive
  PROVE  IInv'
<1>1. /\ attempted = {} /\ event \in Events /\ UNCHANGED <<listing, changes, event>>
      /\ event.named \subseteq Repositories
  BY DEF Receive, IInv, TypeOK, Events
<1>2. FreshCursor \in Cursors
  BY PagesAssumption DEF FreshCursor, Cursors
<1>3. CASE Deferred
  <2>1. call' = FreshCursor /\ UNCHANGED <<attempted, outcome>> /\ outcome = None
    BY <1>3 DEF Receive
  <2>2. Walked(FreshCursor, attempted)
    BY DEF FreshCursor, Walked
  <2> QED BY <1>1, <1>2, <2>1, <2>2 DEF IInv, TypeOK
<1>4. CASE ~Deferred
  <2>1. attempted' = event.named /\ outcome' \in {"complete", "failed"} /\ call' = None
    BY <1>4 DEF Receive
  <2> QED BY <1>1, <2>1 DEF IInv, TypeOK, Outcomes
<1> QED BY <1>3, <1>4

LEMMA StepStep ==
  ASSUME IInv, Step
  PROVE  IInv' /\ (outcome' = "complete" => Range(listing) \subseteq attempted')
<1> DEFINE position == Position(call)
           at == Index(position) + 1
<1>1. /\ TypeOK /\ call # None /\ call \in Cursors /\ outcome = None /\ Walked(call, attempted)
      /\ UNCHANGED <<listing, changes, event>>
  BY DEF IInv, TypeOK, Step
<1>2. CASE Over("stopped") /\ UNCHANGED attempted
  BY <1>1, <1>2 DEF Over, IInv, TypeOK, Outcomes
<1>3. ASSUME Valid(call)
      PROVE  /\ position \in Positions /\ Index(position) \in Nat
             /\ FirstOf(listing, Index(position)) \subseteq attempted
             /\ Index(position) = 0 \/ Index(position) < Len(listing)
             /\ call.failures \in 0..MaxFailures
  BY <1>1, <1>3, PositionWalked, NextIsNext DEF Valid
<1>4. /\ Len(listing) \in Nat /\ DOMAIN listing = 1..Len(listing)
      /\ \A i \in 1..Len(listing) : listing[i] \in Repositories
  BY <1>1, ListingFacts DEF TypeOK
<1> HIDE DEF position
<1>5. CASE Valid(call) /\ at > Len(listing) /\ Over("complete") /\ UNCHANGED attempted
  <2>1. Len(listing) = 0
    BY <1>3, <1>4, <1>5
  <2>2. Range(listing) = {}
    BY <1>4, <2>1 DEF Range
  <2> QED BY <1>1, <1>5, <2>2 DEF Over, IInv, TypeOK, Outcomes
<1>6. CASE /\ Valid(call) /\ at <= Len(listing)
           /\ attempted' = attempted \cup {listing[at]}
           /\ \/ Continue(position, call.failures)
              \/ Continue(position, call.failures + 1)
              \/ Over("stopped")
  <2>1. at \in 1..Len(listing) /\ Index(position) < Len(listing)
    BY <1>3, <1>4, <1>6
  <2>2. attempted' \subseteq Repositories
    BY <1>1, <1>4, <1>6, <2>1 DEF TypeOK
  <2>3. CASE Over("stopped")
    BY <1>1, <2>2, <2>3 DEF Over, IInv, TypeOK, Outcomes
  <2>4. ASSUME NEW failures \in 0..(MaxFailures + 1), Continue(position, failures)
        PROVE  IInv' /\ (outcome' = "complete" => Range(listing) \subseteq attempted')
    <3>1. /\ call' \in Cursors \cup {None} /\ outcome' \in Outcomes \cup {None}
          /\ call' # None => outcome' = None /\ Walked(call', attempted')
          /\ outcome' = "complete" => Range(listing) \subseteq attempted'
      BY <1>1, <1>3, <1>6, <2>1, <2>4, ContinueWalked
    <3> QED BY <1>1, <2>2, <3>1 DEF IInv, TypeOK
  <2>5. call.failures \in 0..(MaxFailures + 1) /\ call.failures + 1 \in 0..(MaxFailures + 1)
    BY <1>3, <1>6, PagesAssumption
  <2> QED BY <1>6, <2>3, <2>4, <2>5
<1> QED BY <1>2, <1>5, <1>6 DEF Step, position

LEMMA LoseStep ==
  ASSUME IInv, Lose
  PROVE  IInv' /\ outcome' # "complete"
<1>1. /\ TypeOK /\ call # None /\ Walked(call, attempted) /\ call' = None /\ outcome' = "lost"
      /\ UNCHANGED <<listing, changes, event>>
  BY DEF IInv, Lose, Over
<1>2. attempted' \subseteq Repositories
  <2>1. CASE UNCHANGED attempted
    BY <1>1, <2>1 DEF TypeOK
  <2>2. CASE /\ Valid(call) /\ Index(Position(call)) < Len(listing)
             /\ attempted' = attempted \cup {listing[Index(Position(call)) + 1]}
    <3>1. Index(Position(call)) \in Nat
      BY <1>1, <2>2, PositionWalked, NextIsNext
    <3>2. /\ Len(listing) \in Nat
          /\ \A i \in 1..Len(listing) : listing[i] \in Repositories
      BY <1>1, ListingFacts DEF TypeOK
    <3>3. Index(Position(call)) + 1 \in 1..Len(listing)
      BY <2>2, <3>1, <3>2
    <3> QED BY <1>1, <2>2, <3>2, <3>3 DEF TypeOK
  <2> QED BY <2>1, <2>2 DEF Lose
<1> QED BY <1>1, <1>2 DEF IInv, TypeOK, Outcomes

LEMMA ChangeStep ==
  ASSUME IInv, Change
  PROVE  IInv'
<1>1. changes' \in 0..MaxChanges
  BY ChangesAssumption DEF IInv, TypeOK, Change
<1> QED BY <1>1 DEF IInv, TypeOK, Change

LEMMA NextWalked == IInv /\ [Next]_vars => IInv'
<1> SUFFICES ASSUME IInv, [Next]_vars PROVE IInv'
  OBVIOUS
<1>1. CASE UNCHANGED vars
  BY <1>1 DEF vars, IInv, TypeOK
<1> QED BY <1>1, ReceiveStep, StepStep, LoseStep, ChangeStep DEF Next

LEMMA InitWalked == Init => IInv
<1> SUFFICES ASSUME Init PROVE IInv
  OBVIOUS
<1>1. event \in Events /\ 0 \in 0..MaxChanges
  BY ChangesAssumption DEF Init
<1> QED BY <1>1 DEF Init, IInv, TypeOK

\* The walk keeps its types: no step of runSignedSetupStep signs a cursor that
\* the next would have to refuse, but for the number of failures.
THEOREM WalkTypeOK == Spec => []TypeOK
<1>1. IInv => TypeOK
  BY DEF IInv
<1> QED BY <1>1, InitWalked, NextWalked, PTL DEF Spec

\* However large the installation and its pages, and whatever is added,
\* removed or reordered between two steps, a walk that ends by itself has
\* attempted every repository of the listing it ends on.
THEOREM WalkCovers == Spec => CompleteCoversListing
<1>1. ASSUME IInv, [Next]_vars
      PROVE  [outcome' = "complete" /\ Deferred => Range(listing) \subseteq attempted']_vars
  <2>1. CASE Receive
    <3>1. Deferred => outcome' = None
      BY <2>1 DEF Receive
    <3> QED BY <3>1, NoneAssumption DEF Outcomes
  <2>2. CASE Change
    <3>1. outcome' = None
      BY <2>2 DEF Change
    <3> QED BY <3>1, NoneAssumption DEF Outcomes
  <2> QED BY <1>1, <2>1, <2>2, StepStep, LoseStep DEF Next
<1> QED BY <1>1, InitWalked, NextWalked, PTL DEF Spec, CompleteCoversListing
=============================================================================

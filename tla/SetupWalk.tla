----------------------------- MODULE SetupWalk ------------------------------
(***************************************************************************)
(* The walk of one webhook delivery over the repositories of an            *)
(* installation (worker.ts, webhook; github-app.ts, deferInstallationSetup;*)
(* setup-step.ts, runSignedSetupStep).  A delivery that names one          *)
(* repository is processed at once.  Any other is deferred: each step reads *)
(* the installation's listing anew, sets up one repository and calls the   *)
(* Worker itself with a signed cursor for the next.  The cursor carries a  *)
(* position and a digest of the listing, nothing else survives a step.     *)
(***************************************************************************)
EXTENDS Naturals, Sequences, FiniteSets, Functions

CONSTANTS
  None,
  Repositories,  \* repositories the App may be installed on
  PageSize,      \* repositories to a page of the cursor's position
  MaxPages,      \* pages a cursor can name
  MaxFailures,   \* failures a cursor can carry
  Lossy,         \* a self-call may be lost, delayed past its expiry, or killed
  MaxChanges     \* bound on the changes of the installation's listing

ASSUME PagesAssumption ==
  /\ PageSize \in Nat \ {0} /\ MaxPages \in Nat \ {0} /\ MaxFailures \in Nat
  /\ IsFiniteSet(Repositories) /\ Cardinality(Repositories) <= PageSize * MaxPages
ASSUME LossyAssumption == Lossy \in BOOLEAN
ASSUME ChangesAssumption == MaxChanges \in Nat

VARIABLES
  listing,    \* the installation's repositories, in GitHub's order
  changes,    \* changes of the listing so far
  event,      \* the delivery: its kind and the repositories it names
  call,       \* the cursor of the self-call under way, or None
  attempted,  \* repositories whose setup was attempted
  outcome     \* None until the delivery is over, then how it ended

vars == <<listing, changes, event, call, attempted, outcome>>

\* The listings GitHub may return: repositories are never listed twice.
Listings == UNION {{s \in [1..n -> Repositories] : IsInjective(s)}
                     : n \in 0..Cardinality(Repositories)}

Events ==
  [kind : {"installation"}, named : SUBSET Repositories]
    \cup [kind : {"added"}, named : SUBSET Repositories \ {{}}]

FreshCursor == [page |-> 1, offset |-> 0, digest |-> None, failures |-> 0]

\* The delivery names repositories that are in the installation.
Init ==
  /\ listing \in Listings
  /\ changes = 0 /\ attempted = {} /\ outcome = None /\ call = None
  /\ event \in {e \in Events : e.named \subseteq Range(listing)}

Deferred ==
  \/ Cardinality(event.named) > 1
  \/ event.kind = "installation" /\ event.named = {}

\* The webhook itself: one repository at once, anything else by the walk.
Receive ==
  /\ outcome = None /\ call = None /\ attempted = {}
  /\ IF Deferred
     THEN call' = FreshCursor /\ UNCHANGED <<attempted, outcome>>
     ELSE /\ attempted' = event.named
          /\ outcome' \in {"complete", "failed"}
          /\ UNCHANGED call
  /\ UNCHANGED <<listing, changes, event>>

-----------------------------------------------------------------------------
(* One step of the walk                                                    *)

Valid(cursor) ==
  /\ cursor.page \in 1..MaxPages
  /\ cursor.offset \in 0..(PageSize - 1)
  /\ cursor.failures \in 0..MaxFailures

\* Slip: the position is kept whatever has become of the listing.
PositionSlip(cursor) == [page |-> cursor.page, offset |-> cursor.offset]

\* Slip: the last position is taken for one of a listing that has shrunk.
ShrunkSlip(cursor) ==
  IF (cursor.page - 1) * PageSize + cursor.offset + 1 >= Len(listing)
  THEN [page |-> 1, offset |-> 0]
  ELSE [page |-> cursor.page, offset |-> cursor.offset]

\* A listing that has changed is walked from its start.
Position(cursor) ==
  IF cursor.digest \notin {None, listing}
  THEN [page |-> 1, offset |-> 0]
  ELSE [page |-> cursor.page, offset |-> cursor.offset]

Index(position) == (position.page - 1) * PageSize + position.offset

\* Slip: one offset too many to a page.
NextPositionSlip(position) ==
  IF position.offset < PageSize
  THEN [position EXCEPT !.offset = @ + 1]
  ELSE [page |-> position.page + 1, offset |-> 0]

NextPosition(position) ==
  IF position.offset + 1 < PageSize
  THEN [position EXCEPT !.offset = @ + 1]
  ELSE [page |-> position.page + 1, offset |-> 0]

\* The self-call for the next repository, or the end of the walk, whether or not
\* the repository failed.
Continue(position, failures) ==
  LET next == NextPosition(position)
      last == Index(next) >= Len(listing) \/ next.page > MaxPages
  IN  IF last
      THEN call' = None /\ outcome' = "complete"
      ELSE /\ call' = [page |-> next.page, offset |-> next.offset,
                       digest |-> listing, failures |-> failures]
           /\ UNCHANGED outcome

Over(result) == call' = None /\ outcome' = result

\* The cursor is verified and the listing read; the listing may be empty by
\* now.  A repository that fails is counted and passed over, a failure that
\* concerns the whole installation ends the walk.
Step ==
  /\ call # None
  /\ IF ~Valid(call)
     THEN Over("stopped") /\ UNCHANGED attempted
     ELSE LET position == Position(call)
              at == Index(position) + 1
          IN  \/ Over("stopped") /\ UNCHANGED attempted
              \/ /\ at > Len(listing)
                 /\ Over("complete") /\ UNCHANGED attempted
              \/ /\ at <= Len(listing)
                 /\ attempted' = attempted \cup {listing[at]}
                 /\ \/ Continue(position, call.failures)
                    \/ Continue(position, call.failures + 1)
                    \/ Over("stopped")
  /\ UNCHANGED <<listing, changes, event>>

\* The call is lost on its way or dies, before or after its repository.
Lose ==
  /\ Lossy /\ call # None
  /\ Over("lost")
  /\ \/ UNCHANGED attempted
     \/ /\ Valid(call) /\ Index(Position(call)) < Len(listing)
        /\ attempted' = attempted \cup {listing[Index(Position(call)) + 1]}
  /\ UNCHANGED <<listing, changes, event>>

\* Repositories are added to the installation, removed, renamed.
Change ==
  /\ outcome = None /\ changes < MaxChanges
  /\ changes' = changes + 1
  /\ listing' \in Listings \ {listing}
  /\ UNCHANGED <<event, call, attempted, outcome>>

Next == Receive \/ Step \/ Lose \/ Change

\* waitUntil keeps the Worker alive until the self-call has been made, and a
\* request that is delivered is handled.
Spec == Init /\ [][Next]_vars /\ WF_vars(Receive) /\ WF_vars(Step)

-----------------------------------------------------------------------------
(* Properties                                                              *)

Cursors ==
  [page : 1..MaxPages, offset : 0..(PageSize - 1),
   digest : Listings \cup {None}, failures : 0..(MaxFailures + 1)]

Outcomes == {"complete", "failed", "stopped", "lost"}

ASSUME NoneAssumption == None \notin Listings /\ None \notin Cursors /\ None \notin Outcomes

\* A cursor that the Worker signs is one it can name.
TypeOK ==
  /\ listing \in Listings
  /\ changes \in 0..MaxChanges
  /\ event \in Events
  /\ call \in Cursors \cup {None}
  /\ attempted \subseteq Repositories
  /\ outcome \in Outcomes \cup {None}

\* A walk that ends by itself has attempted every repository of the listing
\* it ends on, whatever was added, removed or reordered while it ran and
\* however many repositories failed.
CompleteCoversListing ==
  [][outcome' = "complete" /\ Deferred => Range(listing) \subseteq attempted']_vars

\* A walk does not go on for ever: every delivery is over in the end.
DeliveryEnds == <>(outcome # None)
=============================================================================

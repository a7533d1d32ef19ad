------------------------- MODULE GroupPublication --------------------------
(***************************************************************************)
(* The publication of one review in several native objects                 *)
(* (native_group_publication.py, publish_final) over the session comment   *)
(* that retains its frontier (publication_staging.py,                      *)
(* checkpoint_publication_staging; session_ledger.py, replace).            *)
(*                                                                         *)
(* The pull request's workflow runs one process at a time, may kill it     *)
(* anywhere and may run it again.  A request of a dead process, or one     *)
(* whose answer was lost, can still be applied later.  GitHub creates an   *)
(* object for every POST and replaces the comment for every PATCH: neither *)
(* is conditional.  Each object is one effect: the parts in their order,   *)
(* then the manifest comment, then the final review.                       *)
(***************************************************************************)
EXTENDS PublicationStaging

CONSTANTS
  Sizes,     \* the number of inline comments of each part
  Earlier,   \* those of the producer's earlier reviews of the same head
  MaxStarts  \* bound: how often the workflow runs the publication

Parts    == 1..PartCount
Manifest == PartCount + 1
Final    == PartCount + 2
Done     == PartCount + 3
Effects  == 1..Final

ASSUME PublicationAssumption ==
  /\ ManifestRequired
  /\ Sizes \in [Parts -> Nat \ {0}]
  /\ Earlier \in Seq(Nat)
  /\ MaxStarts \in Nat

VARIABLES
  record,        \* publication_staging in the session comment, or None
  shown,         \* the visible copies of each effect: for each, what it says
  posts,         \* POSTs without an answer that may still be applied
  patches,       \* PATCHes without an answer that may still be applied
  run,           \* the live process
  starts,        \* how many processes there have been
  acknowledged,  \* a process returned from publish_final
  rolledBack     \* a PATCH has taken an attempt back

vars ==
  <<record, shown, posts, patches, run, starts, acknowledged, rolledBack>>

-----------------------------------------------------------------------------
(* The frontier, effect by effect                                          *)

\* How far a retained frontier has attempted.
Reach(s) ==
  IF s = None THEN 0
  ELSE Len(s.tokens) + (IF s.manifestToken = None THEN 0 ELSE 1)
                     + (IF s.finalToken = None THEN 0 ELSE 1)

Attempt(s, e, token) ==
  IF e \in Parts THEN AttemptPart(s, token)
  ELSE IF e = Manifest THEN AttemptManifest(s, token)
  ELSE AttemptFinal(s, token)

\* A receipt that is already there is the one that was found again.
Confirm(s, e, native) ==
  IF e \in Parts THEN ConfirmPart(s, native)
  ELSE IF e = Manifest THEN ConfirmManifest(s, native)
  ELSE ConfirmFinal(s, native)

\* What a part is identified by besides its place, and what the manifest and
\* the final review repeat: the receipts of the parts.
Says(s, e) == IF e \in Parts THEN <<>> ELSE s.receipts

-----------------------------------------------------------------------------
(* What a census of the pull request finds                                 *)

Copies(e) == {<<e, c>> : c \in DOMAIN shown[e]}

EarlierReviews == {<<0, i>> : i \in DOMAIN Earlier}

Visible == EarlierReviews \cup UNION {Copies(e) : e \in Effects}

SizeOf(native) ==
  IF native[1] = 0 THEN Earlier[native[2]]
  ELSE IF native[1] = Final THEN 0 ELSE Sizes[native[1]]

\* The producer's reviews of the head that have as many inline comments and
\* no receipt in s; only the answered identity if there was an answer.
LookAlikes(s, size, known) ==
  {native \in Visible \ Copies(Manifest) :
     /\ SizeOf(native) = size
     /\ \A i \in DOMAIN s.receipts : s.receipts[i] # native
     /\ known \in {None, native}}

PartFoundSlip(retained, e, known, native) ==
  LookAlikes(retained, Sizes[e], known) = {native}

\* reconcile_part: a single candidate, whose comments are read back complete.
PartFound(retained, e, known, native) ==
  LookAlikes(retained, Sizes[e], known) = {native} /\ native[1] = e

\* NativeManifestStore.find: every manifest of the transaction says the same.
ManifestFound(s, known, native) ==
  /\ Copies(Manifest) = {native}
  /\ shown[Manifest][native[2]] = Says(s, Manifest)
  /\ known \in {None, native}

\* read_publication_union: the parts are exactly the receipted reviews, and
\* nothing else of them is visible.
UnionRead(s) == \A e \in Parts : Copies(e) = {s.receipts[e]}

\* The final review repeats the receipts and is read back with their union.
FinalFound(s, known, native) ==
  /\ LookAlikes(s, 0, known) = {native} /\ native[1] = Final
  /\ shown[Final][native[2]] = Says(s, Final)
  /\ UnionRead(s)

Found(retained, s, e, known, native) ==
  IF e \in Parts THEN PartFound(retained, e, known, native)
  ELSE IF e = Manifest THEN ManifestFound(s, known, native)
  ELSE FinalFound(s, known, native)

\* The answered identity, or the one of a receipt that is already there.
Known(s, e, answered) ==
  IF e = Manifest /\ s.manifestReceipt # None THEN s.manifestReceipt
  ELSE IF e = Final /\ s.finalReceipt # None THEN s.finalReceipt
  ELSE answered

-----------------------------------------------------------------------------
(* The process                                                             *)

At(pc, e, s) ==
  [pc |-> pc, effect |-> e, state |-> s, after |-> None, known |-> None]

Idle == At("idle", 0, None)

\* checkpoint(before, after), which claims the effect e (Done: none).
Checkpoint(before, after, e) ==
  [pc |-> "read", effect |-> e, state |-> before, after |-> after, known |-> None]

\* The token that the process number n draws for the effect e.
Token(n, e) == <<n, e>>

FirstPending(s) == Len(s.receipts) + 1

Init ==
  /\ record = None
  /\ shown = [e \in Effects |-> <<>>]
  /\ posts = {} /\ patches = {}
  /\ run = Idle
  /\ starts = 0
  /\ acknowledged = FALSE
  /\ rolledBack = FALSE

\* publish_final reads the retained frontier and enters the walk at the first
\* part without a receipt, or at the manifest.
Start ==
  /\ run.pc = "idle" /\ starts < MaxStarts
  /\ starts' = starts + 1
  /\ LET s == IF record = None THEN Prepared ELSE record
         e == FirstPending(s) IN
     run' = IF Reach(s) >= e
            THEN At("census", e, record)
            ELSE Checkpoint(record, Attempt(s, e, Token(starts + 1, e)), e)
  /\ UNCHANGED <<record, shown, posts, patches, acknowledged, rolledBack>>

\* The mutation of replace: the retained frontier is the proposed one, or the
\* expected one and a legal predecessor; anything else raises.
ReadRecord ==
  /\ run.pc = "read"
  /\ run' = IF record = run.after
               \/ (record = run.state /\ MayReplace(record, run.after))
            THEN [run EXCEPT !.pc = "write"] ELSE Idle
  /\ UNCHANGED <<record, shown, posts, patches, starts, acknowledged, rolledBack>>

Land(after) ==
  /\ record' = after
  /\ rolledBack' = (rolledBack \/ Reach(after) < Reach(record))

\* The PATCH is answered, or it is ambiguous and ends the process.
WriteAnswered ==
  /\ run.pc = "write"
  /\ Land(run.after)
  /\ run' = [run EXCEPT !.pc = "readback"]
  /\ UNCHANGED <<shown, posts, patches, starts, acknowledged>>

WriteUnanswered ==
  /\ run.pc = "write"
  /\ patches' = patches \cup {run.after}
  /\ run' = Idle
  /\ UNCHANGED <<record, shown, posts, starts, acknowledged, rolledBack>>

\* The read-back of replace must be the written frontier.
ReadBack ==
  /\ run.pc = "readback"
  /\ run' = IF record # run.after \/ run.effect = Done
            THEN Idle ELSE At("claim", run.effect, run.after)
  /\ acknowledged' = (acknowledged \/ (record = run.after /\ run.effect = Done))
  /\ UNCHANGED <<record, shown, posts, patches, starts, rolledBack>>

\* require_claim: only the process whose own attempt is retained dispatches it.
RequireClaim ==
  /\ run.pc = "claim"
  /\ run' = IF record = run.state THEN [run EXCEPT !.pc = "post"] ELSE Idle
  /\ UNCHANGED <<record, shown, posts, patches, starts, acknowledged, rolledBack>>

\* The only POST of the effect under this claim.
PostAnswered ==
  /\ run.pc = "post"
  /\ LET e == run.effect IN
     /\ shown' = [shown EXCEPT ![e] = Append(@, Says(run.state, e))]
     /\ run' = [run EXCEPT !.pc = "census", !.known = <<e, Len(shown[e]) + 1>>]
  /\ UNCHANGED <<record, posts, patches, starts, acknowledged, rolledBack>>

PostUnanswered ==
  /\ run.pc = "post"
  /\ posts' = posts \cup {[effect |-> run.effect, start |-> starts,
                           says |-> Says(run.state, run.effect)]}
  /\ run' = [run EXCEPT !.pc = "census"]
  /\ UNCHANGED <<record, shown, patches, starts, acknowledged, rolledBack>>

SettledSlip(s, e, native) ==
  LET confirmed == Confirm(s, e, native) IN
  IF e = Final THEN Checkpoint(s, confirmed, Done)
  ELSE IF Reach(s) > e THEN At("census", e + 1, s)
  ELSE Checkpoint(s, Attempt(s, e + 1, Token(starts, e + 1)), e + 1)

\* What has been found is confirmed in one checkpoint with the next attempt.  A
\* manifest found again needs no checkpoint if the final review is attempted.
Settled(s, e, native) ==
  LET confirmed == Confirm(s, e, native) IN
  IF e = Final THEN Checkpoint(s, confirmed, Done)
  ELSE IF Reach(s) > e THEN At("census", e + 1, s)
  ELSE Checkpoint(s, Attempt(confirmed, e + 1, Token(starts, e + 1)), e + 1)

CensusSlip ==
  /\ run.pc = "census"
  /\ \E retained \in {run.state, record} \ {None} :
       LET s     == run.state
           e     == run.effect
           found == {native \in Visible :
                       Found(retained, s, e, Known(s, e, run.known), native)} IN
       run' \in IF found = {} THEN {[run EXCEPT !.pc = "post"]}
                ELSE {Settled(s, e, o) : o \in found}
  /\ UNCHANGED <<record, shown, posts, patches, starts, acknowledged, rolledBack>>

\* The effect is confirmed from the object itself, never from the answer alone;
\* an effect that cannot be found ends the process and permits no other POST.
\* The receipts that exclude a part's candidates are the process's own, or the
\* ones it reads again (_current_frontier).
Census ==
  /\ run.pc = "census"
  /\ \E retained \in {run.state, record} \ {None} :
       LET s     == run.state
           e     == run.effect
           found == {native \in Visible :
                       Found(retained, s, e, Known(s, e, run.known), native)} IN
       run' \in IF found = {} THEN {Idle} ELSE {Settled(s, e, o) : o \in found}
  /\ UNCHANGED <<record, shown, posts, patches, starts, acknowledged, rolledBack>>

\* The workflow run is cancelled or dies.
Crash ==
  /\ run.pc # "idle"
  /\ run' = Idle
  /\ UNCHANGED <<record, shown, posts, patches, starts, acknowledged, rolledBack>>

-----------------------------------------------------------------------------
(* GitHub applies, or drops, a request whose answer nobody has             *)

LatePost(p) ==
  /\ posts' = posts \ {p}
  /\ shown' = [shown EXCEPT ![p.effect] = Append(@, p.says)]
  /\ UNCHANGED <<record, patches, run, starts, acknowledged, rolledBack>>

LostPost(p) ==
  /\ posts' = posts \ {p}
  /\ UNCHANGED <<record, shown, patches, run, starts, acknowledged, rolledBack>>

LatePatch(w) ==
  /\ patches' = patches \ {w}
  /\ Land(w)
  /\ UNCHANGED <<shown, posts, run, starts, acknowledged>>

LostPatch(w) ==
  /\ patches' = patches \ {w}
  /\ UNCHANGED <<record, shown, posts, run, starts, acknowledged, rolledBack>>

Process ==
  \/ Start \/ ReadRecord \/ WriteAnswered \/ WriteUnanswered \/ ReadBack
  \/ RequireClaim \/ PostAnswered \/ PostUnanswered \/ Census \/ Crash

GitHub ==
  \/ \E p \in posts : LatePost(p) \/ LostPost(p)
  \/ \E w \in patches : LatePatch(w) \/ LostPatch(w)

Next == Process \/ GitHub

Spec == Init /\ [][Next]_vars

-----------------------------------------------------------------------------
(* What publication must guarantee                                         *)

\* The frontiers that are retained, on their way, or in the process.
InPlay == ({record, run.state, run.after} \cup patches) \ {None}

Runs ==
  [pc : {"idle", "read", "write", "readback", "claim", "post", "census"},
   effect : 0..Done, state : Frontiers \cup {None}, after : Frontiers \cup {None},
   known : Natives \cup {None}]

\* The types; and every frontier is one the PublicationStaging constructor
\* accepts, so that the session record can always be read back.
TypeOK ==
  /\ record \in Frontiers \cup {None}
  /\ shown \in [Effects -> Seq(Seq(Natives))]
  /\ posts \subseteq [effect : Effects, start : Nat, says : Seq(Natives)]
  /\ patches \subseteq Frontiers
  /\ run \in Runs
  /\ starts \in 0..MaxStarts
  /\ acknowledged \in BOOLEAN /\ rolledBack \in BOOLEAN
  /\ \A s \in InPlay : Valid(s)

\* However the requests of dead processes land, an object never appears before
\* all of those it builds on are visible, it appears once unless a late write
\* took an attempt back, and publish_final returns only when all are there.
Promise == INSTANCE PublicationPromise
             WITH count <- [e \in Effects |-> Len(shown[e])]

Promised == Promise!Spec

\* A receipt names an object of its own effect, although candidates are chosen
\* by their size and an earlier review, or a copy, can look the same
\* (reconcile_part, find, publish_final).
NamesOwnObjects(s) ==
  /\ \A i \in DOMAIN s.receipts : s.receipts[i] \in Copies(i)
  /\ s.manifestReceipt # None => s.manifestReceipt \in Copies(Manifest)
  /\ s.finalReceipt # None => s.finalReceipt \in Copies(Final)

ReceiptsNameOwnObjects == \A s \in InPlay : NamesOwnObjects(s)

\* The frontier that the walk proposes is never one the staging module refuses
\* where it was expected (require_staging_successor raises).
ProposalsAreLegal ==
  run.pc = "read" => MayReplace(run.state, run.after)
=============================================================================

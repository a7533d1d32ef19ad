----------------------------- MODULE HostedRuns -----------------------------
(***************************************************************************)
(* The workflow runs of one pull request, one after another, over the      *)
(* session record in its GitHub comment (review_run.py, action_run.py,     *)
(* api_run_requests.py, api_run_history.py, session_ledger.py).            *)
(*                                                                         *)
(* A run reviews the pull request or carries out a maintainer's command.   *)
(* It takes the record over from the run before it, whose last record it   *)
(* archives first; it may be attempted twice, each time by one process.    *)
(* The jobs of a pull request share a concurrency group, so no two of      *)
(* these processes live at once.  But a process dies anywhere, a POST or   *)
(* PATCH may be applied although its answer is lost, and GitHub may apply  *)
(* it later, under the feet of a later process: nothing here is a          *)
(* compare-and-swap, and a POST is not even conditional.                   *)
(*                                                                         *)
(* ApiRun counts the requests of one run; here a write is its fence, the   *)
(* request and the read that confirms it, and requests are free.           *)
(***************************************************************************)
EXTENDS Integers, Sequences, FiniteSets

CONSTANTS
  Tasks,    \* what runs are for, of "review", "pause" and "continue"
  Faults,   \* of "crash", "fail" (analysis), "lost" and "late" (writes)
  MaxRuns,  \* a bound: how many runs there are
  MaxHead,  \* a bound: how often the head moves
  MaxLost   \* a bound: how many writes are not answered

ASSUME HostedAssumption ==
  /\ Tasks \subseteq {"review", "pause", "continue"}
  /\ Faults \subseteq {"crash", "fail", "lost", "late"}
  /\ MaxRuns \in Nat /\ MaxHead \in Nat \ {0} /\ MaxLost \in Nat

VARIABLES
  comments,  \* the session comments of the pull request: there should be one
  carriers,  \* the archived records, each in a comment of its own
  flight,    \* unanswered writes that GitHub has not applied yet
  head,      \* the head of the pull request
  tries,     \* how often each run was attempted
  task,      \* what each run is for
  aim,       \* the head each run is for
  live,      \* the run whose process lives, or 0
  pc,        \* where that process stands
  kind,      \* the write it is at
  root,      \* _root, the record it last confirmed
  cand,      \* the record it is writing
  did,       \* what it has done so far
  spot,      \* the session comment it has found and is about to change, or 0
  entered,   \* ghost: the run attempts that asked the provider
  posted,    \* ghost: the heads whose review was published
  receipts,  \* ghost: how often the command of each run took effect
  abandoned, \* ghost: the run attempts whose review failed
  overtaken, \* ghost: a late PATCH replaced a record it was not made from
  lost       \* how many writes were not answered

github  == <<comments, carriers, flight, lost>>
runs    == <<head, tries, task, aim>>
process == <<live, pc, kind, root, cand, did, spot>>
ghosts  == <<entered, posted, receipts, abandoned, overtaken>>
vars    == <<github, runs, process, ghosts>>

-----------------------------------------------------------------------------
(* The record *)

Runs  == 1 .. MaxRuns
Heads == 1 .. MaxHead
Refs  == [run : 0 .. MaxRuns, att : 0 .. 2, gen : Nat]  \* stands for record_sha256

\* prev is previous_record, the reference to the archived predecessor.
Records ==
  [ run : 0 .. MaxRuns, att : 0 .. 2, gen : Nat, prev : Refs,
    hold : {"none", "review", "charge"},
    tx : [phase : {"none", "analysis", "pending", "published"}, head : 0 .. MaxHead],
    action : [phase : {"none", "pending", "started", "terminal"}, head : 0 .. MaxHead],
    closed : {"open", "published", "aborted"},
    paused : BOOLEAN ]

Ref(r) == [run |-> r.run, att |-> r.att, gen |-> r.gen]
NoRef  == [run |-> 0, att |-> 0, gen |-> 0]
Nothing == [phase |-> "none", head |-> 0]

Missing ==
  [ run |-> 0, att |-> 0, gen |-> 0, prev |-> NoRef, hold |-> "none",
    tx |-> Nothing, action |-> Nothing, closed |-> "open", paused |-> FALSE ]

\* What the constructors of the record and of its accounting demand.
WellFormed(r) ==
  /\ r.tx.phase = "analysis" => r.hold = "review"
  /\ r.hold = "review" => r.tx.phase \in {"none", "analysis"} /\ r.closed = "open"
  /\ r.hold = "charge" => r.tx.phase = "none"
  /\ r.action.phase # "none" => r.hold = "none" /\ r.closed = "open"
  /\ r.closed = "aborted" => r.tx.phase = "none"

\* Slip: of several session comments the newest is taken.
FoundSlip == Len(comments)

\* _discover: the session comment, unless there is none or several.
Found == IF Len(comments) = 1 THEN 1 ELSE 0

\* What discovery reads; several comments are a conflict, equal to no record.
Discover ==
  IF comments = <<>> THEN Missing
  ELSE IF Found = 0 THEN [Missing EXCEPT !.gen = -1] ELSE comments[Found]

\* How the record is born, taken over, and recovered by a second attempt.
Enrolled      == [Missing EXCEPT !.run = live, !.att = 1]
RolledOver(r) == [r EXCEPT !.run = live, !.att = 1, !.prev = Ref(r),
                           !.action = Nothing, !.closed = "open"]
Recovered(r)  == [r EXCEPT !.att = 2]

\* Slip: a reservation keeps the transaction of the round before.
ReservedSlip(r) == [r EXCEPT !.hold = "review"]

\* A review: the round is reserved, its transaction attached, the result
\* retained and published, and the run closed; or the round is given back,
\* the run closed by its abort, and a failed attempt charged by a round of
\* its own.
Reserved(r)  == [r EXCEPT !.hold = "review", !.tx = Nothing]
Attached(r)  == [r EXCEPT !.tx = [phase |-> "analysis", head |-> aim[live]]]
Retained(r)  == [r EXCEPT !.hold = "none", !.tx.phase = "pending"]
Published(r) == [r EXCEPT !.tx.phase = "published"]
Finished(r)  == [r EXCEPT !.closed = "published"]
CleanedUp(r) == [r EXCEPT !.hold = "none", !.tx = Nothing]
Closed(r)    == [r EXCEPT !.closed = "aborted"]
Charging(r)  == [r EXCEPT !.hold = "charge"]
Charged(r)   == [r EXCEPT !.hold = "none"]

\* A command: its intent, the mark that it is being carried out, what it does
\* to the record, and its completion.
Admitted(r)   == [r EXCEPT !.action = [phase |-> "pending", head |-> aim[live]]]
Begun(r)      == [r EXCEPT !.action.phase = "started"]
Effected(r)   == [r EXCEPT !.paused = (task[live] = "pause")]
Terminated(r) == [r EXCEPT !.action.phase = "terminal"]

Kinds == {"enrol", "rollover", "recover", "reserve", "attach", "retain", "publish",
          "finish", "cleanup", "close", "charge", "charged",
          "admit", "begin", "apply", "terminal"}

\* The record a write makes of another: every write has a new generation.
Change(k, r) ==
  LET s == [r EXCEPT !.gen = @ + 1] IN
  CASE k = "enrol"    -> Enrolled
    [] k = "rollover" -> [RolledOver(r) EXCEPT !.gen = @ + 1]
    [] k = "recover"  -> Recovered(s)
    [] k = "reserve"  -> Reserved(s)
    [] k = "attach"   -> Attached(s)
    [] k = "retain"   -> Retained(s)
    [] k = "publish"  -> Published(s)
    [] k = "finish"   -> Finished(s)
    [] k = "cleanup"  -> CleanedUp(s)
    [] k = "close"    -> Closed(s)
    [] k = "charge"   -> Charging(s)
    [] k = "charged"  -> Charged(s)
    [] k = "admit"    -> Admitted(s)
    [] k = "begin"    -> Begun(s)
    [] k = "apply"    -> Effected(s)
    [] k = "terminal" -> Terminated(s)

-----------------------------------------------------------------------------
(* Runs come and go *)

Init ==
  /\ comments = <<>> /\ carriers = {} /\ flight = {} /\ lost = 0
  /\ head = 1 /\ tries = [r \in Runs |-> 0]
  /\ task = [r \in Runs |-> "review"] /\ aim = [r \in Runs |-> 1]
  /\ live = 0 /\ pc = "load" /\ kind = "enrol" /\ root = Missing /\ cand = Missing
  /\ did = {} /\ spot = 0
  /\ entered = {} /\ posted = {} /\ receipts = [r \in Runs |-> 0]
  /\ abandoned = {} /\ overtaken = FALSE

Push ==
  /\ head < MaxHead /\ head' = head + 1
  /\ UNCHANGED <<github, tries, task, aim, process, ghosts>>

Begins(r) == live' = r /\ pc' = "load" /\ UNCHANGED <<kind, root, cand, did, spot>>

\* A new run; their ids grow.
Start(r, t) ==
  /\ live = 0 /\ tries[r] = 0 /\ \A q \in 1 .. (r - 1) : tries[q] > 0
  /\ tries' = [tries EXCEPT ![r] = 1]
  /\ task' = [task EXCEPT ![r] = t] /\ aim' = [aim EXCEPT ![r] = head]
  /\ Begins(r)
  /\ UNCHANGED <<head, github, ghosts>>

\* Somebody re-runs a run, at any time; a third attempt is refused.  A command
\* looks at the head as it is, a review insists on the one it was started for.
Rerun(r) ==
  /\ live = 0 /\ tries[r] = 1
  /\ tries' = [tries EXCEPT ![r] = 2]
  /\ aim' = IF task[r] = "review" THEN aim ELSE [aim EXCEPT ![r] = head]
  /\ Begins(r)
  /\ UNCHANGED <<head, task, github, ghosts>>

\* GitHub applies a write at last.
Applied(w) ==
  \/ w.to = "new" /\ comments' = Append(comments, w.record) /\ UNCHANGED carriers
  \/ /\ w.to = "archive" /\ UNCHANGED comments
     /\ carriers' = carriers \cup
          {[ref |-> Ref(w.record),
            copy |-> 1 + Cardinality({c \in carriers : c.ref = Ref(w.record)})]}
  \/ /\ w.to = "comment" /\ UNCHANGED carriers
     /\ comments' = [comments EXCEPT ![w.spot] = w.record]

\* The PATCH that a compare-and-swap would have refused.
Overtakes(w) == w.to = "comment" /\ comments[w.spot] # w.from

Land ==
  \E w \in flight :
    /\ flight' = flight \ {w} /\ Applied(w)
    /\ overtaken' = (overtaken \/ Overtakes(w))
    /\ UNCHANGED <<lost, runs, process, entered, posted, receipts, abandoned>>

\* What may become of a request: the answer and its effect.
Answered(w)   == Applied(w) /\ UNCHANGED <<flight, lost>>
Unanswered(w) ==
  /\ "lost" \in Faults /\ lost < MaxLost /\ lost' = lost + 1
  /\ \/ Applied(w) /\ UNCHANGED flight
     \/ UNCHANGED <<comments, carriers, flight>>
     \/ /\ "late" \in Faults /\ flight' = flight \cup {w}
        /\ UNCHANGED <<comments, carriers>>

-----------------------------------------------------------------------------
(* bootstrap: the record is enrolled, taken over, or recovered *)

\* Slip: it is enough that nothing is reserved.
CanTakeOverSlip(r) == r.run \in Runs /\ r.hold = "none"

\* _rollover_and_activate and the record's own rollover: nothing is reserved,
\* and the predecessor's command, its review or its abort is closed.
CanTakeOver(r) ==
  /\ r.run \in Runs /\ r.hold = "none"
  /\ \/ r.action.phase = "terminal"
     \/ /\ r.action.phase = "none"
        /\ \/ r.closed = "aborted" /\ r.tx.phase = "none"
           \/ r.closed = "published" /\ r.tx.phase = "published"

\* ceased_run_owner: the run has ended, in the attempt that owns the record.
Ceased(r) == r.run # live /\ tries[r.run] = r.att

\* The second attempt of a run: the record is this run's, and still open; a
\* review wants its own transaction, or none and no reservation either.
CanRecover(r) ==
  /\ r.run = live /\ r.att = 1 /\ r.closed = "open" /\ r.action.phase # "terminal"
  /\ task[live] = "review" =>
       /\ aim[live] = head
       /\ IF r.tx.phase = "none" THEN r.hold = "none" ELSE r.tx.head = aim[live]

Enrols    == tries[live] = 1 /\ Discover = Missing
TakesOver == tries[live] = 1 /\ CanTakeOver(Discover) /\ Ceased(Discover)
Recovers  == tries[live] = 2 /\ CanRecover(Discover)

Load ==
  /\ live # 0 /\ pc = "load"
  /\ root' = Discover
  /\ \/ Enrols /\ kind' = "enrol" /\ cand' = Change("enrol", Missing) /\ pc' = "write"
     \/ TakesOver /\ kind' = "rollover" /\ pc' = "archive" /\ UNCHANGED cand
     \/ Recovers /\ kind' = "recover" /\ cand' = Change("recover", Discover) /\ pc' = "find"
  /\ UNCHANGED <<github, runs, live, did, spot, ghosts>>

Copies(archive) == {c \in archive : c.ref = Ref(root)}

ArchivePost == [to |-> "archive", spot |-> 0, from |-> root, record |-> root]

\* The archive is there, once, after its POST was not answered.
Stored == Cardinality(Copies(carriers')) = 1

\* retain_previous_run, in the mutation of the rollover: an archive that is
\* there already is used; otherwise it is posted, once, and must be found.
Archive ==
  /\ live # 0 /\ pc = "archive" /\ Discover = root
  /\ \/ Cardinality(Copies(carriers)) = 1 /\ UNCHANGED github
     \/ /\ Copies(carriers) = {}
        /\ Answered(ArchivePost) \/ (Unanswered(ArchivePost) /\ Stored)
  /\ cand' = Change("rollover", root) /\ pc' = "find"
  /\ UNCHANGED <<runs, live, kind, root, did, spot, ghosts>>

\* The archive stays uncertain: the run goes no further.
ArchiveUncertain ==
  /\ live # 0 /\ pc = "archive" /\ Discover = root /\ Copies(carriers) = {}
  /\ Unanswered(ArchivePost) /\ ~Stored
  /\ pc' = "stuck"
  /\ UNCHANGED <<runs, live, kind, root, cand, did, spot, ghosts>>

-----------------------------------------------------------------------------
(* One write of the record *)

Review == task[live] = "review"
Holds  == root.hold = "review" /\ "reserve" \in did

\* Slip: a command whose effect may have begun is carried out again.
ReadmitsSlip ==
  ~Review /\ root.action.phase \in {"pending", "started"} /\ root.action.head = aim[live]

\* admit_action, of an intent an earlier attempt left: the same one, unstarted.
Readmits ==
  ~Review /\ root.action.phase = "pending" /\ root.action.head = aim[live]

\* When a process writes.  A review is admitted unless the session is paused,
\* something is reserved, or this head is reviewed already; in that case the
\* first attempt of a run that has nothing to do closes itself (finish).
May(k) ==
  CASE k = "reserve"  -> /\ Review /\ did = {} /\ ~root.paused /\ root.hold = "none"
                         /\ root.tx.phase # "none" => root.tx.head # aim[live]
    [] k = "attach"   -> Holds /\ root.tx.phase = "none" /\ "failed" \notin did
    [] k = "retain"   -> Holds /\ "enter" \in did /\ "failed" \notin did
    [] k = "publish"  -> "post" \in did /\ root.tx.phase = "pending"
    [] k = "finish"   -> /\ Review /\ root.tx.phase = "published" /\ root.closed = "open"
                         /\ \/ "publish" \in did
                            \/ /\ did = {} /\ root.att = 1 /\ root.hold = "none"
                               /\ root.tx.head = aim[live] /\ head = aim[live] /\ ~root.paused
    [] k = "cleanup"  -> Holds /\ "failed" \in did
    [] k = "close"    -> /\ {"cleanup", "attach"} \subseteq did /\ "enter" \notin did
                         /\ root.closed = "open"
    [] k = "charge"   -> /\ "cleanup" \in did /\ "charge" \notin did
                         /\ "attach" \in did => root.closed = "aborted"
    [] k = "charged"  -> "charge" \in did /\ root.hold = "charge"
    [] k = "admit"    -> /\ ~Review /\ root.action.phase = "none" /\ root.hold = "none"
                         /\ root.tx.phase \in {"none", "published"}
    [] k = "begin"    -> {"admit", "begin"} \cap did = {"admit"}
    [] k = "apply"    -> {"begin", "apply"} \cap did = {"begin"}
    [] k = "terminal" -> "receipt" \in did /\ root.action.phase = "started"
    [] OTHER          -> FALSE

\* A command reads the head again before each of its writes (authority.fence).
Fenced == Review \/ head = aim[live]

Prepare(k) ==
  /\ live # 0 /\ pc = "idle" /\ May(k) /\ Fenced
  /\ kind' = k /\ cand' = Change(k, root) /\ pc' = "find"
  /\ UNCHANGED <<github, runs, live, root, did, spot, ghosts>>

\* The scans before the write find the record it starts from.
Find ==
  /\ live # 0 /\ pc = "find" /\ Discover = root
  /\ pc' = "write" /\ spot' = Found
  /\ UNCHANGED <<github, runs, live, kind, root, cand, did, ghosts>>

\* A process rests between writes, or may do nothing more.
Rests(next) == pc' = next /\ kind' = "enrol" /\ cand' = Missing /\ spot' = 0

\* The analysis fails, or a read before a write does: the process gives its
\* reservation back, if the stored record still has it.
Fail ==
  /\ live # 0 /\ pc \in {"idle", "find"} /\ "fail" \in Faults
  /\ Holds /\ "failed" \notin did
  /\ did' = did \cup {"failed"} /\ Rests("idle")
  /\ abandoned' = abandoned \cup {<<live, tries[live]>>}
  /\ UNCHANGED <<github, runs, live, root, entered, posted, receipts, overtaken>>

Target == IF kind = "enrol" THEN "new" ELSE "comment"

\* The POST or PATCH, once.  Nobody reconciles an unanswered recovery.
Write ==
  /\ live # 0 /\ pc = "write"
  /\ LET w == [to |-> Target, spot |-> spot, from |-> root, record |-> cand]
     IN  \/ Answered(w) /\ pc' = "confirm"
         \/ Unanswered(w) /\ pc' = IF kind = "recover" THEN "stuck" ELSE "confirm"
  /\ UNCHANGED <<runs, live, kind, root, cand, did, spot, ghosts>>

\* The read back finds the very record, or the process goes no further.
Confirm ==
  /\ live # 0 /\ pc = "confirm"
  /\ IF Discover = cand
     THEN /\ root' = cand /\ Rests("idle")
          /\ did' = IF kind \in {"enrol", "rollover", "recover"} THEN did ELSE did \cup {kind}
     ELSE Rests("stuck") /\ UNCHANGED <<root, did>>
  /\ UNCHANGED <<github, runs, live, ghosts>>

-----------------------------------------------------------------------------
(* What a process does beside the record *)

\* run_provider, once the transaction is attached.
CanEnter == Holds /\ root.tx.phase = "analysis" /\ {"enter", "failed"} \cap did = {}
Enter ==
  /\ live # 0 /\ pc = "idle" /\ CanEnter
  /\ did' = did \cup {"enter"} /\ entered' = entered \cup {<<live, tries[live]>>}
  /\ UNCHANGED <<github, runs, live, pc, kind, root, cand, spot, posted, receipts, abandoned, overtaken>>

\* The publication of a retained result, which finds what an earlier process
\* has published of it (GroupPublication).
CanPost == Review /\ root.tx.phase = "pending" /\ "post" \notin did /\ head = aim[live]
Post ==
  /\ live # 0 /\ pc = "idle" /\ CanPost
  /\ posted' = posted \cup {root.tx.head}
  /\ \/ did' = did \cup {"post"} /\ pc' = pc
     \/ "lost" \in Faults /\ pc' = "stuck" /\ did' = did
  /\ UNCHANGED <<github, runs, live, kind, root, cand, spot, entered, receipts, abandoned, overtaken>>

CanReadmit == Readmits /\ "admit" \notin did
Readmit ==
  /\ live # 0 /\ pc = "idle" /\ CanReadmit /\ Discover = root
  /\ did' = did \cup {"admit"}
  /\ UNCHANGED <<github, runs, live, pc, kind, root, cand, spot, ghosts>>

\* publish_command_receipt: what the maintainer sees of the command.
CanReceipt == "apply" \in did /\ "receipt" \notin did /\ Fenced
Receipt ==
  /\ live # 0 /\ pc = "idle" /\ CanReceipt
  /\ receipts' = [receipts EXCEPT ![live] = @ + 1]
  /\ \/ did' = did \cup {"receipt"} /\ pc' = pc
     \/ "lost" \in Faults /\ pc' = "stuck" /\ did' = did
  /\ UNCHANGED <<github, runs, live, kind, root, cand, spot, entered, posted, abandoned, overtaken>>

\* A process has something left to do.
CanGoOn ==
  \/ pc = "load" /\ (Enrols \/ TakesOver \/ Recovers)
  \/ pc \in {"archive", "find", "write", "confirm"}
  \/ pc = "idle" /\ \/ \E k \in Kinds : May(k) /\ Fenced
                    \/ CanEnter \/ CanPost \/ CanReadmit \/ CanReceipt

\* The process ends, because it has nothing left to do or is killed.
End ==
  /\ live # 0 /\ ("crash" \in Faults \/ ~CanGoOn)
  /\ live' = 0 /\ pc' = "load" /\ kind' = "enrol"
  /\ root' = Missing /\ cand' = Missing /\ did' = {} /\ spot' = 0
  /\ UNCHANGED <<github, runs, ghosts>>

Next ==
  \/ Push \/ Land \/ End
  \/ \E r \in Runs : Rerun(r) \/ \E t \in Tasks : Start(r, t)
  \/ Load \/ Archive \/ ArchiveUncertain
  \/ \E k \in Kinds : Prepare(k)
  \/ Find \/ Fail \/ Write \/ Confirm
  \/ Enter \/ Post \/ Readmit \/ Receipt

Spec == Init /\ [][Next]_vars

-----------------------------------------------------------------------------
(* Properties *)

\* The variables keep their types, and every record that GitHub holds, or may
\* still apply, is one its constructor accepts.
TypeOK ==
  /\ \A i \in 1 .. Len(comments) : comments[i] \in Records /\ WellFormed(comments[i])
  /\ \A w \in flight : w.record \in Records /\ WellFormed(w.record)
  /\ \A c \in carriers : c.ref \in Refs
  /\ head \in Heads /\ tries \in [Runs -> 0 .. 2]
  /\ task \in [Runs -> {"review", "pause", "continue"}] /\ aim \in [Runs -> Heads]
  /\ live \in 0 .. MaxRuns /\ spot \in 0 .. Len(comments)
  /\ pc \in {"load", "archive", "find", "write", "confirm", "idle", "stuck"}
  /\ kind \in Kinds /\ cand \in Records /\ root \in Records

\* The provider is asked once for the review of a head: whether its run is
\* killed and re-run, its writes are lost or late, a second session comment
\* arrives late, or later runs are for the same head.  It is asked again only
\* after that review has failed, or once a late PATCH has put the record back,
\* from which the record forgets what other processes have done.
AnalysedOnce ==
  overtaken \/ \A e, f \in entered \ abandoned : aim[e[1]] = aim[f[1]] => e = f

\* A command takes effect at most once, however its run is killed and re-run
\* and whichever of its writes are lost or late.
EffectOnce == \A r \in Runs : receipts[r] <= 1

\* A run gives way to the next only with nothing left to do: its command took
\* effect, or what it asked the provider in its last attempt is published; and
\* the record it left is archived.
TakeoverLosesNothing ==
  \A i \in 1 .. Len(comments) :
    LET p == comments[i].prev IN
    p # NoRef =>
      /\ \E c \in carriers : c.ref = p
      /\ task[p.run] # "review" => receipts[p.run] = 1
      /\ <<p.run, p.att>> \in entered => aim[p.run] \in posted

\* While all goes well, a maintainer can always be heard: between runs, a
\* command can take the record of a paused session over.
PausedCanContinue ==
  live = 0 /\ Len(comments) = 1 /\ comments[1].paused => CanTakeOver(comments[1])
=============================================================================

-------------------------- MODULE RepositorySetup --------------------------
(***************************************************************************)
(* Setup of one repository by the Cloudflare Worker (github-app.ts,        *)
(* GitHubSetupService.ensureSetupPullRequest).  The Worker keeps no state: *)
(* every delivery inspects the three generated files on the default        *)
(* branch, creates the setup branch named after the default branch's head, *)
(* and opens a pull request from it.  Deliveries run concurrently, each    *)
(* request may fail or lose its answer, and the people of the repository   *)
(* push, merge, close and delete meanwhile.                                *)
(*                                                                         *)
(* A commit of the default branch is its position in `main`; the setup     *)
(* branch is identified by the commit it is named after (the workflow tag  *)
(* is fixed).  A file is abstracted to what the classification says of it. *)
(***************************************************************************)
EXTENDS Naturals, Sequences

CONSTANTS
  None,
  Deliveries,  \* deliveries that may be running
  Initial,     \* contents of the default branch to start from
  Edits,       \* what people may make of a file
  People,      \* which of "push", "merge", "close", "touch", "delete" they do
  Lossy,       \* requests may fail or lose their answers
  MaxHead,     \* bound on the commits of the default branch
  MaxStarts    \* bound on the number of deliveries

\* The three generated files in the order they are read, and the retired
\* configuration file that is imported once.
PathOrder == <<"workflow", "uninstall", "config">>
ReadAt    == [workflow |-> 1, uninstall |-> 2, config |-> 3]
Paths     == {"workflow", "uninstall", "config"}

\* "managed": bytes of an earlier setup; "current": bytes of this one;
\* "imported": a configuration generated from the retired file;
\* "custom": anything else, malformed and future versions included.
Kinds    == {"absent", "managed", "current", "imported", "custom"}
Contents == [Paths \cup {"retired"} -> Kinds]

ASSUME InitialAssumption == Initial \subseteq Contents
ASSUME EditsAssumption == Edits \subseteq Kinds
ASSUME PeopleAssumption == People \subseteq {"push", "merge", "close", "touch", "delete"}
ASSUME LossyAssumption == Lossy \in BOOLEAN
ASSUME BoundsAssumption == MaxHead \in Nat \ {0} /\ MaxStarts \in Nat

VARIABLES
  main,     \* contents of the commits of the default branch
  branch,   \* for each commit, the setup branch named after it, or None
  open,     \* commits whose setup branch has an open pull request
  job,      \* where each delivery stands and what it has read
  starts,   \* deliveries started so far
  touched,  \* setup branches that somebody else has written
  imported  \* setup branches the App has given an imported configuration

history == <<touched, imported>>
vars    == <<main, branch, open, job, starts, history>>

Commits == 1..MaxHead
Tip    == Len(main)

Rest ==
  [pc |-> "rest", since |-> 0, seen |-> <<>>, config |-> "current", base |-> 0,
   answer |-> None, moved |-> FALSE, hit |-> FALSE]

Init ==
  /\ main \in {<<c>> : c \in Initial}
  /\ branch = [b \in Commits |-> None]
  /\ open = {} /\ touched = {} /\ imported = {}
  /\ job = [d \in Deliveries |-> Rest]
  /\ starts = 0

Become(d, next) == job' = [job EXCEPT ![d] = next]
Goto(d, pc)     == Become(d, [job[d] EXCEPT !.pc = pc])
Answer(d, a)    == Become(d, [job[d] EXCEPT !.pc = "rest", !.answer = a, !.seen = <<>>])

-----------------------------------------------------------------------------
(* Classification of the generated files                                   *)

\* Slip: a managed file makes up for a custom one.
ClassifySlip(f) ==
  CASE \A p \in Paths : f[p] = "absent"  -> "absent"
    [] \A p \in Paths : f[p] = "current" -> "current"
    [] /\ \E p \in Paths : f[p] \in {"managed", "current"}
       /\ \E p \in Paths : f[p] # "current"  -> "migration"
    [] OTHER -> "unknown"

Classify(f) ==
  CASE \A p \in Paths : f[p] = "absent"               -> "absent"
    [] \E p \in Paths : f[p] \in {"custom", "imported"} -> "unknown"
    [] \A p \in Paths : f[p] = "current"              -> "current"
    [] OTHER                                          -> "migration"

\* The tree of a setup branch: the generated files over its base.
Overlay(base, config) ==
  [base EXCEPT !["workflow"] = "current", !["uninstall"] = "current", !["config"] = config]

Differs(f, g) == \E p \in Paths : f[p] # g[p]

-----------------------------------------------------------------------------
(* The steps of a delivery, one request each                               *)

Start(d) ==
  /\ job[d].pc = "rest" /\ starts < MaxStarts
  /\ starts' = starts + 1
  /\ Become(d, [Rest EXCEPT !.pc = "inspect", !.since = Tip])
  /\ UNCHANGED <<main, branch, open, history>>

\* Files are read one by one at a branch name; a missing branch has no files.
Source(d) ==
  IF job[d].pc = "inspect" THEN main[Tip]
  ELSE IF branch[job[d].base] # None THEN branch[job[d].base].files
  ELSE [p \in Paths |-> "absent"]

\* What the last of the three files decides.
Conclude(d, seen) ==
  LET state == Classify([p \in Paths |-> seen[ReadAt[p]]])
  IN  IF job[d].pc = "inspect"
      THEN CASE state = "current" -> Answer(d, "skipped_current")
             [] state = "unknown" -> Answer(d, "skipped_unknown_setup")
             [] OTHER             -> Become(d, [job[d] EXCEPT !.pc = "import", !.seen = <<>>])
      ELSE IF state = "current"
           THEN Become(d, [job[d] EXCEPT !.pc = "lookup", !.seen = <<>>])
           ELSE Answer(d, "skipped_branch_conflict")

ReadFile(d) ==
  /\ job[d].pc \in {"inspect", "content"}
  /\ LET seen == Append(job[d].seen, Source(d)[PathOrder[Len(job[d].seen) + 1]])
     IN  IF Len(seen) = Len(PathOrder)
         THEN Conclude(d, seen)
         ELSE Become(d, [job[d] EXCEPT !.seen = seen])
  /\ UNCHANGED <<main, branch, open, starts, history>>

\* Slip: the retired file is copied instead of translated.
ConfigurationSlip == main[Tip]["retired"]

\* A retired file people have edited is translated; otherwise the generated
\* configuration is used.
Configuration == IF main[Tip]["retired"] = "custom" THEN "imported" ELSE "current"

ImportConfiguration(d) ==
  /\ job[d].pc = "import"
  /\ Become(d, [job[d] EXCEPT !.pc = "head", !.config = Configuration])
  /\ UNCHANGED <<main, branch, open, starts, history>>

ReadHead(d) ==
  /\ job[d].pc = "head"
  /\ Become(d, [job[d] EXCEPT !.pc = "exists", !.base = Tip])
  /\ UNCHANGED <<main, branch, open, starts, history>>

BranchExists(d) ==
  /\ job[d].pc = "exists"
  /\ Goto(d, IF branch[job[d].base] = None THEN "create" ELSE "commit")
  /\ UNCHANGED <<main, branch, open, starts, history>>

\* Slip: an existing branch is taken for a foreign one.
OwnCommitSlip(b) == FALSE

\* The App's own single commit over the base, changing generated files only.
OwnCommit(b) == branch[b].own /\ Differs(branch[b].files, main[b])

CheckCommit(d) ==
  /\ job[d].pc = "commit"
  /\ CASE branch[job[d].base] = None -> Answer(d, "failed")
       [] branch[job[d].base] # None /\ OwnCommit(job[d].base) -> Goto(d, "content")
       [] OTHER -> Answer(d, "skipped_branch_conflict")
  /\ UNCHANGED <<main, branch, open, starts, history>>

\* The ref is created only if it does not exist; otherwise the branch that
\* took the name is checked.
MakeBranch(d) ==
  LET b == job[d].base
  IN  /\ branch[b] = None
      /\ branch' = [branch EXCEPT ![b] =
                      [files |-> Overlay(main[b], job[d].config),
                       own |-> TRUE, merged |-> FALSE, since |-> job[d].since]]
      /\ imported' = IF job[d].config = "imported" THEN imported \cup {b} ELSE imported

CreateBranch(d) ==
  /\ job[d].pc = "create"
  /\ \/ MakeBranch(d) /\ Goto(d, "lookup")
     \/ branch[job[d].base] # None /\ Goto(d, "commit") /\ UNCHANGED <<branch, imported>>
  /\ UNCHANGED <<main, open, starts, touched>>

\* "again" is the second look after GitHub has refused the pull request.
Lookup(d) ==
  /\ job[d].pc \in {"lookup", "again"}
  /\ IF job[d].base \in open
     THEN Answer(d, "skipped_pull_request_exists")
     ELSE IF job[d].pc = "lookup" THEN Goto(d, "open") ELSE Answer(d, "failed")
  /\ UNCHANGED <<main, branch, open, starts, history>>

\* GitHub refuses a second open pull request of the branch, and one with
\* nothing to merge.
Mergeable(b) == branch[b] # None /\ ~branch[b].merged /\ b \notin open

OpenPullRequest(d) ==
  /\ job[d].pc = "open"
  /\ IF Mergeable(job[d].base)
     THEN open' = open \cup {job[d].base} /\ Answer(d, "created")
     ELSE UNCHANGED open /\ Goto(d, "again")
  /\ UNCHANGED <<main, branch, starts, history>>

\* A request fails, or takes effect and its answer is lost; nothing is retried
\* and the delivery ends.
Lose(d) ==
  /\ Lossy /\ job[d].pc # "rest"
  /\ Become(d, [job[d] EXCEPT !.pc = "rest", !.answer = "failed", !.hit = TRUE, !.seen = <<>>])
  /\ \/ UNCHANGED <<branch, open, imported>>
     \/ /\ job[d].pc = "create" /\ MakeBranch(d)
        /\ UNCHANGED open
     \/ /\ job[d].pc = "open" /\ Mergeable(job[d].base)
        /\ open' = open \cup {job[d].base}
        /\ UNCHANGED <<branch, imported>>
  /\ UNCHANGED <<main, starts, touched>>

-----------------------------------------------------------------------------
(* The people of the repository                                            *)

\* What they do is remembered by the deliveries it may have disturbed.
Moving == job' = [d \in Deliveries |-> IF job[d].pc = "rest" THEN job[d]
                                       ELSE [job[d] EXCEPT !.moved = TRUE]]
Hitting(b) ==
  job' = [d \in Deliveries |-> IF job[d].pc # "rest" /\ job[d].base = b
                               THEN [job[d] EXCEPT !.hit = TRUE] ELSE job[d]]

Push ==
  /\ "push" \in People /\ Tip < MaxHead
  /\ \E p \in Paths \cup {"retired"}, k \in Edits :
       /\ main[Tip][p] # k
       /\ main' = Append(main, [main[Tip] EXCEPT ![p] = k])
  /\ Moving
  /\ UNCHANGED <<branch, open, starts, history>>

\* A three-way merge of the branch, which GitHub refuses on a conflict.
MergeOf(b, p) == IF branch[b].files[p] = main[b][p] THEN main[Tip][p] ELSE branch[b].files[p]
Clean(b) ==
  \A p \in Paths : \/ branch[b].files[p] = main[b][p]
                   \/ main[Tip][p] \in {main[b][p], branch[b].files[p]}

Merge(b) ==
  /\ "merge" \in People /\ Tip < MaxHead
  /\ b \in open /\ Clean(b)
  /\ main' = Append(main, [p \in Paths \cup {"retired"} |-> MergeOf(b, p)])
  /\ open' = open \ {b}
  /\ branch' = [branch EXCEPT ![b].merged = TRUE]
  /\ Moving
  /\ UNCHANGED <<starts, history>>

Close(b) ==
  /\ "close" \in People /\ b \in open
  /\ open' = open \ {b}
  /\ Hitting(b)
  /\ UNCHANGED <<main, branch, starts, history>>

\* Somebody takes the branch name, or pushes to the App's branch.
Touch(b) ==
  /\ "touch" \in People /\ b <= Tip /\ b \notin touched
  /\ touched' = touched \cup {b}
  /\ LET old == IF branch[b] = None THEN main[b] ELSE branch[b].files
     IN  branch' = [branch EXCEPT ![b] = [files |-> [old EXCEPT !["config"] = "custom"],
                                          own |-> FALSE, merged |-> FALSE, since |-> 0]]
  /\ Hitting(b)
  /\ UNCHANGED <<main, open, starts, imported>>

\* Deleting the branch closes its pull request.
Delete(b) ==
  /\ "delete" \in People /\ branch[b] # None
  /\ branch' = [branch EXCEPT ![b] = None]
  /\ open' = open \ {b}
  /\ Hitting(b)
  /\ UNCHANGED <<main, starts, history>>

-----------------------------------------------------------------------------
Next ==
  \/ \E d \in Deliveries :
       \/ Start(d) \/ ReadFile(d) \/ ImportConfiguration(d) \/ ReadHead(d)
       \/ BranchExists(d) \/ CheckCommit(d) \/ CreateBranch(d)
       \/ Lookup(d) \/ OpenPullRequest(d) \/ Lose(d)
  \/ Push
  \/ \E b \in Commits : Merge(b) \/ Close(b) \/ Touch(b) \/ Delete(b)

Spec == Init /\ [][Next]_vars

-----------------------------------------------------------------------------
(* Properties                                                              *)

Answers == {"skipped_current", "skipped_unknown_setup", "skipped_branch_conflict",
            "skipped_pull_request_exists", "created", "failed"}
Pcs     == {"rest", "inspect", "import", "head", "exists", "create", "commit",
            "content", "lookup", "open", "again"}

Jobs ==
  [pc : Pcs, since : 0..MaxHead, seen : Seq(Kinds), config : {"current", "imported"}, base : 0..MaxHead,
   answer : Answers \cup {None}, moved : BOOLEAN, hit : BOOLEAN]
Branches == [files : Contents, own : BOOLEAN, merged : BOOLEAN, since : 0..MaxHead]

ASSUME NoneAssumption == None \notin Branches /\ None \notin Answers

\* The repository and the deliveries keep their types; pull requests are open
\* only for branches that exist.
TypeOK ==
  /\ main \in Seq(Contents) /\ Tip \in Commits
  /\ branch \in [Commits -> Branches \cup {None}]
  /\ open \subseteq {b \in Commits : branch[b] # None}
  /\ job \in [Deliveries -> Jobs]
  /\ starts \in 0..MaxStarts
  /\ touched \subseteq Commits /\ imported \subseteq Commits

\* The App proposes a setup only where one is needed, although it reads the
\* files one by one and the head to branch from last, while people push: each
\* file it replaces was not custom at some commit between the start of the
\* delivery and the base of the branch, and some file was not current.  A file
\* that is custom throughout is never replaced.
SetupOnlyWhereNeeded ==
  \A b \in Commits :
    branch[b] # None /\ branch[b].own =>
      LET span == branch[b].since .. b
      IN  /\ \A p \in Paths : \E c \in span : main[c][p] \notin {"custom", "imported"}
          /\ \E p \in Paths, c \in span : main[c][p] # "current"

Quiet(d) == job[d].pc = "rest" /\ ~job[d].moved /\ ~job[d].hit

\* A delivery nobody disturbs ends well whatever earlier deliveries left half
\* done and whatever others do beside it: it does not fail, and it reports a
\* conflict only over a branch somebody else has written, or one whose
\* configuration was imported: isManagedSetupBranch does not recognise that
\* one as the App's own.
QuietDeliverySucceeds ==
  \A d \in Deliveries :
    Quiet(d) /\ job[d].answer \in {"failed", "skipped_branch_conflict"}
      => job[d].base \in touched \cup imported
=============================================================================

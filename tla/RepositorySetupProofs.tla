------------------------ MODULE RepositorySetupProofs ------------------------
(***************************************************************************)
(* What holds of a repository's setup for every number of deliveries,      *)
(* every interleaving of their requests with the pushes, merges, closes    *)
(* and deletions of people, and every lost answer: the types, that the App *)
(* proposes a setup only over a commit that needs one, and that a delivery *)
(* nobody disturbs ends well.                                              *)
(*                                                                         *)
(* The branch is created five requests after the first file was read, and  *)
(* the default branch may move before each, so the invariant carries what  *)
(* was read to the creation: the files seen so far are each of a commit    *)
(* since the delivery started, then those commits together show the need   *)
(* of a setup, and so do those up to the commit the delivery holds.  The   *)
(* last part is about what an undisturbed delivery finds: the traces of    *)
(* earlier ones, which may have stopped anywhere.                          *)
(***************************************************************************)
EXTENDS RepositorySetup, TLAPS

\* A commit without custom files and without a complete current setup.
Needs(c) ==
  /\ \A p \in Paths : c[p] \notin {"custom", "imported"}
  /\ \E p \in Paths : c[p] # "current"

\* What a delivery that read its files at the commits S of m knows of them.
NeededIn(S, m) ==
  /\ \A p \in Paths : \E c \in S : m[c][p] \notin {"custom", "imported"}
  /\ \E p \in Paths, c \in S : m[c][p] # "current"

Reading == {"inspect", "content"}
Holding == {"exists", "create", "commit", "content", "lookup", "open", "again"}

\* What a delivery has read, of the default branch m since it started.
JobGood(j, m) ==
  /\ IF j.pc \in Reading THEN Len(j.seen) < 3 ELSE j.seen = <<>>
  /\ j.pc # "rest" => j.since \in 1..Len(m) /\ (~j.moved => j.since = Len(m))
  /\ j.pc = "inspect" => \A i \in 1..Len(j.seen) :
       \E c \in j.since..Len(m) : j.seen[i] = m[c][PathOrder[i]]
  /\ j.pc \in {"import", "head"} => NeededIn(j.since..Len(m), m)
  /\ j.pc \in Holding => j.base \in j.since..Len(m) /\ j.base \in 1..Len(m)
  /\ j.pc \in {"exists", "create"} => NeededIn(j.since..j.base, m)

JobsOK ==
  /\ job \in [Deliveries -> Jobs]
  /\ \A d \in Deliveries : JobGood(job[d], main)

MainOK == main \in Seq(Contents) /\ Tip \in Commits

BranchGood(b) ==
  branch[b] # None =>
    /\ b <= Tip
    /\ branch[b].own => branch[b].since \in 1..b /\ NeededIn(branch[b].since..b, main)

BranchesOK ==
  /\ branch \in [Commits -> Branches \cup {None}]
  /\ \A b \in Commits : BranchGood(b)
  /\ open \subseteq {b \in Commits : branch[b] # None}

CountsOK == starts \in 0..MaxStarts /\ touched \subseteq Commits

ImportedOK == imported \subseteq Commits

IInv == MainOK /\ JobsOK /\ BranchesOK /\ CountsOK /\ ImportedOK

-----------------------------------------------------------------------------
(* The files                                                               *)

LEMMA PathOrderFacts ==
  /\ \A i \in 1..3 : PathOrder[i] \in Paths
  /\ \A p \in Paths : ReadAt[p] \in 1..3 /\ PathOrder[ReadAt[p]] = p
  /\ Len(PathOrder) = 3
<1>1. /\ PathOrder[1] = "workflow" /\ PathOrder[2] = "uninstall" /\ PathOrder[3] = "config"
      /\ Len(PathOrder) = 3
  BY DEF PathOrder
<1>2. /\ ReadAt["workflow"] = 1 /\ ReadAt["uninstall"] = 2 /\ ReadAt["config"] = 3
  BY DEF ReadAt
<1>3. \A i \in 1..3 : i = 1 \/ i = 2 \/ i = 3
  OBVIOUS
<1> QED
  BY <1>1, <1>2, <1>3 DEF Paths

\* What the classification says when it lets a delivery go on.
LEMMA ClassifyNeeds ==
  ASSUME NEW f,
         Classify(f) # "current", Classify(f) # "unknown"
  PROVE  Needs(f)
BY DEF Classify, Needs, Paths

LEMMA OverlayType ==
  ASSUME NEW c \in Contents, NEW k \in {"current", "imported"}
  PROVE  Overlay(c, k) \in Contents
BY DEF Overlay, Contents, Kinds

LEMMA TipFacts ==
  ASSUME MainOK
  PROVE  /\ Tip \in 1..MaxHead /\ Len(main) = Tip
         /\ \A b \in 1..Tip : main[b] \in Contents /\ b \in Commits
BY BoundsAssumption DEF MainOK, Tip, Commits

LEMMA NothingSeen == <<>> \in Seq(Kinds) /\ Len(<<>>) = 0
OBVIOUS

\* The default branch only grows: what commits showed, more of them show.
LEMMA NeededLater ==
  ASSUME NEW S, NEW T, NEW m, NEW n, NeededIn(S, m),
         S \subseteq T, \A c \in S : n[c] = m[c]
  PROVE  NeededIn(T, n)
<1>1. ASSUME NEW p \in Paths PROVE \E c \in T : n[c][p] \notin {"custom", "imported"}
  <2>1. PICK c \in S : m[c][p] \notin {"custom", "imported"}
    BY DEF NeededIn
  <2> QED
    BY <2>1
<1>2. PICK p \in Paths, c \in S : m[c][p] # "current"
  BY DEF NeededIn
<1> QED
  BY <1>1, <1>2 DEF NeededIn

LEMMA StartGood ==
  ASSUME MainOK
  PROVE  /\ [Rest EXCEPT !.pc = "inspect", !.since = Tip] \in Jobs
         /\ JobGood([Rest EXCEPT !.pc = "inspect", !.since = Tip], main)
<1> DEFINE first == [Rest EXCEPT !.pc = "inspect", !.since = Tip]
<1>1. Tip \in 1..MaxHead /\ Tip \in 0..MaxHead /\ Len(main) = Tip
  BY TipFacts, BoundsAssumption
<1>2. first \in Jobs
  <2>1. <<>> \in Seq(Kinds) /\ 0 \in 0..MaxHead
    BY BoundsAssumption
  <2> QED
    BY <1>1, <2>1 DEF Rest, Jobs, Pcs
<1>3. first.pc = "inspect" /\ first.seen = <<>> /\ first.since = Tip
  BY DEF Rest
<1> HIDE DEF first
<1>4. Len(<<>>) = 0 /\ Tip \in 1..Tip
  BY <1>1
<1>5. JobGood(first, main)
  BY <1>1, <1>3, <1>4 DEF JobGood, Reading, Holding
<1> QED
  BY <1>2, <1>5 DEF first

-----------------------------------------------------------------------------
(* A delivery's own steps                                                  *)

LEMMA BecomeGood ==
  ASSUME JobsOK, main' = main, NEW d \in Deliveries, NEW next \in Jobs,
         JobGood(next, main), Become(d, next)
  PROVE  JobsOK'
<1>1. job' \in [Deliveries -> Jobs]
  BY DEF JobsOK, Become
<1>2. ASSUME NEW e \in Deliveries PROVE JobGood(job'[e], main')
  BY DEF JobsOK, Become
<1> QED
  BY <1>1, <1>2 DEF JobsOK

LEMMA AnswerGood ==
  ASSUME JobsOK, main' = main, NEW d \in Deliveries, NEW a \in Answers, Answer(d, a)
  PROVE  JobsOK'
<1> DEFINE next == [job[d] EXCEPT !.pc = "rest", !.answer = a, !.seen = <<>>]
<1>1. job[d] \in Jobs
  BY DEF JobsOK
<1>2. next \in Jobs
  BY <1>1, NothingSeen DEF Jobs, Pcs
<1>3. JobGood(next, main)
  BY <1>1 DEF Jobs, JobGood, Reading, Holding
<1>4. Become(d, next)
  BY DEF Answer
<1> QED
  BY <1>2, <1>3, <1>4, BecomeGood

\* Going on to a request that needs no more than the commit held.
LEMMA GotoGood ==
  ASSUME JobsOK, main' = main, NEW d \in Deliveries,
         NEW n \in {"commit", "content", "lookup", "open", "again"},
         job[d].pc \in Holding \ {"content"}, Goto(d, n)
  PROVE  JobsOK'
<1> DEFINE next == [job[d] EXCEPT !.pc = n]
<1>1. job[d] \in Jobs /\ JobGood(job[d], main)
  BY DEF JobsOK
<1>2. next \in Jobs
  BY <1>1 DEF Jobs, Pcs
<1>3. /\ job[d].seen = <<>> /\ job[d].base \in 1..Len(main)
      /\ Len(<<>>) = 0
  BY <1>1 DEF JobGood, Holding, Reading
<1>4. JobGood(next, main)
  BY <1>1, <1>3 DEF Jobs, JobGood, Reading, Holding
<1> QED
  BY <1>2, <1>4, BecomeGood DEF Goto

\* Nothing but jobs and counters changes: the rest of the invariant stays.
LEMMA QuietStep ==
  ASSUME IInv, UNCHANGED <<main, branch, open>>
  PROVE  MainOK' /\ BranchesOK'
<1>1. Tip' = Tip
  BY DEF Tip
<1> QED
  BY <1>1 DEF IInv, MainOK, BranchesOK, BranchGood

LEMMA SameHistory ==
  ASSUME IInv, UNCHANGED <<starts, touched>>
  PROVE  CountsOK'
BY DEF IInv, CountsOK

LEMMA SameImported ==
  ASSUME IInv, UNCHANGED imported
  PROVE  ImportedOK'
BY DEF IInv, ImportedOK

LEMMA StartStep ==
  ASSUME IInv, NEW d \in Deliveries, Start(d)
  PROVE  JobsOK' /\ CountsOK'
<1>1. /\ [Rest EXCEPT !.pc = "inspect", !.since = Tip] \in Jobs
      /\ JobGood([Rest EXCEPT !.pc = "inspect", !.since = Tip], main)
  BY StartGood DEF IInv
<1>2. JobsOK'
  BY <1>1, BecomeGood DEF Start, IInv
<1>3. starts' \in 0..MaxStarts
  BY BoundsAssumption DEF Start, IInv, CountsOK
<1> QED
  BY <1>2, <1>3 DEF Start, IInv, CountsOK, history

\* A file has a kind, wherever it is read.
LEMMA SourceType ==
  ASSUME IInv, NEW d \in Deliveries, job[d].pc \in Reading, NEW p \in Paths
  PROVE  Source(d)[p] \in Kinds
<1>1. main[Tip] \in Contents
  BY TipFacts DEF IInv
<1>2. CASE job[d].pc = "inspect"
  <2>1. Source(d) = main[Tip]
    BY <1>2 DEF Source
  <2> QED
    BY <1>1, <2>1 DEF Contents
<1>3. CASE job[d].pc = "content"
  <2>1. job[d].base \in Commits
    BY <1>3, TipFacts DEF IInv, JobsOK, JobGood, Holding
  <2>2. branch[job[d].base] \in Branches \cup {None}
    BY <2>1 DEF IInv, BranchesOK
  <2>3. CASE branch[job[d].base] # None
    BY <1>3, <2>2, <2>3 DEF Source, Branches, Contents
  <2>4. CASE branch[job[d].base] = None
    BY <1>3, <2>4 DEF Source, Kinds
  <2> QED
    BY <2>3, <2>4
<1> QED
  BY <1>2, <1>3 DEF Reading

\* The files read so far, with one more.
LEMMA SeenMore ==
  ASSUME IInv, NEW d \in Deliveries, job[d].pc \in Reading
  PROVE  LET seen == Append(job[d].seen, Source(d)[PathOrder[Len(job[d].seen) + 1]])
         IN  /\ seen \in Seq(Kinds) /\ Len(seen) \in 1..3
             /\ job[d].pc = "inspect" => \A i \in 1..Len(seen) :
                  \E c \in job[d].since..Tip : seen[i] = main[c][PathOrder[i]]
<1> DEFINE old == job[d].seen
           n   == Len(old) + 1
           new == Source(d)[PathOrder[n]]
<1>1. job[d] \in Jobs /\ JobGood(job[d], main)
  BY DEF IInv, JobsOK
<1>2. old \in Seq(Kinds) /\ Len(old) \in 0..2 /\ n \in 1..3
  <2>1. old \in Seq(Kinds)
    BY <1>1 DEF Jobs
  <2>2. Len(old) < 3
    BY <1>1 DEF JobGood
  <2>3. Len(old) \in Nat
    BY <2>1
  <2>4. \A k \in Nat : k < 3 => k \in 0..2 /\ k + 1 \in 1..3
    OBVIOUS
  <2>5. Len(old) \in 0..2 /\ n \in 1..3
    BY <2>2, <2>3, <2>4, Zenon
  <2> QED
    BY <2>1, <2>5
<1>3. new \in Kinds
  BY <1>2, SourceType, PathOrderFacts
<1>4. /\ Append(old, new) \in Seq(Kinds) /\ Len(Append(old, new)) = n
      /\ \A i \in 1..Len(old) : Append(old, new)[i] = old[i]
      /\ Append(old, new)[n] = new
  BY <1>2, <1>3
<1>5. ASSUME job[d].pc = "inspect", NEW i \in 1..n
      PROVE  \E c \in job[d].since..Tip : Append(old, new)[i] = main[c][PathOrder[i]]
  <2>1. Source(d) = main[Tip] /\ Tip \in job[d].since..Tip
    <3>1. Source(d) = main[Tip]
      BY <1>5 DEF Source
    <3>2. job[d].since \in 1..Tip /\ Tip \in 1..MaxHead
      BY <1>1, <1>5, TipFacts DEF JobGood, IInv
    <3> QED
      BY <3>1, <3>2, BoundsAssumption
  <2>2. new = main[Tip][PathOrder[n]]
    BY <2>1
  <2>3. \A k \in 1..Len(old) : \E c \in job[d].since..Tip : old[k] = main[c][PathOrder[k]]
    BY <1>1, <1>5 DEF JobGood, Tip
  <2>4. CASE i = n
    BY <1>4, <2>1, <2>2, <2>4
  <2>5. CASE i \in 1..Len(old)
    <3>1. PICK c \in job[d].since..Tip : old[i] = main[c][PathOrder[i]]
      BY <2>3, <2>5
    <3> QED
      BY <1>4, <2>5, <3>1
  <2> QED
    BY <1>2, <2>4, <2>5
<1>6. n \in 1..3
  BY <1>2
<1> HIDE DEF old, n, new
<1>7. /\ Append(old, new) \in Seq(Kinds) /\ Len(Append(old, new)) \in 1..3
      /\ job[d].pc = "inspect" => \A i \in 1..Len(Append(old, new)) :
           \E c \in job[d].since..Tip : Append(old, new)[i] = main[c][PathOrder[i]]
  BY <1>4, <1>5, <1>6
<1> QED
  BY <1>7 DEF old, n, new

\* Three files that let a delivery go on show that a setup is needed, at the
\* commits they were read at.
LEMMA ConcludeNeeds ==
  ASSUME NEW seen, NEW S, NEW m,
         \A i \in 1..3 : \E c \in S : seen[i] = m[c][PathOrder[i]],
         LET state == Classify([p \in Paths |-> seen[ReadAt[p]]])
         IN  state # "current" /\ state # "unknown"
  PROVE  NeededIn(S, m)
<1> DEFINE f == [p \in Paths |-> seen[ReadAt[p]]]
<1>1. Needs(f)
  <2> HIDE DEF f
  <2>1. Classify(f) # "current" /\ Classify(f) # "unknown"
    BY DEF f
  <2> QED
    BY <2>1, ClassifyNeeds
<1>2. ASSUME NEW p \in Paths PROVE \E c \in S : f[p] = m[c][p]
  <2>1. ReadAt[p] \in 1..3 /\ PathOrder[ReadAt[p]] = p
    BY PathOrderFacts
  <2>2. PICK c \in S : seen[ReadAt[p]] = m[c][PathOrder[ReadAt[p]]]
    BY <2>1
  <2> QED
    BY <2>1, <2>2
<1> HIDE DEF f
<1>3. ASSUME NEW p \in Paths PROVE \E c \in S : m[c][p] \notin {"custom", "imported"}
  <2>1. PICK c \in S : f[p] = m[c][p]
    BY <1>2
  <2> QED
    BY <1>1, <2>1 DEF Needs
<1>4. \E p \in Paths, c \in S : m[c][p] # "current"
  <2>1. PICK p \in Paths : f[p] # "current"
    BY <1>1 DEF Needs
  <2>2. PICK c \in S : f[p] = m[c][p]
    BY <1>2
  <2> QED
    BY <2>1, <2>2
<1> QED
  BY <1>3, <1>4 DEF NeededIn

LEMMA ConcludeStep ==
  ASSUME IInv, NEW d \in Deliveries, job[d].pc \in Reading, main' = main,
         NEW seen \in Seq(Kinds), Len(seen) = 3,
         job[d].pc = "inspect" => \A i \in 1..Len(seen) :
           \E c \in job[d].since..Tip : seen[i] = main[c][PathOrder[i]],
         Conclude(d, seen)
  PROVE  JobsOK'
<1> DEFINE state == Classify([p \in Paths |-> seen[ReadAt[p]]])
<1>1. JobsOK /\ job[d] \in Jobs /\ JobGood(job[d], main)
  BY DEF IInv, JobsOK
<1>2. CASE job[d].pc = "inspect" /\ state # "current" /\ state # "unknown"
  <2> DEFINE next == [job[d] EXCEPT !.pc = "import", !.seen = <<>>]
  <2>1. NeededIn(job[d].since..Tip, main)
    <3> DEFINE S == job[d].since..Tip
    <3>1. \A i \in 1..3 : \E c \in S : seen[i] = main[c][PathOrder[i]]
      BY <1>2
    <3>2. state # "current" /\ state # "unknown"
      BY <1>2
    <3> HIDE DEF S
    <3>3. NeededIn(S, main)
      BY <3>1, <3>2, ConcludeNeeds, SMTT(20)
    <3> QED
      BY <3>3 DEF S
  <2>2. Become(d, next)
    BY <1>2 DEF Conclude
  <2>3. next \in Jobs
    BY <1>1, NothingSeen DEF Jobs, Pcs
  <2>4. JobGood(next, main)
    BY <1>1, <2>1 DEF Jobs, JobGood, Reading, Holding, Tip
  <2> QED
    BY <1>1, <2>2, <2>3, <2>4, BecomeGood
<1>3. CASE job[d].pc = "content" /\ state = "current"
  <2> DEFINE next == [job[d] EXCEPT !.pc = "lookup", !.seen = <<>>]
  <2>1. Become(d, next)
    BY <1>3 DEF Conclude
  <2>2. next \in Jobs
    BY <1>1, NothingSeen DEF Jobs, Pcs
  <2>3. JobGood(next, main)
    BY <1>1, <1>3 DEF Jobs, JobGood, Reading, Holding
  <2> QED
    BY <1>1, <2>1, <2>2, <2>3, BecomeGood
<1>4. CASE job[d].pc = "inspect" /\ state = "current"
  <2>1. Answer(d, "skipped_current")
    BY <1>4 DEF Conclude
  <2> QED
    BY <1>1, <2>1, AnswerGood DEF Answers
<1>5. CASE job[d].pc = "inspect" /\ state = "unknown"
  <2>1. Answer(d, "skipped_unknown_setup")
    BY <1>5 DEF Conclude
  <2> QED
    BY <1>1, <2>1, AnswerGood DEF Answers
<1>6. CASE job[d].pc = "content" /\ state # "current"
  <2>1. Answer(d, "skipped_branch_conflict")
    BY <1>6 DEF Conclude
  <2> QED
    BY <1>1, <2>1, AnswerGood DEF Answers
<1> QED
  BY <1>2, <1>3, <1>4, <1>5, <1>6 DEF Reading

LEMMA ReadFileStep ==
  ASSUME IInv, NEW d \in Deliveries, ReadFile(d)
  PROVE  JobsOK'
<1> DEFINE seen == Append(job[d].seen, Source(d)[PathOrder[Len(job[d].seen) + 1]])
<1>1. job[d].pc \in Reading /\ main' = main
  BY DEF ReadFile, Reading
<1>2. /\ seen \in Seq(Kinds) /\ Len(seen) \in 1..3
      /\ job[d].pc = "inspect" => \A i \in 1..Len(seen) :
           \E c \in job[d].since..Tip : seen[i] = main[c][PathOrder[i]]
  BY <1>1, SeenMore
<1>3. IF Len(seen) = 3 THEN Conclude(d, seen)
      ELSE Become(d, [job[d] EXCEPT !.seen = seen])
  BY PathOrderFacts DEF ReadFile
<1> HIDE DEF seen
<1>4. CASE Len(seen) = 3
  BY <1>1, <1>2, <1>3, <1>4, ConcludeStep
<1>5. CASE Len(seen) # 3
  <2> DEFINE next == [job[d] EXCEPT !.seen = seen]
  <2>1. JobsOK /\ job[d] \in Jobs /\ JobGood(job[d], main)
    BY DEF IInv, JobsOK
  <2>2. next \in Jobs /\ Become(d, next)
    BY <1>2, <1>3, <1>5, <2>1 DEF Jobs
  <2>3. /\ next.pc = job[d].pc /\ next.moved = job[d].moved /\ next.base = job[d].base
        /\ next.since = job[d].since /\ next.seen = seen
    BY <2>1 DEF Jobs
  <2>4. JobGood(next, main)
    <3> HIDE DEF next
    <3>1. Len(seen) < 3
      <4>1. \A n \in 1..3 : n # 3 => n < 3
        OBVIOUS
      <4> QED
        BY <1>2, <1>5, <4>1
    <3>2. next.pc = "inspect" => \A i \in 1..Len(next.seen) :
            \E c \in next.since..Len(main) : next.seen[i] = main[c][PathOrder[i]]
      BY <1>2, <2>3 DEF Tip
    <3> QED
      BY <1>1, <2>1, <2>3, <3>1, <3>2 DEF JobGood, Reading
  <2> QED
    BY <1>1, <2>1, <2>2, <2>4, BecomeGood
<1> QED
  BY <1>4, <1>5

LEMMA ImportStep ==
  ASSUME IInv, NEW d \in Deliveries, ImportConfiguration(d)
  PROVE  JobsOK'
<1> DEFINE next == [job[d] EXCEPT !.pc = "head", !.config = Configuration]
<1>1. JobsOK /\ job[d] \in Jobs /\ JobGood(job[d], main)
  BY DEF IInv, JobsOK
<1>2. Configuration \in {"current", "imported"}
  BY DEF Configuration
<1>3. next \in Jobs
  BY <1>1, <1>2 DEF Jobs, Pcs
<1>4. job[d].pc = "import" /\ Become(d, next) /\ main' = main
  BY DEF ImportConfiguration
<1>5. JobGood(next, main)
  BY <1>1, <1>4 DEF Jobs, JobGood, Reading, Holding
<1> QED
  BY <1>1, <1>3, <1>4, <1>5, BecomeGood

LEMMA ReadHeadStep ==
  ASSUME IInv, NEW d \in Deliveries, ReadHead(d)
  PROVE  JobsOK'
<1> DEFINE next == [job[d] EXCEPT !.pc = "exists", !.base = Tip]
<1>1. JobsOK /\ job[d] \in Jobs /\ JobGood(job[d], main)
  BY DEF IInv, JobsOK
<1>2. Tip \in 1..MaxHead /\ Len(main) = Tip
  BY TipFacts DEF IInv
<1>3. job[d].pc = "head" /\ Become(d, next) /\ main' = main
  BY DEF ReadHead
<1>4. Tip \in 0..MaxHead /\ Tip \in 1..Len(main) /\ Tip \in job[d].since..Len(main)
  <2>1. job[d].since \in 1..Tip
    BY <1>1, <1>2, <1>3 DEF JobGood
  <2> QED
    BY <1>2, <2>1, BoundsAssumption
<1>5. next \in Jobs
  BY <1>1, <1>4 DEF Jobs, Pcs
<1>6. JobGood(next, main)
  BY <1>1, <1>2, <1>3, <1>4 DEF Jobs, JobGood, Reading, Holding
<1> QED
  BY <1>1, <1>3, <1>5, <1>6, BecomeGood

LEMMA BranchExistsStep ==
  ASSUME IInv, NEW d \in Deliveries, BranchExists(d)
  PROVE  JobsOK'
<1>1. JobsOK /\ job[d] \in Jobs /\ JobGood(job[d], main)
  BY DEF IInv, JobsOK
<1>2. job[d].pc = "exists" /\ main' = main
  BY DEF BranchExists
<1>3. CASE branch[job[d].base] = None
  <2> DEFINE next == [job[d] EXCEPT !.pc = "create"]
  <2>1. next \in Jobs /\ Become(d, next)
    BY <1>1, <1>3 DEF BranchExists, Goto, Jobs, Pcs
  <2>2. JobGood(next, main)
    BY <1>1, <1>2 DEF Jobs, JobGood, Reading, Holding
  <2> QED
    BY <1>1, <1>2, <2>1, <2>2, BecomeGood
<1>4. CASE branch[job[d].base] # None
  <2>1. Goto(d, "commit")
    BY <1>4 DEF BranchExists
  <2> QED
    BY <1>1, <1>2, <2>1, GotoGood DEF Holding
<1> QED
  BY <1>3, <1>4

LEMMA CheckCommitStep ==
  ASSUME IInv, NEW d \in Deliveries, CheckCommit(d)
  PROVE  JobsOK'
<1>1. JobsOK /\ job[d].pc = "commit" /\ main' = main
  BY DEF IInv, CheckCommit
<1>2. \/ Answer(d, "failed") \/ Answer(d, "skipped_branch_conflict")
      \/ Goto(d, "content")
  BY DEF CheckCommit
<1>3. CASE Answer(d, "failed")
  BY <1>1, <1>3, AnswerGood DEF Answers
<1>4. CASE Answer(d, "skipped_branch_conflict")
  BY <1>1, <1>4, AnswerGood DEF Answers
<1>5. CASE Goto(d, "content")
  BY <1>1, <1>5, GotoGood DEF Holding
<1> QED
  BY <1>2, <1>3, <1>4, <1>5

\* The branch is made for a need that was seen since the delivery started.
LEMMA MakeBranchStep ==
  ASSUME IInv, NEW d \in Deliveries, job[d].pc = "create", main' = main, open' = open,
         MakeBranch(d)
  PROVE  BranchesOK' /\ ImportedOK'
<1> DEFINE b == job[d].base
           new == [files |-> Overlay(main[b], job[d].config),
                   own |-> TRUE, merged |-> FALSE, since |-> job[d].since]
<1>1. job[d] \in Jobs /\ JobGood(job[d], main)
  BY DEF IInv, JobsOK
<1>2. b \in 1..Tip /\ b \in Commits /\ main[b] \in Contents
  BY <1>1, TipFacts DEF IInv, JobGood, Holding
<1>3. new \in Branches
  BY <1>1, <1>2, OverlayType DEF Branches, Jobs
<1>4. new # None /\ new.own /\ new.since = job[d].since
  BY <1>3, NoneAssumption
<1>5. branch' = [branch EXCEPT ![b] = new] /\ branch[b] = None
  BY DEF MakeBranch
<1>6. job[d].since \in 1..b /\ NeededIn(job[d].since..b, main)
  <2>1. /\ job[d].since \in 1..Len(main) /\ b \in job[d].since..Len(main)
        /\ NeededIn(job[d].since..b, main)
    BY <1>1 DEF JobGood, Holding
  <2> QED
    BY <2>1
<1>7. Tip' = Tip /\ b <= Tip
  BY <1>2 DEF Tip
<1> HIDE DEF b, new
<1>8. branch' \in [Commits -> Branches \cup {None}]
  BY <1>2, <1>3, <1>5 DEF IInv, BranchesOK
<1>9. ASSUME NEW c \in Commits PROVE BranchGood(c)'
  <2>1. CASE c = b
    BY <1>2, <1>4, <1>5, <1>6, <1>7, <2>1 DEF BranchGood, IInv, BranchesOK
  <2>2. CASE c # b
    BY <1>2, <1>5, <1>7, <2>2 DEF BranchGood, IInv, BranchesOK
  <2> QED
    BY <2>1, <2>2
<1>10. open' \subseteq {c \in Commits : branch'[c] # None}
  BY <1>2, <1>4, <1>5 DEF IInv, BranchesOK
<1>11. ImportedOK'
  BY <1>2 DEF MakeBranch, b, ImportedOK, IInv
<1> QED
  BY <1>8, <1>9, <1>10, <1>11 DEF BranchesOK

LEMMA CreateBranchStep ==
  ASSUME IInv, NEW d \in Deliveries, CreateBranch(d)
  PROVE  JobsOK' /\ BranchesOK' /\ ImportedOK'
<1>1. JobsOK /\ job[d].pc = "create" /\ main' = main /\ open' = open
  BY DEF IInv, CreateBranch
<1>2. CASE MakeBranch(d) /\ Goto(d, "lookup")
  BY <1>1, <1>2, MakeBranchStep, GotoGood DEF Holding
<1>3. CASE Goto(d, "commit") /\ UNCHANGED <<branch, imported>>
  BY <1>1, <1>3, GotoGood, QuietStep, SameImported DEF Holding
<1> QED
  BY <1>2, <1>3 DEF CreateBranch

LEMMA LookupStep ==
  ASSUME IInv, NEW d \in Deliveries, Lookup(d)
  PROVE  JobsOK'
<1>1. JobsOK /\ job[d].pc \in {"lookup", "again"} /\ main' = main
  BY DEF IInv, Lookup
<1>2. \/ Answer(d, "skipped_pull_request_exists") \/ Answer(d, "failed")
      \/ Goto(d, "open")
  BY DEF Lookup
<1>3. CASE Goto(d, "open")
  BY <1>1, <1>3, GotoGood DEF Holding
<1>4. CASE Answer(d, "skipped_pull_request_exists")
  BY <1>1, <1>4, AnswerGood DEF Answers
<1>5. CASE Answer(d, "failed")
  BY <1>1, <1>5, AnswerGood DEF Answers
<1> QED
  BY <1>2, <1>3, <1>4, <1>5

\* An opened pull request is of a branch that exists.
LEMMA OpenGood ==
  ASSUME IInv, NEW d \in Deliveries, job[d].pc = "open", Mergeable(job[d].base),
         open' = open \cup {job[d].base}, UNCHANGED <<main, branch>>
  PROVE  BranchesOK'
<1>1. job[d].base \in Commits
  BY TipFacts DEF IInv, JobsOK, JobGood, Holding
<1>2. Tip' = Tip
  BY DEF Tip
<1> QED
  BY <1>1, <1>2 DEF IInv, BranchesOK, BranchGood, Mergeable

LEMMA OpenPullRequestStep ==
  ASSUME IInv, NEW d \in Deliveries, OpenPullRequest(d)
  PROVE  JobsOK' /\ BranchesOK'
<1>1. JobsOK /\ job[d].pc = "open" /\ UNCHANGED <<main, branch>>
  BY DEF IInv, OpenPullRequest
<1>2. CASE Mergeable(job[d].base)
  <2>1. open' = open \cup {job[d].base} /\ Answer(d, "created")
    BY <1>2 DEF OpenPullRequest
  <2> QED
    BY <1>1, <1>2, <2>1, OpenGood, AnswerGood DEF Answers
<1>3. CASE ~Mergeable(job[d].base)
  <2>1. open' = open /\ Goto(d, "again")
    BY <1>3 DEF OpenPullRequest
  <2> QED
    BY <1>1, <2>1, GotoGood, QuietStep DEF Holding
<1> QED
  BY <1>2, <1>3

LEMMA LoseStep ==
  ASSUME IInv, NEW d \in Deliveries, Lose(d)
  PROVE  JobsOK' /\ BranchesOK' /\ ImportedOK'
<1> DEFINE next == [job[d] EXCEPT !.pc = "rest", !.answer = "failed",
                                  !.hit = TRUE, !.seen = <<>>]
<1>1. JobsOK /\ job[d] \in Jobs /\ main' = main /\ Become(d, next)
  BY DEF IInv, JobsOK, Lose
<1>2. next \in Jobs
  BY <1>1, NothingSeen DEF Jobs, Pcs, Answers
<1>3. JobGood(next, main)
  BY <1>1 DEF Jobs, JobGood, Reading, Holding
<1>4. JobsOK'
  BY <1>1, <1>2, <1>3, BecomeGood
<1>5. CASE UNCHANGED <<branch, open, imported>>
  BY <1>1, <1>4, <1>5, QuietStep, SameImported
<1>6. CASE job[d].pc = "create" /\ MakeBranch(d) /\ UNCHANGED open
  BY <1>1, <1>4, <1>6, MakeBranchStep
<1>7. CASE /\ job[d].pc = "open" /\ Mergeable(job[d].base)
           /\ open' = open \cup {job[d].base}
           /\ UNCHANGED <<branch, imported>>
  BY <1>1, <1>4, <1>7, OpenGood, SameImported
<1> QED
  BY <1>5, <1>6, <1>7 DEF Lose

-----------------------------------------------------------------------------
(* The steps of people                                                     *)

LEMMA Growing ==
  ASSUME MainOK, NEW c \in Contents, Tip < MaxHead, main' = Append(main, c)
  PROVE  /\ MainOK' /\ Tip' = Tip + 1
         /\ Len(main) <= Len(main')
         /\ \A b \in 1..Tip : main'[b] = main[b]
<1>1. main \in Seq(Contents) /\ Tip \in Commits /\ Tip = Len(main)
  BY DEF MainOK, Tip
<1>2. main' \in Seq(Contents) /\ Len(main') = Len(main) + 1
  BY <1>1
<1>3. Tip' = Tip + 1 /\ \A b \in 1..Tip : main'[b] = main[b]
  BY <1>1, <1>2 DEF Tip
<1>4. \A n \in 1..MaxHead : n < MaxHead => n + 1 \in 1..MaxHead /\ n <= n + 1
  BY BoundsAssumption
<1>5. Tip' \in Commits /\ Len(main) <= Len(main')
  BY <1>1, <1>2, <1>3, <1>4 DEF Commits
<1> QED
  BY <1>2, <1>3, <1>5 DEF MainOK

\* A branch stays justified when the default branch grows.
LEMMA GrowingBranch ==
  ASSUME IInv, NEW c \in Contents, Tip < MaxHead, main' = Append(main, c),
         NEW b \in Commits, branch'[b] = branch[b] \/ (/\ branch[b] # None
                                                      /\ branch'[b].own = branch[b].own
                                                      /\ branch'[b].since = branch[b].since)
  PROVE  BranchGood(b)'
<1>1. /\ Tip' = Tip + 1 /\ Tip \in 1..MaxHead
      /\ \A n \in 1..Tip : main'[n] = main[n]
  BY Growing, TipFacts DEF IInv
<1>2. ASSUME branch'[b] # None PROVE b <= Tip /\ b <= Tip'
  BY <1>1, <1>2, BoundsAssumption DEF IInv, BranchesOK, BranchGood, Commits
<1>3. ASSUME branch'[b] # None, branch'[b].own
      PROVE  branch'[b].since \in 1..b /\ NeededIn(branch'[b].since..b, main')
  <2> DEFINE S == branch[b].since..b
  <2>1. branch'[b].since = branch[b].since /\ branch[b].since \in 1..b /\ NeededIn(S, main)
    BY <1>3 DEF IInv, BranchesOK, BranchGood
  <2>2. \A n \in S : n \in 1..Tip
    BY <1>1, <1>2, <1>3, <2>1, BoundsAssumption DEF Commits
  <2>3. \A n \in S : main'[n] = main[n]
    BY <1>1, <2>2
  <2>4. branch'[b].since..b = S
    BY <2>1
  <2> HIDE DEF S
  <2>5. NeededIn(S, main')
    BY <2>1, <2>3 DEF NeededIn
  <2> QED
    BY <2>1, <2>4, <2>5
<1> QED
  BY <1>2, <1>3 DEF BranchGood

\* What a delivery has seen of the default branch stays where it was seen.
LEMMA MovingJobs ==
  ASSUME IInv, NEW c \in Contents, Tip < MaxHead, main' = Append(main, c), Moving
  PROVE  JobsOK'
<1>1. /\ Tip' = Tip + 1 /\ Len(main) <= Len(main') /\ Len(main) = Tip /\ Tip \in 1..MaxHead
      /\ Len(main') = Tip' /\ \A b \in 1..Tip : main'[b] = main[b]
  BY Growing, TipFacts DEF IInv, Tip
<1>2. job' \in [Deliveries -> Jobs]
  <2>1. \A d \in Deliveries : job[d] \in Jobs /\ [job[d] EXCEPT !.moved = TRUE] \in Jobs
    BY DEF IInv, JobsOK, Jobs
  <2> QED
    BY <2>1 DEF Moving
<1>3. ASSUME NEW d \in Deliveries PROVE JobGood(job'[d], main')
  <2>1. JobGood(job[d], main) /\ job[d] \in Jobs
    BY DEF IInv, JobsOK
  <2>2. CASE job[d].pc = "rest"
    <3>1. job'[d] = job[d]
      BY <2>2 DEF Moving
    <3> QED
      BY <2>1, <2>2, <3>1 DEF JobGood, Reading, Holding
  <2>3. CASE job[d].pc # "rest"
    <3> DEFINE next == [job[d] EXCEPT !.moved = TRUE]
    <3>1. job'[d] = next
      BY <2>3 DEF Moving
    <3>2. /\ next.pc = job[d].pc /\ next.seen = job[d].seen /\ next.since = job[d].since
          /\ next.base = job[d].base /\ next.moved = TRUE
      BY <2>1 DEF Jobs
    <3> DEFINE S == job[d].since..Len(main)
               T == job[d].since..Len(main')
    <3> HIDE DEF next
    <3>3. /\ job[d].since \in 1..Tip /\ job[d].since \in 1..Len(main')
          /\ S \subseteq T /\ \A n \in S : n \in 1..Tip /\ main'[n] = main[n]
      <4>1. job[d].since \in 1..Tip
        BY <1>1, <2>1, <2>3 DEF JobGood
      <4> QED
        BY <1>1, <4>1
    <3>4. job[d].pc = "inspect" => \A i \in 1..Len(job[d].seen) :
            \E n \in T : job[d].seen[i] = main'[n][PathOrder[i]]
      <4> SUFFICES ASSUME job[d].pc = "inspect", NEW i \in 1..Len(job[d].seen)
                   PROVE  \E n \in T : job[d].seen[i] = main'[n][PathOrder[i]]
        OBVIOUS
      <4>1. PICK n \in S : job[d].seen[i] = main[n][PathOrder[i]]
        BY <2>1 DEF JobGood
      <4> QED
        BY <3>3, <4>1
    <3>5. job[d].pc \in {"import", "head"} => NeededIn(T, main')
      <4>1. job[d].pc \in {"import", "head"} => NeededIn(S, main)
        BY <2>1 DEF JobGood
      <4>2. S \subseteq T /\ \A n \in S : main'[n] = main[n]
        BY <3>3
      <4> HIDE DEF S, T
      <4> QED
        BY <4>1, <4>2, NeededLater, Zenon
    <3>6. job[d].pc \in Holding => job[d].base \in T /\ job[d].base \in 1..Len(main')
      <4>1. job[d].pc \in Holding => job[d].base \in S
        BY <2>1 DEF JobGood
      <4>2. \A n \in 1..Tip : n \in 1..Len(main')
        BY <1>1
      <4> QED
        BY <3>3, <4>1, <4>2
    <3>7. job[d].pc \in {"exists", "create"} => NeededIn(job[d].since..job[d].base, main')
      <4> SUFFICES ASSUME job[d].pc \in {"exists", "create"}
                   PROVE  NeededIn(job[d].since..job[d].base, main')
        OBVIOUS
      <4>1. NeededIn(job[d].since..job[d].base, main) /\ job[d].base \in S
        BY <2>1 DEF JobGood, Holding
      <4> DEFINE U == job[d].since..job[d].base
      <4>2. \A n \in U : n \in S
        BY <1>1, <3>3, <4>1
      <4>3. \A n \in U : main'[n] = main[n]
        BY <3>3, <4>2
      <4>4. NeededIn(U, main)
        BY <4>1
      <4> HIDE DEF U
      <4>5. NeededIn(U, main')
        BY <4>3, <4>4 DEF NeededIn
      <4> QED
        BY <4>5 DEF U
    <3>8. JobGood(next, main')
      BY <2>1, <3>2, <3>3, <3>4, <3>5, <3>6, <3>7 DEF JobGood
    <3> QED
      BY <3>1, <3>8
  <2> QED
    BY <2>2, <2>3
<1> QED
  BY <1>2, <1>3 DEF JobsOK

LEMMA PushStep ==
  ASSUME IInv, Push
  PROVE  MainOK' /\ JobsOK' /\ BranchesOK'
<1>1. PICK p \in Paths \cup {"retired"}, k \in Edits :
        main' = Append(main, [main[Tip] EXCEPT ![p] = k])
  BY DEF Push
<1> DEFINE c == [main[Tip] EXCEPT ![p] = k]
<1>2. c \in Contents
  <2>1. main[Tip] \in Contents /\ k \in Kinds
    BY TipFacts, EditsAssumption DEF IInv
  <2> QED
    BY <2>1 DEF Contents
<1>3. main' = Append(main, c) /\ Tip < MaxHead /\ Moving /\ branch' = branch /\ open' = open
  BY <1>1 DEF Push
<1> HIDE DEF c
<1>4. MainOK'
  BY <1>2, <1>3, Growing DEF IInv
<1>5. ASSUME NEW b \in Commits PROVE BranchGood(b)'
  BY <1>2, <1>3, GrowingBranch
<1> QED
  BY <1>2, <1>3, <1>4, <1>5, MovingJobs DEF IInv, BranchesOK

LEMMA MergeStep ==
  ASSUME IInv, NEW b \in Commits, Merge(b)
  PROVE  MainOK' /\ JobsOK' /\ BranchesOK'
<1> DEFINE c == [p \in Paths \cup {"retired"} |-> MergeOf(b, p)]
           new == [branch[b] EXCEPT !.merged = TRUE]
<1>1. branch[b] \in Branches /\ branch[b] # None
  BY DEF Merge, IInv, BranchesOK
<1>2. c \in Contents
  <2>1. main[Tip] \in Contents /\ branch[b].files \in Contents
    BY <1>1, TipFacts DEF IInv, Branches
  <2>2. \A p \in Paths \cup {"retired"} : MergeOf(b, p) \in Kinds
    BY <2>1 DEF Contents, MergeOf
  <2> QED
    BY <2>2 DEF Contents
<1>3. /\ main' = Append(main, c) /\ Tip < MaxHead /\ Moving
      /\ branch' = [branch EXCEPT ![b] = new] /\ open' = open \ {b}
  BY DEF Merge
<1>4. new \in Branches /\ new.own = branch[b].own /\ new.since = branch[b].since
  BY <1>1 DEF Branches
<1>5. new # None
  BY <1>4, NoneAssumption
<1> HIDE DEF c, new
<1>6. MainOK'
  BY <1>2, <1>3, Growing DEF IInv
<1>7. branch' \in [Commits -> Branches \cup {None}]
  BY <1>3, <1>4 DEF IInv, BranchesOK
<1>8. ASSUME NEW e \in Commits PROVE BranchGood(e)'
  <2>1. CASE e = b
    <3>1. branch'[e] = new
      BY <1>3, <2>1 DEF IInv, BranchesOK
    <3> QED
      BY <1>1, <1>2, <1>3, <1>4, <2>1, <3>1, GrowingBranch
  <2>2. CASE e # b
    <3>1. branch'[e] = branch[e]
      BY <1>3, <2>2 DEF IInv, BranchesOK
    <3> QED
      BY <1>2, <1>3, <3>1, GrowingBranch
  <2> QED
    BY <2>1, <2>2
<1>9. open' \subseteq {n \in Commits : branch'[n] # None}
  BY <1>3, <1>5 DEF IInv, BranchesOK
<1> QED
  BY <1>2, <1>3, <1>6, <1>7, <1>8, <1>9, MovingJobs DEF BranchesOK

LEMMA HittingJobs ==
  ASSUME IInv, main' = main, NEW b \in Commits, Hitting(b)
  PROVE  JobsOK'
<1>1. \A d \in Deliveries : job[d] \in Jobs /\ [job[d] EXCEPT !.hit = TRUE] \in Jobs
  BY DEF IInv, JobsOK, Jobs
<1>2. job' \in [Deliveries -> Jobs]
  BY <1>1 DEF Hitting
<1>3. ASSUME NEW d \in Deliveries PROVE JobGood(job'[d], main')
  <2>1. JobGood(job[d], main) /\ job[d] \in Jobs
    BY DEF IInv, JobsOK
  <2> DEFINE next == [job[d] EXCEPT !.hit = TRUE]
  <2>2. /\ next.pc = job[d].pc /\ next.seen = job[d].seen /\ next.since = job[d].since
        /\ next.base = job[d].base /\ next.moved = job[d].moved
    BY <2>1 DEF Jobs
  <2>3. job'[d] = next \/ job'[d] = job[d]
    BY DEF Hitting
  <2> HIDE DEF next
  <2>4. JobGood(next, main)
    BY <2>1, <2>2 DEF JobGood
  <2> QED
    BY <2>1, <2>3, <2>4
<1> QED
  BY <1>2, <1>3 DEF JobsOK

LEMMA CloseStep ==
  ASSUME IInv, NEW b \in Commits, Close(b)
  PROVE  MainOK' /\ JobsOK' /\ BranchesOK'
<1>1. main' = main /\ branch' = branch /\ open' = open \ {b} /\ Hitting(b)
  BY DEF Close
<1>2. Tip' = Tip
  BY <1>1 DEF Tip
<1> QED
  BY <1>1, <1>2, HittingJobs DEF IInv, MainOK, BranchesOK, BranchGood

LEMMA TouchStep ==
  ASSUME IInv, NEW b \in Commits, Touch(b)
  PROVE  MainOK' /\ JobsOK' /\ BranchesOK' /\ CountsOK'
<1> DEFINE old == IF branch[b] = None THEN main[b] ELSE branch[b].files
           new == [files |-> [old EXCEPT !["config"] = "custom"],
                   own |-> FALSE, merged |-> FALSE, since |-> 0]
<1>1. /\ main' = main /\ open' = open /\ Hitting(b) /\ b <= Tip
      /\ touched' = touched \cup {b} /\ starts' = starts
      /\ branch' = [branch EXCEPT ![b] = new]
  BY DEF Touch
<1>2. Tip' = Tip
  BY <1>1 DEF Tip
<1>3. main[b] \in Contents
  BY <1>1, TipFacts, BoundsAssumption DEF IInv, Commits
<1>4. branch[b] = None \/ branch[b].files \in Contents
  BY DEF IInv, BranchesOK, Branches
<1>5. [old EXCEPT !["config"] = "custom"] \in Contents
  BY <1>3, <1>4 DEF Contents, Kinds
<1>6. new \in Branches /\ ~new.own
  <2>1. 0 \in 0..MaxHead
    BY BoundsAssumption
  <2> QED
    BY <1>5, <2>1 DEF Branches
<1>7. new # None
  BY <1>6, NoneAssumption
<1> HIDE DEF old, new
<1>8. branch' \in [Commits -> Branches \cup {None}]
  BY <1>1, <1>6 DEF IInv, BranchesOK
<1>9. ASSUME NEW e \in Commits PROVE BranchGood(e)'
  <2>1. CASE e = b
    <3>1. branch'[e] = new
      BY <1>1, <2>1 DEF IInv, BranchesOK
    <3> QED
      BY <1>1, <1>2, <1>6, <2>1, <3>1 DEF BranchGood
  <2>2. CASE e # b
    <3>1. branch'[e] = branch[e] /\ BranchGood(e)
      BY <1>1, <2>2 DEF IInv, BranchesOK
    <3> QED
      BY <1>1, <1>2, <3>1 DEF BranchGood
  <2> QED
    BY <2>1, <2>2
<1>10. open' \subseteq {n \in Commits : branch'[n] # None}
  BY <1>1, <1>7 DEF IInv, BranchesOK
<1>11. MainOK' /\ CountsOK'
  BY <1>1, <1>2 DEF IInv, MainOK, CountsOK
<1> QED
  BY <1>1, <1>8, <1>9, <1>10, <1>11, HittingJobs DEF BranchesOK

LEMMA DeleteStep ==
  ASSUME IInv, NEW b \in Commits, Delete(b)
  PROVE  MainOK' /\ JobsOK' /\ BranchesOK'
<1>1. /\ main' = main /\ open' = open \ {b} /\ Hitting(b)
      /\ branch' = [branch EXCEPT ![b] = None]
  BY DEF Delete
<1>2. Tip' = Tip
  BY <1>1 DEF Tip
<1>3. branch' \in [Commits -> Branches \cup {None}]
  BY <1>1 DEF IInv, BranchesOK
<1>4. \A e \in Commits : BranchGood(e)'
  BY <1>1, <1>2 DEF IInv, BranchesOK, BranchGood
<1>5. open' \subseteq {n \in Commits : branch'[n] # None}
  BY <1>1 DEF IInv, BranchesOK
<1>6. MainOK'
  BY <1>1, <1>2 DEF IInv, MainOK
<1> QED
  BY <1>1, <1>3, <1>4, <1>5, <1>6, HittingJobs DEF BranchesOK

-----------------------------------------------------------------------------
(* The invariant                                                           *)

LEMMA InitOK == Init => IInv
<1> SUFFICES ASSUME Init PROVE IInv
  OBVIOUS
<1>1. PICK c \in Initial : main = <<c>>
  BY DEF Init
<1>2. c \in Contents /\ <<c>> \in Seq(Contents) /\ Len(<<c>>) = 1
  BY InitialAssumption
<1>3. MainOK
  BY <1>1, <1>2, BoundsAssumption DEF MainOK, Tip, Commits
<1>4. JobsOK
  <2>1. Rest \in Jobs
    <3>1. <<>> \in Seq(Kinds) /\ 0 \in 0..MaxHead
      BY BoundsAssumption
    <3> QED
      BY <3>1 DEF Rest, Jobs, Pcs
  <2>2. JobGood(Rest, main)
    BY DEF Rest, JobGood, Reading, Holding
  <2> QED
    BY <2>1, <2>2 DEF Init, JobsOK
<1>5. BranchesOK
  BY DEF Init, BranchesOK, BranchGood
<1>6. CountsOK /\ ImportedOK
  BY BoundsAssumption DEF Init, CountsOK, ImportedOK
<1> QED
  BY <1>3, <1>4, <1>5, <1>6 DEF IInv

LEMMA NextOK == IInv /\ [Next]_vars => IInv'
<1> SUFFICES ASSUME IInv, [Next]_vars PROVE IInv'
  OBVIOUS
<1> USE DEF history
<1>1. ASSUME NEW d \in Deliveries, Start(d) PROVE IInv'
  BY <1>1, StartStep, QuietStep, SameImported DEF Start, IInv
<1>2. ASSUME NEW d \in Deliveries, ReadFile(d) PROVE IInv'
  BY <1>2, ReadFileStep, QuietStep, SameHistory, SameImported DEF ReadFile, IInv
<1>3. ASSUME NEW d \in Deliveries, ImportConfiguration(d) PROVE IInv'
  BY <1>3, ImportStep, QuietStep, SameHistory, SameImported DEF ImportConfiguration, IInv
<1>4. ASSUME NEW d \in Deliveries, ReadHead(d) PROVE IInv'
  BY <1>4, ReadHeadStep, QuietStep, SameHistory, SameImported DEF ReadHead, IInv
<1>5. ASSUME NEW d \in Deliveries, BranchExists(d) PROVE IInv'
  BY <1>5, BranchExistsStep, QuietStep, SameHistory, SameImported DEF BranchExists, IInv
<1>6. ASSUME NEW d \in Deliveries, CheckCommit(d) PROVE IInv'
  BY <1>6, CheckCommitStep, QuietStep, SameHistory, SameImported DEF CheckCommit, IInv
<1>7. ASSUME NEW d \in Deliveries, CreateBranch(d) PROVE IInv'
  <2>1. main' = main /\ UNCHANGED <<starts, touched>>
    BY <1>7 DEF CreateBranch
  <2>2. MainOK'
    BY <2>1 DEF IInv, MainOK, Tip
  <2> QED
    BY <1>7, <2>1, <2>2, CreateBranchStep, SameHistory DEF IInv
<1>8. ASSUME NEW d \in Deliveries, Lookup(d) PROVE IInv'
  BY <1>8, LookupStep, QuietStep, SameHistory, SameImported DEF Lookup, IInv
<1>9. ASSUME NEW d \in Deliveries, OpenPullRequest(d) PROVE IInv'
  <2>1. main' = main /\ UNCHANGED <<starts, touched, imported>>
    BY <1>9 DEF OpenPullRequest
  <2>2. MainOK'
    BY <2>1 DEF IInv, MainOK, Tip
  <2> QED
    BY <1>9, <2>1, <2>2, OpenPullRequestStep, SameHistory, SameImported DEF IInv
<1>10. ASSUME NEW d \in Deliveries, Lose(d) PROVE IInv'
  <2>1. main' = main /\ UNCHANGED <<starts, touched>>
    BY <1>10 DEF Lose
  <2>2. MainOK'
    BY <2>1 DEF IInv, MainOK, Tip
  <2> QED
    BY <1>10, <2>1, <2>2, LoseStep, SameHistory DEF IInv
<1>11. CASE Push
  BY <1>11, PushStep, SameHistory, SameImported DEF Push, IInv
<1>12. ASSUME NEW b \in Commits, Merge(b) PROVE IInv'
  BY <1>12, MergeStep, SameHistory, SameImported DEF Merge, IInv
<1>13. ASSUME NEW b \in Commits, Close(b) PROVE IInv'
  BY <1>13, CloseStep, SameHistory, SameImported DEF Close, IInv
<1>14. ASSUME NEW b \in Commits, Touch(b) PROVE IInv'
  BY <1>14, TouchStep, SameImported DEF Touch, IInv
<1>15. ASSUME NEW b \in Commits, Delete(b) PROVE IInv'
  BY <1>15, DeleteStep, SameHistory, SameImported DEF Delete, IInv
<1>16. CASE UNCHANGED vars
  <2>1. JobsOK'
    BY <1>16 DEF vars, IInv, JobsOK
  <2> QED
    BY <1>16, <2>1, QuietStep, SameHistory, SameImported DEF vars, IInv
<1> QED
  BY <1>1, <1>2, <1>3, <1>4, <1>5, <1>6, <1>7, <1>8, <1>9, <1>10, <1>11,
     <1>12, <1>13, <1>14, <1>15, <1>16 DEF Next

LEMMA IInvMeans == IInv => TypeOK /\ SetupOnlyWhereNeeded
BY DEF IInv, MainOK, JobsOK, BranchesOK, BranchGood, CountsOK, ImportedOK,
       TypeOK, SetupOnlyWhereNeeded, NeededIn

\* The repository and the deliveries keep their types, and pull requests are
\* open only for branches that exist, whatever is interleaved or lost.
THEOREM SetupTypeOK == Spec => []TypeOK
<1>1. Init => IInv
  BY InitOK
<1>2. IInv /\ [Next]_vars => IInv'
  BY NextOK
<1>3. IInv => TypeOK
  BY IInvMeans
<1> QED
  BY <1>1, <1>2, <1>3, PTL DEF Spec

\* For every number of deliveries and commits, however the reads of a delivery
\* interleave with pushes and merges: each file the App's own branch replaces
\* was not custom at some commit since the delivery started, and a complete
\* current setup was not there all along.
THEOREM SetupIsNeeded == Spec => []SetupOnlyWhereNeeded
<1>1. Init => IInv
  BY InitOK
<1>2. IInv /\ [Next]_vars => IInv'
  BY NextOK
<1>3. IInv => SetupOnlyWhereNeeded
  BY IInvMeans
<1> QED
  BY <1>1, <1>2, <1>3, PTL DEF Spec

-----------------------------------------------------------------------------
(* A delivery nobody disturbs                                              *)

Present == Holding \ {"exists", "create"}
Excused == touched \cup imported
Bad     == {"failed", "skipped_branch_conflict"}

\* What a delivery that nobody has disturbed may rely on: it still holds the
\* head, which needs a setup; the branch it has found or made is there; if
\* GitHub has refused its pull request there is one already; the files it has
\* read of the branch are the App's; and it has not ended badly, unless its
\* branch is excused.
Informed(j, m, br, op, ex) ==
  ~j.moved /\ ~j.hit =>
    /\ j.pc \in Holding => j.base = Len(m) /\ Needs(m[j.base])
    /\ j.pc \in Present => br[j.base] # None
    /\ j.pc = "again" => j.base \in op
    /\ j.pc = "content" /\ j.base \notin ex => \A i \in 1..Len(j.seen) : j.seen[i] = "current"
    /\ j.pc = "rest" /\ j.answer \in Bad => j.base \in ex

\* Nobody has written a branch since the App made it, and it is merged only
\* into a later head.
AsMade(b) ==
  branch[b] # None =>
    /\ branch[b].merged => b < Tip
    /\ b \notin Excused => branch[b].own /\ \A p \in Paths : branch[b].files[p] = "current"

Foreseen ==
  /\ \A d \in Deliveries : Informed(job[d], main, branch, open, Excused)
  /\ \A b \in Commits : AsMade(b)

\* What one delivery relies on outlives the steps of the others: they add
\* branches and pull requests, and excuses.
LEMMA StaysInformed ==
  ASSUME NEW j, NEW m, NEW br, NEW op, NEW ex, NEW br2, NEW op2, NEW ex2,
         Informed(j, m, br, op, ex),
         j.pc \in Present /\ br[j.base] # None => br2[j.base] # None,
         j.pc = "again" /\ j.base \in op => j.base \in op2,
         ex \subseteq ex2
  PROVE  Informed(j, m, br2, op2, ex2)
BY DEF Informed

\* A delivery going on from what it is informed of.
LEMMA OwnStep ==
  ASSUME IInv, Foreseen, NEW d \in Deliveries, NEW next, Become(d, next),
         UNCHANGED <<main, touched>>, imported \subseteq imported', open \subseteq open',
         \A b \in Commits : branch[b] # None => branch'[b] # None,
         Informed(next, main, branch', open', Excused'),
         \A b \in Commits : AsMade(b)'
  PROVE  Foreseen'
<1>1. ASSUME NEW e \in Deliveries
      PROVE  Informed(job'[e], main', branch', open', Excused')
  <2>1. CASE e = d
    BY <2>1 DEF Become, IInv, JobsOK
  <2>2. CASE e # d
    <3>1. job'[e] = job[e] /\ Informed(job[e], main, branch, open, Excused) /\ main' = main
      BY <2>2 DEF Become, IInv, JobsOK, Foreseen
    <3>2. job[e].pc \in Present => job[e].base \in Commits
      BY TipFacts DEF IInv, JobsOK, JobGood, Present
    <3>3. Excused \subseteq Excused'
      BY DEF Excused
    <3> QED
      BY <3>1, <3>2, <3>3, StaysInformed
  <2> QED
    BY <2>1, <2>2
<1> QED
  BY <1>1 DEF Foreseen

\* A step of a delivery that leaves the repository alone.
LEMMA OwnQuietStep ==
  ASSUME IInv, Foreseen, NEW d \in Deliveries, NEW next, Become(d, next),
         UNCHANGED <<main, branch, open, touched, imported>>,
         Informed(next, main, branch, open, Excused)
  PROVE  Foreseen'
<1>1. \A b \in Commits : AsMade(b)'
  BY DEF Foreseen, AsMade, Excused, Tip
<1>2. Excused' = Excused
  BY DEF Excused
<1> QED
  BY <1>1, <1>2, OwnStep

LEMMA AnswerInformed ==
  ASSUME IInv, Foreseen, NEW d \in Deliveries, NEW a \in Answers,
         NEW br, NEW op, NEW ex,
         ~job[d].moved /\ ~job[d].hit /\ a \in Bad => job[d].base \in ex
  PROVE  Informed([job[d] EXCEPT !.pc = "rest", !.answer = a, !.seen = <<>>], main, br, op, ex)
<1>1. job[d] \in Jobs
  BY DEF IInv, JobsOK
<1> QED
  BY <1>1 DEF Informed, Jobs, Holding, Present

LEMMA QuietAnswer ==
  ASSUME IInv, Foreseen, NEW d \in Deliveries, NEW a \in Answers, Answer(d, a),
         UNCHANGED <<main, branch, open, touched, imported>>,
         ~job[d].moved /\ ~job[d].hit /\ a \in Bad => job[d].base \in Excused
  PROVE  Foreseen'
BY AnswerInformed, OwnQuietStep DEF Answer

LEMMA StartForeseen ==
  ASSUME IInv, Foreseen, NEW d \in Deliveries, Start(d)
  PROVE  Foreseen'
<1>1. Informed([Rest EXCEPT !.pc = "inspect", !.since = Tip], main, branch, open, Excused)
  BY DEF Informed, Rest, Holding, Present
<1> QED
  BY <1>1, OwnQuietStep DEF Start, history

\* The files of an undisturbed delivery's branch are the App's, and those of a
\* branch made from a current setup would be no reason for one.
LEMMA BranchAsMade ==
  ASSUME IInv, Foreseen, NEW d \in Deliveries, ~job[d].moved, ~job[d].hit,
         job[d].pc \in Present, job[d].base \notin Excused
  PROVE  /\ branch[job[d].base] # None /\ branch[job[d].base].own
         /\ \A p \in Paths : branch[job[d].base].files[p] = "current"
         /\ Differs(branch[job[d].base].files, main[job[d].base])
<1> DEFINE b == job[d].base
<1>1. b \in Commits
  BY TipFacts DEF IInv, JobsOK, JobGood, Present
<1>2. /\ branch[b] # None /\ Needs(main[b]) /\ branch[b].own
      /\ \A p \in Paths : branch[b].files[p] = "current"
  BY <1>1 DEF Foreseen, Informed, AsMade, Present
<1> QED
  BY <1>2 DEF Differs, Needs

LEMMA ConcludeForeseen ==
  ASSUME IInv, Foreseen, NEW d \in Deliveries, job[d].pc \in Reading,
         UNCHANGED <<main, branch, open, touched, imported>>,
         NEW seen, Conclude(d, seen),
         job[d].pc = "content" /\ ~job[d].moved /\ ~job[d].hit /\ job[d].base \notin Excused
           => \A i \in 1..3 : seen[i] = "current"
  PROVE  Foreseen'
<1> DEFINE f == [p \in Paths |-> seen[ReadAt[p]]]
<1>1. job[d] \in Jobs /\ Informed(job[d], main, branch, open, Excused)
  BY DEF IInv, JobsOK, Foreseen
<1>2. CASE job[d].pc = "inspect"
  <2>1. CASE Answer(d, "skipped_current")
    BY <2>1, QuietAnswer DEF Answers, Bad
  <2>2. CASE Answer(d, "skipped_unknown_setup")
    BY <2>2, QuietAnswer DEF Answers, Bad
  <2>3. CASE Become(d, [job[d] EXCEPT !.pc = "import", !.seen = <<>>])
    <3>1. Informed([job[d] EXCEPT !.pc = "import", !.seen = <<>>], main, branch, open, Excused)
      BY <1>1 DEF Informed, Jobs, Holding, Present
    <3> QED
      BY <2>3, <3>1, OwnQuietStep
  <2> QED
    BY <1>2, <2>1, <2>2, <2>3 DEF Conclude
<1>3. CASE job[d].pc = "content"
  <2>1. CASE Become(d, [job[d] EXCEPT !.pc = "lookup", !.seen = <<>>])
    <3>1. Informed([job[d] EXCEPT !.pc = "lookup", !.seen = <<>>], main, branch, open, Excused)
      BY <1>1, <1>3 DEF Informed, Jobs, Holding, Present
    <3> QED
      BY <2>1, <3>1, OwnQuietStep
  <2>2. CASE Answer(d, "skipped_branch_conflict") /\ Classify(f) # "current"
    <3>1. ASSUME ~job[d].moved, ~job[d].hit, job[d].base \notin Excused PROVE FALSE
      <4>1. \A p \in Paths : f[p] = "current"
        BY <1>3, <3>1, PathOrderFacts
      <4>2. Classify(f) = "current"
        <5> HIDE DEF f
        <5> QED
          BY <4>1 DEF Classify, Paths
      <4> QED
        BY <2>2, <4>2
    <3> QED
      BY <2>2, <3>1, QuietAnswer DEF Answers
  <2> QED
    BY <1>3, <2>1, <2>2 DEF Conclude
<1> QED
  BY <1>2, <1>3 DEF Reading

LEMMA ReadFileForeseen ==
  ASSUME IInv, Foreseen, NEW d \in Deliveries, ReadFile(d)
  PROVE  Foreseen'
<1> DEFINE old  == job[d].seen
           n    == Len(old) + 1
           new  == Source(d)[PathOrder[n]]
           seen == Append(old, new)
           next == [job[d] EXCEPT !.seen = seen]
<1>1. /\ job[d] \in Jobs /\ JobGood(job[d], main) /\ job[d].pc \in Reading
      /\ Informed(job[d], main, branch, open, Excused)
  BY DEF IInv, JobsOK, Foreseen, ReadFile, Reading
<1>2. UNCHANGED <<main, branch, open, touched, imported>>
  BY DEF ReadFile, history
<1>3. IF Len(seen) = 3 THEN Conclude(d, seen) ELSE Become(d, next)
  BY PathOrderFacts DEF ReadFile
<1>4. old \in Seq(Kinds) /\ Len(old) \in 0..2 /\ n \in 1..3
  <2>1. old \in Seq(Kinds) /\ Len(old) < 3
    BY <1>1 DEF Jobs, JobGood
  <2>2. \A k \in Nat : k < 3 => k \in 0..2 /\ k + 1 \in 1..3
    OBVIOUS
  <2>3. Len(old) \in Nat
    BY <2>1
  <2>4. Len(old) \in 0..2 /\ n \in 1..3
    BY <2>1, <2>2, <2>3, Zenon
  <2> QED
    BY <2>1, <2>4
<1>5. new \in Kinds
  BY <1>1, <1>4, SourceType, PathOrderFacts
<1>6. ASSUME job[d].pc = "content", ~job[d].moved, ~job[d].hit, job[d].base \notin Excused
      PROVE  \A i \in 1..Len(seen) : seen[i] = "current"
  <2>1. Source(d) = branch[job[d].base].files
    BY <1>6, BranchAsMade DEF Source, Present, Holding
  <2>2. new = "current"
    BY <1>4, <1>6, <2>1, BranchAsMade, PathOrderFacts DEF Present, Holding
  <2>3. \A i \in 1..Len(old) : old[i] = "current"
    BY <1>1, <1>6 DEF Informed
  <2> HIDE DEF old, new
  <2> QED
    BY <1>4, <1>5, <2>2, <2>3
<1> HIDE DEF seen
<1>7. CASE Len(seen) = 3
  BY <1>1, <1>2, <1>3, <1>6, <1>7, ConcludeForeseen
<1>8. CASE Len(seen) # 3
  <2>1. /\ next.pc = job[d].pc /\ next.moved = job[d].moved /\ next.hit = job[d].hit
        /\ next.base = job[d].base /\ next.seen = seen
    BY <1>1 DEF Jobs
  <2>2. next.pc # "rest"
    BY <1>1, <2>1 DEF Reading
  <2> HIDE DEF next
  <2>3. Informed(next, main, branch, open, Excused)
    BY <1>1, <1>6, <2>1, <2>2 DEF Informed
  <2> QED
    BY <1>2, <1>3, <1>8, <2>3, OwnQuietStep
<1> QED
  BY <1>7, <1>8

LEMMA ImportForeseen ==
  ASSUME IInv, Foreseen, NEW d \in Deliveries, ImportConfiguration(d)
  PROVE  Foreseen'
<1> DEFINE next == [job[d] EXCEPT !.pc = "head", !.config = Configuration]
<1>1. job[d] \in Jobs
  BY DEF IInv, JobsOK
<1>2. Informed(next, main, branch, open, Excused)
  BY <1>1 DEF Informed, Jobs, Holding, Present
<1> QED
  BY <1>2, OwnQuietStep DEF ImportConfiguration, history

LEMMA ReadHeadForeseen ==
  ASSUME IInv, Foreseen, NEW d \in Deliveries, ReadHead(d)
  PROVE  Foreseen'
<1> DEFINE next == [job[d] EXCEPT !.pc = "exists", !.base = Tip]
<1>1. job[d] \in Jobs /\ JobGood(job[d], main) /\ job[d].pc = "head"
  BY DEF IInv, JobsOK, ReadHead
<1>2. /\ next.pc = "exists" /\ next.base = Len(main)
      /\ next.moved = job[d].moved /\ next.hit = job[d].hit
  BY <1>1 DEF Jobs, Tip
<1>3. ASSUME ~next.moved PROVE Needs(main[Len(main)])
  <2>1. NeededIn(job[d].since..Len(main), main) /\ job[d].since = Len(main)
    BY <1>1, <1>2, <1>3 DEF JobGood
  <2>2. \A c \in job[d].since..Len(main) : c = Len(main)
    BY <2>1
  <2> QED
    BY <2>1, <2>2 DEF NeededIn, Needs
<1> HIDE DEF next
<1>4. Informed(next, main, branch, open, Excused)
  BY <1>2, <1>3 DEF Informed, Present, Holding
<1> QED
  BY <1>4, OwnQuietStep DEF ReadHead, history, next

\* Going on with the same commit.
LEMMA GotoInformed ==
  ASSUME IInv, Foreseen, NEW d \in Deliveries, job[d].pc \in Holding \ {"content"},
         NEW n \in Holding, NEW br, NEW op, NEW ex,
         ~job[d].moved /\ ~job[d].hit
           => /\ n \in Present => br[job[d].base] # None
              /\ n = "again" => job[d].base \in op
  PROVE  Informed([job[d] EXCEPT !.pc = n], main, br, op, ex)
<1> DEFINE next == [job[d] EXCEPT !.pc = n]
<1>1. /\ job[d] \in Jobs /\ JobGood(job[d], main)
      /\ Informed(job[d], main, branch, open, Excused)
  BY DEF IInv, JobsOK, Foreseen
<1>2. /\ next.pc = n /\ next.moved = job[d].moved /\ next.hit = job[d].hit
      /\ next.base = job[d].base /\ next.seen = <<>>
  BY <1>1 DEF Jobs, JobGood, Holding, Reading
<1>3. n # "rest" /\ Len(<<>>) = 0
  BY DEF Holding
<1> HIDE DEF next
<1>4. \A i \in 1..Len(next.seen) : next.seen[i] = "current"
  BY <1>2, <1>3
<1>5. Informed(next, main, br, op, ex)
  BY <1>1, <1>2, <1>3, <1>4 DEF Informed
<1> QED
  BY <1>5 DEF next

LEMMA BranchExistsForeseen ==
  ASSUME IInv, Foreseen, NEW d \in Deliveries, BranchExists(d)
  PROVE  Foreseen'
<1> DEFINE n == IF branch[job[d].base] = None THEN "create" ELSE "commit"
<1>1. Informed([job[d] EXCEPT !.pc = n], main, branch, open, Excused)
  BY GotoInformed DEF BranchExists, Holding, Present
<1> QED
  BY <1>1, OwnQuietStep DEF BranchExists, Goto, history

LEMMA CheckCommitForeseen ==
  ASSUME IInv, Foreseen, NEW d \in Deliveries, CheckCommit(d)
  PROVE  Foreseen'
<1>1. /\ UNCHANGED <<main, branch, open, touched, imported>> /\ job[d].pc = "commit"
      /\ Informed(job[d], main, branch, open, Excused)
  BY DEF CheckCommit, history, Foreseen
<1>2. CASE Answer(d, "failed") /\ branch[job[d].base] = None
  <2>1. job[d].moved \/ job[d].hit
    BY <1>1, <1>2 DEF Informed, Present, Holding
  <2> QED
    BY <1>1, <1>2, <2>1, QuietAnswer DEF Answers
<1>3. CASE Goto(d, "content") /\ branch[job[d].base] # None
  <2>1. Informed([job[d] EXCEPT !.pc = "content"], main, branch, open, Excused)
    BY <1>1, <1>3, GotoInformed DEF Holding
  <2> QED
    BY <1>1, <1>3, <2>1, OwnQuietStep DEF Goto
<1>4. CASE Answer(d, "skipped_branch_conflict") /\ ~OwnCommit(job[d].base)
  <2>1. ~job[d].moved /\ ~job[d].hit => job[d].base \in Excused
    BY <1>1, <1>4, BranchAsMade DEF OwnCommit, Present, Holding
  <2> QED
    BY <1>1, <1>4, <2>1, QuietAnswer DEF Answers
<1> QED
  BY <1>2, <1>3, <1>4 DEF CheckCommit

LEMMA MakeBranchAsMade ==
  ASSUME IInv, Foreseen, NEW d \in Deliveries, job[d].pc = "create", MakeBranch(d),
         UNCHANGED <<main, touched>>
  PROVE  /\ \A b \in Commits : AsMade(b)'
         /\ branch'[job[d].base] # None
         /\ \A b \in Commits : branch[b] # None => branch'[b] # None
         /\ imported \subseteq imported'
<1> DEFINE b   == job[d].base
           new == [files |-> Overlay(main[b], job[d].config),
                   own |-> TRUE, merged |-> FALSE, since |-> job[d].since]
<1>1. job[d] \in Jobs /\ b \in Commits /\ main[b] \in Contents
  BY TipFacts DEF IInv, JobsOK, JobGood, Holding
<1>2. job[d].config \in {"current", "imported"}
  BY <1>1 DEF Jobs
<1>3. new # None /\ ~new.merged /\ new.own
  <2>1. new \in Branches
    BY <1>1, <1>2, OverlayType DEF Branches, Jobs
  <2> QED
    BY <2>1, NoneAssumption
<1>4. job[d].config = "current" => \A p \in Paths : new.files[p] = "current"
  BY <1>1 DEF Overlay, Contents, Paths
<1>5. branch' = [branch EXCEPT ![b] = new]
  BY DEF MakeBranch
<1>6. imported \subseteq imported' /\ (job[d].config = "imported" => b \in imported')
  BY DEF MakeBranch
<1> HIDE DEF b, new
<1>7. ASSUME NEW c \in Commits PROVE AsMade(c)' /\ (branch[c] # None => branch'[c] # None)
  <2>1. CASE c = b
    BY <1>2, <1>3, <1>4, <1>5, <1>6, <2>1 DEF AsMade, Excused, IInv, BranchesOK
  <2>2. CASE c # b
    BY <1>5, <1>6, <2>2 DEF AsMade, Excused, Tip, Foreseen, IInv, BranchesOK
  <2> QED
    BY <2>1, <2>2
<1>8. branch'[b] # None
  BY <1>1, <1>3, <1>5 DEF IInv, BranchesOK
<1> QED
  BY <1>6, <1>7, <1>8 DEF b

LEMMA CreateBranchForeseen ==
  ASSUME IInv, Foreseen, NEW d \in Deliveries, CreateBranch(d)
  PROVE  Foreseen'
<1>1. job[d].pc = "create" /\ UNCHANGED <<main, open, touched>>
  BY DEF CreateBranch
<1>2. CASE MakeBranch(d) /\ Goto(d, "lookup")
  <2>1. Informed([job[d] EXCEPT !.pc = "lookup"], main, branch', open', Excused')
    BY <1>1, <1>2, MakeBranchAsMade, GotoInformed DEF Holding
  <2> QED
    BY <1>1, <1>2, <2>1, MakeBranchAsMade, OwnStep DEF Goto
<1>3. CASE /\ branch[job[d].base] # None /\ Goto(d, "commit")
           /\ UNCHANGED <<branch, imported>>
  <2>1. Informed([job[d] EXCEPT !.pc = "commit"], main, branch, open, Excused)
    BY <1>1, <1>3, GotoInformed DEF Holding
  <2> QED
    BY <1>1, <1>3, <2>1, OwnQuietStep DEF Goto
<1> QED
  BY <1>2, <1>3 DEF CreateBranch

LEMMA LookupForeseen ==
  ASSUME IInv, Foreseen, NEW d \in Deliveries, Lookup(d)
  PROVE  Foreseen'
<1>1. /\ UNCHANGED <<main, branch, open, touched, imported>>
      /\ job[d].pc \in {"lookup", "again"} /\ Informed(job[d], main, branch, open, Excused)
  BY DEF Lookup, history, Foreseen
<1>2. CASE Answer(d, "skipped_pull_request_exists")
  BY <1>1, <1>2, QuietAnswer DEF Answers, Bad
<1>3. CASE Goto(d, "open") /\ job[d].pc = "lookup"
  <2>1. Informed([job[d] EXCEPT !.pc = "open"], main, branch, open, Excused)
    BY <1>1, <1>3, GotoInformed DEF Informed, Holding, Present
  <2> QED
    BY <1>1, <1>3, <2>1, OwnQuietStep DEF Goto
<1>4. CASE Answer(d, "failed") /\ job[d].pc = "again" /\ job[d].base \notin open
  <2>1. job[d].moved \/ job[d].hit
    BY <1>1, <1>4 DEF Informed
  <2> QED
    BY <1>1, <1>4, <2>1, QuietAnswer DEF Answers
<1> QED
  BY <1>1, <1>2, <1>3, <1>4 DEF Lookup

\* A branch that is there and not merged has a pull request if GitHub refuses
\* another, and an undisturbed delivery's branch is not merged: that would have
\* moved the head.
LEMMA OpenPullRequestForeseen ==
  ASSUME IInv, Foreseen, NEW d \in Deliveries, OpenPullRequest(d)
  PROVE  Foreseen'
<1> DEFINE b == job[d].base
<1>1. /\ UNCHANGED <<main, branch, touched, imported>> /\ job[d].pc = "open"
      /\ Informed(job[d], main, branch, open, Excused)
  BY DEF OpenPullRequest, history, Foreseen
<1>2. CASE Answer(d, "created") /\ open' = open \cup {b}
  <2>1. Informed([job[d] EXCEPT !.pc = "rest", !.answer = "created", !.seen = <<>>],
                 main, branch', open', Excused')
    BY AnswerInformed DEF Answers, Bad
  <2>2. \A c \in Commits : AsMade(c)'
    BY <1>1 DEF Foreseen, AsMade, Excused, Tip
  <2> QED
    BY <1>1, <1>2, <2>1, <2>2, OwnStep DEF Answer
<1>3. CASE Goto(d, "again") /\ open' = open /\ ~Mergeable(b)
  <2>1. ASSUME ~job[d].moved, ~job[d].hit PROVE branch[b] # None /\ b \in open
    <3>1. branch[b] # None /\ b = Tip
      BY <1>1, <2>1 DEF Informed, Present, Holding, Tip
    <3>2. b \in Commits /\ Tip \in Nat
      BY <1>1, TipFacts, BoundsAssumption DEF IInv, JobsOK, JobGood, Holding
    <3>3. ~branch[b].merged
      BY <3>1, <3>2 DEF Foreseen, AsMade
    <3> QED
      BY <1>3, <3>1, <3>3 DEF Mergeable
  <2>2. Informed([job[d] EXCEPT !.pc = "again"], main, branch, open, Excused)
    BY <1>1, <2>1, GotoInformed DEF Holding
  <2> QED
    BY <1>1, <1>3, <2>2, OwnQuietStep DEF Goto
<1> QED
  BY <1>2, <1>3 DEF OpenPullRequest

LEMMA LoseForeseen ==
  ASSUME IInv, Foreseen, NEW d \in Deliveries, Lose(d)
  PROVE  Foreseen'
<1> DEFINE next == [job[d] EXCEPT !.pc = "rest", !.answer = "failed",
                                  !.hit = TRUE, !.seen = <<>>]
<1>1. job[d] \in Jobs /\ UNCHANGED <<main, touched>> /\ Become(d, next)
  BY DEF IInv, JobsOK, Lose
<1>2. next.hit
  BY <1>1 DEF Jobs
<1> HIDE DEF next
<1>3. \A br, op, ex : Informed(next, main, br, op, ex)
  BY <1>2 DEF Informed
<1>4. ASSUME branch' = branch, imported' = imported PROVE \A b \in Commits : AsMade(b)'
  BY <1>1, <1>4 DEF Foreseen, AsMade, Excused, Tip
<1>5. CASE UNCHANGED <<branch, open, imported>>
  BY <1>1, <1>3, <1>4, <1>5, OwnStep
<1>6. CASE job[d].pc = "create" /\ MakeBranch(d) /\ UNCHANGED open
  BY <1>1, <1>3, <1>6, MakeBranchAsMade, OwnStep
<1>7. CASE open' = open \cup {job[d].base} /\ UNCHANGED <<branch, imported>>
  BY <1>1, <1>3, <1>4, <1>7, OwnStep
<1> QED
  BY <1>5, <1>6, <1>7 DEF Lose

\* A delivery that rests relies on nothing but its excuse.
LEMMA RestInformed ==
  ASSUME NEW j, NEW m, NEW br, NEW op, NEW ex, NEW m2, NEW br2, NEW op2, NEW ex2,
         j.pc = "rest", Informed(j, m, br, op, ex), ex \subseteq ex2
  PROVE  Informed(j, m2, br2, op2, ex2)
BY DEF Informed, Holding, Present

\* When the default branch moves every delivery under way is disturbed.
LEMMA MovingForeseen ==
  ASSUME IInv, Foreseen, Moving, UNCHANGED <<touched, imported>>
  PROVE  \A d \in Deliveries : Informed(job'[d], main', branch', open', Excused')
<1> SUFFICES ASSUME NEW d \in Deliveries
             PROVE  Informed(job'[d], main', branch', open', Excused')
  OBVIOUS
<1>1. job[d] \in Jobs /\ Informed(job[d], main, branch, open, Excused) /\ Excused' = Excused
  BY DEF IInv, JobsOK, Foreseen, Excused
<1>2. CASE job[d].pc = "rest"
  <2>1. job'[d] = job[d]
    BY <1>2 DEF Moving
  <2> QED
    BY <1>1, <1>2, <2>1, RestInformed
<1>3. CASE job[d].pc # "rest"
  <2>1. job'[d].moved
    BY <1>1, <1>3 DEF Moving, Jobs
  <2> QED
    BY <2>1 DEF Informed
<1> QED
  BY <1>2, <1>3

\* What is done to a branch disturbs the deliveries that hold its commit.
LEMMA HittingForeseen ==
  ASSUME IInv, Foreseen, NEW b \in Commits, Hitting(b), main' = main,
         Excused \subseteq Excused', open \ {b} \subseteq open',
         \A c \in Commits \ {b} : branch[c] # None => branch'[c] # None
  PROVE  \A d \in Deliveries : Informed(job'[d], main', branch', open', Excused')
<1> SUFFICES ASSUME NEW d \in Deliveries
             PROVE  Informed(job'[d], main', branch', open', Excused')
  OBVIOUS
<1>1. job[d] \in Jobs /\ JobGood(job[d], main) /\ Informed(job[d], main, branch, open, Excused)
  BY DEF IInv, JobsOK, Foreseen
<1>2. CASE job[d].pc = "rest"
  <2>1. job'[d] = job[d]
    BY <1>2 DEF Hitting
  <2> QED
    BY <1>1, <1>2, <2>1, RestInformed
<1>3. CASE job[d].pc # "rest" /\ job[d].base = b
  <2>1. job'[d].hit
    BY <1>1, <1>3 DEF Hitting, Jobs
  <2> QED
    BY <2>1 DEF Informed
<1>4. CASE job[d].pc # "rest" /\ job[d].base # b
  <2>1. job'[d] = job[d]
    BY <1>4 DEF Hitting
  <2>2. job[d].pc \in Present => job[d].base \in Commits
    BY <1>1, TipFacts DEF IInv, JobGood, Present
  <2> QED
    BY <1>1, <1>4, <2>1, <2>2, StaysInformed
<1> QED
  BY <1>2, <1>3, <1>4

LEMMA PushForeseen ==
  ASSUME IInv, Foreseen, Push
  PROVE  Foreseen'
<1>1. /\ Moving /\ UNCHANGED <<branch, touched, imported>>
      /\ \E p \in Paths \cup {"retired"}, k \in Edits :
           main' = Append(main, [main[Tip] EXCEPT ![p] = k])
  BY DEF Push, history
<1>2. Tip \in Nat /\ Tip' = Tip + 1
  <2>1. main \in Seq(Contents)
    BY DEF IInv, MainOK
  <2>2. PICK c : main' = Append(main, c)
    BY <1>1
  <2> QED
    BY <2>1, <2>2 DEF Tip
<1>3. \A b \in Commits : AsMade(b)'
  BY <1>1, <1>2 DEF Foreseen, AsMade, Excused, Commits
<1> QED
  BY <1>1, <1>3, MovingForeseen DEF Foreseen

LEMMA MergeForeseen ==
  ASSUME IInv, Foreseen, NEW b \in Commits, Merge(b)
  PROVE  Foreseen'
<1> DEFINE new == [branch[b] EXCEPT !.merged = TRUE]
<1>1. /\ Moving /\ UNCHANGED <<touched, imported>> /\ branch' = [branch EXCEPT ![b] = new]
      /\ main' = Append(main, [p \in Paths \cup {"retired"} |-> MergeOf(b, p)])
  BY DEF Merge, history
<1>2. Tip \in Nat /\ Tip' = Tip + 1
  <2>1. main \in Seq(Contents)
    BY DEF IInv, MainOK
  <2> QED
    BY <1>1, <2>1 DEF Tip
<1>3. branch[b] \in Branches /\ branch[b] # None /\ b <= Tip
  BY DEF Merge, IInv, BranchesOK, BranchGood
<1>4. new.own = branch[b].own /\ new.files = branch[b].files
  BY <1>3 DEF Branches
<1> HIDE DEF new
<1>5. ASSUME NEW c \in Commits PROVE AsMade(c)'
  <2>1. AsMade(c) /\ Excused' = Excused
    BY <1>1 DEF Foreseen, Excused
  <2>2. CASE c = b
    <3>1. branch'[c] = new
      BY <1>1, <2>2 DEF IInv, BranchesOK
    <3>2. c < Tip'
      BY <1>2, <1>3, <2>2 DEF Commits
    <3> QED
      BY <1>3, <1>4, <2>1, <2>2, <3>1, <3>2 DEF AsMade
  <2>3. CASE c # b
    <3>1. branch'[c] = branch[c]
      BY <1>1, <2>3 DEF IInv, BranchesOK
    <3>2. c < Tip => c < Tip'
      BY <1>2 DEF Commits
    <3> QED
      BY <2>1, <3>1, <3>2 DEF AsMade
  <2> QED
    BY <2>2, <2>3
<1> QED
  BY <1>1, <1>5, MovingForeseen DEF Foreseen

LEMMA CloseForeseen ==
  ASSUME IInv, Foreseen, NEW b \in Commits, Close(b)
  PROVE  Foreseen'
<1>1. /\ UNCHANGED <<main, branch, touched, imported>> /\ open' = open \ {b} /\ Hitting(b)
  BY DEF Close, history
<1>2. Excused' = Excused /\ \A c \in Commits : AsMade(c)'
  BY <1>1 DEF Foreseen, AsMade, Excused, Tip
<1> QED
  BY <1>1, <1>2, HittingForeseen DEF Foreseen

LEMMA TouchForeseen ==
  ASSUME IInv, Foreseen, NEW b \in Commits, Touch(b)
  PROVE  Foreseen'
<1> DEFINE old == IF branch[b] = None THEN main[b] ELSE branch[b].files
           new == [files |-> [old EXCEPT !["config"] = "custom"],
                   own |-> FALSE, merged |-> FALSE, since |-> 0]
<1>1. /\ UNCHANGED <<main, open, imported>> /\ Hitting(b) /\ touched' = touched \cup {b}
      /\ branch' = [branch EXCEPT ![b] = new]
  BY DEF Touch
<1>2. ~new.merged
  OBVIOUS
<1> HIDE DEF new
<1>3. \A c \in Commits \ {b} : branch'[c] = branch[c]
  BY <1>1 DEF IInv, BranchesOK
<1>4. branch'[b] = new
  BY <1>1 DEF IInv, BranchesOK
<1>5. \A c \in Commits : AsMade(c)'
  BY <1>1, <1>2, <1>3, <1>4 DEF Foreseen, AsMade, Excused, Tip
<1>6. Excused \subseteq Excused'
  BY <1>1 DEF Excused
<1> QED
  BY <1>1, <1>3, <1>5, <1>6, HittingForeseen DEF Foreseen

LEMMA DeleteForeseen ==
  ASSUME IInv, Foreseen, NEW b \in Commits, Delete(b)
  PROVE  Foreseen'
<1>1. /\ UNCHANGED <<main, touched, imported>> /\ Hitting(b) /\ open' = open \ {b}
      /\ branch' = [branch EXCEPT ![b] = None]
  BY DEF Delete, history
<1>2. branch'[b] = None /\ \A c \in Commits \ {b} : branch'[c] = branch[c]
  BY <1>1 DEF IInv, BranchesOK
<1>3. Excused' = Excused /\ \A c \in Commits : AsMade(c)'
  BY <1>1, <1>2 DEF Foreseen, AsMade, Excused, Tip
<1> QED
  BY <1>1, <1>2, <1>3, HittingForeseen DEF Foreseen

LEMMA NextForeseen == IInv /\ Foreseen /\ [Next]_vars => Foreseen'
<1> SUFFICES ASSUME IInv, Foreseen, [Next]_vars PROVE Foreseen'
  OBVIOUS
<1>1. CASE UNCHANGED vars
  BY <1>1 DEF vars, history, Foreseen, AsMade, Excused, Tip
<1> QED
  BY <1>1, StartForeseen, ReadFileForeseen, ImportForeseen, ReadHeadForeseen,
     BranchExistsForeseen, CheckCommitForeseen, CreateBranchForeseen, LookupForeseen,
     OpenPullRequestForeseen, LoseForeseen, PushForeseen, MergeForeseen, CloseForeseen,
     TouchForeseen, DeleteForeseen DEF Next

\* A delivery that nobody disturbed ends well, or over a branch that somebody
\* else has written or whose configuration was imported, whatever others have
\* left half done and whatever becomes of the deliveries beside it: every
\* request of ensureSetupPullRequest finds what the one before it has left.
THEOREM QuietDelivery == Spec => []QuietDeliverySucceeds
<1>1. Init => IInv /\ Foreseen
  <2> SUFFICES ASSUME Init PROVE Foreseen
    BY InitOK
  <2>1. Informed(Rest, main, branch, open, Excused)
    BY NoneAssumption DEF Informed, Rest, Holding, Present, Bad, Answers
  <2> QED
    BY <2>1 DEF Init, Foreseen, AsMade
<1>2. IInv /\ Foreseen /\ [Next]_vars => IInv' /\ Foreseen'
  BY NextOK, NextForeseen
<1>3. Foreseen => QuietDeliverySucceeds
  BY DEF Foreseen, Informed, QuietDeliverySucceeds, Quiet, Bad, Excused
<1> QED
  BY <1>1, <1>2, <1>3, PTL DEF Spec
=============================================================================

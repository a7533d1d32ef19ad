--------------------------- MODULE HostedRunsProofs ---------------------------
(***************************************************************************)
(* Theorems about the workflow runs of one pull request: whatever is lost, *)
(* late or killed, for any number of runs, heads and lost writes.          *)
(***************************************************************************)
EXTENDS HostedRuns, FiniteSetTheorems, TLAPS

BootKinds == {"enrol", "rollover", "recover"}
Deeds == Kinds \cup {"enter", "failed", "post", "receipt"}
AtWrite == pc \in {"find", "write", "confirm"}

Writes ==
  [to : {"new", "archive", "comment"}, spot : Nat, from : Records, record : Records]

\* The records of the session comments, and those that may still become one.
Underway == {w \in flight : w.to # "archive"}
Written == {comments[i] : i \in 1 .. Len(comments)} \cup {w.record : w \in Underway}

\* The process that is alive wrote it.
Own(r) == live # 0 /\ r.run = live /\ r.att = tries[live]

-----------------------------------------------------------------------------
(* The parts of the inductive invariant                                    *)

Typed ==
  /\ comments \in Seq(Records) /\ flight \subseteq Writes
  /\ \A c \in carriers : c.ref \in Refs
  /\ head \in Heads /\ tries \in [Runs -> 0 .. 2]
  /\ task \in [Runs -> {"review", "pause", "continue"}] /\ aim \in [Runs -> Heads]
  /\ live \in 0 .. MaxRuns /\ spot \in 0 .. Len(comments)
  /\ pc \in {"load", "archive", "find", "write", "confirm", "idle", "stuck"}
  /\ kind \in Kinds /\ cand \in Records /\ root \in Records
  /\ did \subseteq Deeds
  /\ receipts \in [Runs -> Nat]

\* What a process has at each place.
Shaped ==
  /\ live = 0 => pc = "load" /\ did = {}
  /\ live # 0 => tries[live] \in {1, 2}
  /\ pc \in {"load", "archive"} => did = {}
  /\ pc = "archive" => tries[live] = 1 /\ kind = "rollover"
  /\ AtWrite => /\ cand = Change(kind, root) /\ cand.run = live /\ cand.att = tries[live]
                /\ kind \in BootKinds => did = {}
  /\ pc = "idle" \/ (AtWrite /\ kind \notin BootKinds) =>
       root.run = live /\ root.att = tries[live]

\* Every written record is of a process that has lived, and no two writes,
\* landed or not, have the same reference.
Distinct ==
  /\ \A r \in Written : r.run \in Runs /\ r.att \in 1 .. tries[r.run]
  /\ \A w \in Underway : \A i \in 1 .. Len(comments) : Ref(comments[i]) # Ref(w.record)
  /\ \A v, w \in Underway : Ref(v.record) = Ref(w.record) => v = w

\* A process has a write under way only after it has failed to confirm it.
Serial ==
  /\ \A w \in Underway : Own(w.record) =>
       pc \in {"confirm", "stuck"} /\ (pc = "confirm" => Ref(w.record) = Ref(cand))
  /\ \A i \in 1 .. Len(comments) : Own(comments[i]) =>
       /\ pc \notin {"load", "archive"}
       /\ pc \in {"find", "write"} => comments[i].gen < cand.gen
       /\ pc = "idle" => comments[i].gen <= root.gen

Started == {"started", "terminal"}

\* What a command has done, in its order.
Ordered ==
  /\ "receipt" \in did => "apply" \in did
  /\ "apply" \in did \/ (AtWrite /\ kind = "apply") => "begin" \in did
  /\ "begin" \in did =>
       root.action.phase \in Started /\ (AtWrite => cand.action.phase \in Started)
  /\ {"admit", "begin"} \cap did # {} \/ (AtWrite /\ kind \in {"admit", "begin"}) =>
       task[live] # "review"
  /\ \A r \in Runs : receipts[r] > 0 => tries[r] > 0 /\ task[r] # "review"

\* Once a command may have taken effect, a further attempt finds it started.
MayRunAgain(r) == tries[r] = 1 \/ (live = r /\ pc = "load")
MayHaveActed(r) == receipts[r] > 0 \/ (live = r /\ "begin" \in did)

Marked ==
  \A r \in Runs : MayRunAgain(r) /\ MayHaveActed(r) =>
    \A x \in Written : x.run = r => x.action.phase \in Started

\* The process of a command that has taken effect does not carry it out again.
Spent ==
  live # 0 /\ receipts[live] > 0 =>
    \/ pc = "stuck" \/ "receipt" \in did
    \/ /\ tries[live] = 2 /\ did = {}
       /\ pc # "load" => root.action.phase = "started"
       /\ AtWrite => kind = "recover"

\* The process of an attempt has ended, and it has left nothing to do.
Over(p) ==
  /\ p.run \in Runs /\ p.att \in 1 .. tries[p.run]
  /\ live = p.run => tries[live] # p.att
  /\ task[p.run] # "review" => receipts[p.run] > 0
  /\ <<p.run, p.att>> \in entered => aim[p.run] \in posted

\* What is known of a record wherever it is.
Sound(x) ==
  /\ WellFormed(x)
  /\ x.action.phase # "none" =>
       task[x.run] # "review" /\ x.tx.phase \in {"none", "published"}
  /\ x.action.phase = "terminal" => receipts[x.run] > 0
  /\ x.closed # "open" => /\ task[x.run] = "review"
                          /\ <<x.run, x.att>> \in entered => aim[x.run] \in posted
  /\ x.prev # NoRef => Over(x.prev) /\ \E c \in carriers : c.ref = x.prev

Working == pc = "idle" \/ (AtWrite /\ kind \notin BootKinds)

Kept ==
  /\ \A x \in Written : Sound(x)
  /\ \A w \in flight : WellFormed(w.record)
  /\ AtWrite => Sound(cand)
  /\ Working => Sound(root)
  /\ pc = "archive" => CanTakeOver(root) /\ WellFormed(root) /\ Over(Ref(root))

\* The head of the round of a review, until it is published.
Aimed(x) ==
  task[live] = "review" /\ x.tx.phase \in {"analysis", "pending"} => x.tx.head = aim[live]

CleanedUpRecord(x) == x.tx.phase = "none" /\ x.hold # "review"

Analysed(x) == x.hold = "review" => x.tx.phase = "analysis"

\* How what a process has done shows in its record.
Shown ==
  /\ "cleanup" \in did => CleanedUpRecord(root) /\ (AtWrite => CleanedUpRecord(cand))
  /\ {"reserve", "cleanup"} \cap did # {} \/ (AtWrite /\ kind \in {"reserve", "cleanup"}) =>
       task[live] = "review"
  /\ did = {} /\ pc = "idle" => root.closed = "open"
  /\ AtWrite /\ kind \in BootKinds => cand.closed = "open"
  /\ "admit" \in did =>
       root.action.phase # "none" /\ (AtWrite => cand.action.phase # "none")
  /\ (Working => Aimed(root)) /\ (AtWrite => Aimed(cand))
  /\ "enter" \in did => Analysed(root) /\ (AtWrite => Analysed(cand))
  /\ "publish" \in did \/ (AtWrite /\ kind = "publish") => "post" \in did
  /\ "post" \in did => aim[live] \in posted
  /\ "receipt" \in did => receipts[live] > 0

\* Who has asked the provider.
Asked ==
  /\ \A e \in entered : /\ e \in Runs \X {1, 2} /\ e[2] <= tries[e[1]]
                        /\ task[e[1]] = "review"
  /\ live # 0 /\ <<live, tries[live]>> \in entered => "enter" \in did

\* A process that has closed its run does not open it again.
StaysClosed ==
  \A x \in Written : Own(x) /\ x.closed # "open" =>
    pc \in {"confirm", "stuck"} \/ root.closed # "open"

IInv == Typed /\ Shaped /\ Distinct /\ Serial
Once == Ordered /\ Marked /\ Spent /\ EffectOnce
Left == Kept /\ Shown /\ Asked /\ StaysClosed

-----------------------------------------------------------------------------
(* The record operators                                                    *)

LEMMA OwnerTyped ==
  ASSUME NEW m \in Records, NEW n \in 0 .. MaxRuns
  PROVE  [m EXCEPT !.run = n, !.att = 1] \in Records
<1>1. PICK l \in Records : l = [m EXCEPT !.run = n]
  BY DEF Records
<1>2. [l EXCEPT !.att = 1] \in Records
  BY DEF Records
<1> QED
  BY <1>1, <1>2

\* A write of the record is a record.
LEMMA ChangeTyped ==
  ASSUME live \in Runs, aim \in [Runs -> Heads], NEW k \in Kinds, NEW r \in Records
  PROVE  Change(k, r) \in Records
<1> DEFINE s == [r EXCEPT !.gen = @ + 1]
<1>1. s \in Records
  BY DEF Records
<1>2. aim[live] \in 0 .. MaxHead /\ live \in 0 .. MaxRuns
  BY DEF Heads, Runs
<1>3. Missing \in Records
  BY HostedAssumption DEF Missing, Records, NoRef, Nothing, Refs, HostedAssumption
<1>4. Ref(r) \in Refs /\ Nothing \in [phase : {"none"}, head : 0 .. MaxHead]
  BY HostedAssumption DEF Records, Ref, Refs, Nothing, HostedAssumption
<1> HIDE DEF s
<1>5. CASE k \in {"enrol", "rollover", "recover"}
  <2>1. Enrolled \in Records
    BY <1>2, <1>3, OwnerTyped DEF Enrolled
  <2>2. RolledOver(r) \in Records
    <3>1. PICK m \in Records : m = [r EXCEPT !.run = live, !.att = 1]
      BY <1>2, OwnerTyped
    <3>2. RolledOver(r) =
            [m EXCEPT !.prev = Ref(r), !.action = Nothing, !.closed = "open"]
      BY <3>1 DEF RolledOver
    <3> QED
      BY <3>2, <1>4 DEF Records
  <2>3. [RolledOver(r) EXCEPT !.gen = @ + 1] \in Records
    BY <2>2 DEF Records
  <2>4. Recovered(s) \in Records
    BY <1>1 DEF Recovered, Records
  <2> QED
    BY <1>5, <2>1, <2>3, <2>4 DEF Change, s
<1>6. CASE k \in {"reserve", "attach", "retain", "publish"}
  BY <1>1, <1>2, <1>4, <1>6 DEF Change, s, Reserved, Attached, Retained, Published, Records
<1>7. CASE k \in {"finish", "cleanup", "close", "charge", "charged"}
  BY <1>1, <1>4, <1>7 DEF Change, s, Finished, CleanedUp, Closed, Charging, Charged, Records
<1>8. CASE k \in {"admit", "begin", "apply", "terminal"}
  BY <1>1, <1>2, <1>8 DEF Change, s, Admitted, Begun, Effected, Terminated, Records
<1> QED
  BY <1>5, <1>6, <1>7, <1>8 DEF Kinds

\* A process's own writes keep the owner and the predecessor and count on.
LEMMA ChangeKeeps ==
  ASSUME NEW k \in Kinds \ BootKinds, NEW r \in Records
  PROVE  /\ Change(k, r).run = r.run /\ Change(k, r).att = r.att
         /\ Change(k, r).prev = r.prev /\ Change(k, r).gen = r.gen + 1
<1>1. CASE k \in {"reserve", "attach", "retain", "publish"}
  BY <1>1 DEF Change, Reserved, Attached, Retained, Published, Records
<1>2. CASE k \in {"finish", "cleanup", "close", "charge", "charged"}
  BY <1>2 DEF Change, Finished, CleanedUp, Closed, Charging, Charged, Records
<1>3. CASE k \in {"admit", "begin", "apply", "terminal"}
  BY <1>3 DEF Change, Admitted, Begun, Effected, Terminated, Records
<1> QED
  BY <1>1, <1>2, <1>3 DEF Kinds, BootKinds

\* The first write of a process makes the record its own.
LEMMA ChangeBoots ==
  ASSUME NEW r \in Records
  PROVE  /\ Change("enrol", r).run = live /\ Change("enrol", r).att = 1
         /\ Change("rollover", r).run = live /\ Change("rollover", r).att = 1
         /\ Change("recover", r).run = r.run /\ Change("recover", r).att = 2
BY DEF Change, Enrolled, RolledOver, Recovered, Missing, Records

\* Only four writes move the phase of a command.
LEMMA ChangePhase ==
  ASSUME NEW k \in Kinds, NEW r \in Records
  PROVE  /\ k = "admit" => Change(k, r).action.phase = "pending"
         /\ k = "begin" => Change(k, r).action.phase = "started"
         /\ k = "terminal" => Change(k, r).action.phase = "terminal"
         /\ k \in {"enrol", "rollover"} => Change(k, r).action.phase = "none"
         /\ k \notin {"enrol", "rollover", "admit", "begin", "terminal"} =>
              Change(k, r).action = r.action
<1>1. CASE k \in {"enrol", "rollover", "recover"}
  BY <1>1 DEF Change, Enrolled, RolledOver, Recovered, Missing, Nothing, Records
<1>2. CASE k \in {"reserve", "attach", "retain", "publish"}
  BY <1>2 DEF Change, Reserved, Attached, Retained, Published, Records
<1>3. CASE k \in {"finish", "cleanup", "close", "charge", "charged"}
  BY <1>3 DEF Change, Finished, CleanedUp, Closed, Charging, Charged, Records
<1>4. CASE k \in {"admit", "begin", "apply", "terminal"}
  BY <1>4 DEF Change, Admitted, Begun, Effected, Terminated, Records
<1> QED
  BY <1>1, <1>2, <1>3, <1>4 DEF Kinds

\* Whoever reads a record of a run reads the only session comment there is.
LEMMA DiscoverOwned ==
  ASSUME comments \in Seq(Records), Discover.run \in Runs
  PROVE  Len(comments) = 1 /\ Found = 1 /\ Discover = comments[1]
BY DEF Discover, Found, Missing, Runs

LEMMA MissingTyped == Missing \in Records
BY HostedAssumption DEF Missing, Records, NoRef, Nothing, Refs, HostedAssumption

-----------------------------------------------------------------------------
(* What GitHub holds                                                       *)

\* GitHub applies a write: nothing else becomes a record.
LEMMA ApplyTyped ==
  ASSUME Typed, NEW w \in Writes, Applied(w)
  PROVE  /\ comments' \in Seq(Records) /\ Len(comments') >= Len(comments)
         /\ \A i \in 1 .. Len(comments') :
              comments'[i] = w.record \/ (i <= Len(comments) /\ comments'[i] = comments[i])
         /\ w.to = "archive" => comments' = comments
         /\ \A c \in carriers' : c.ref \in Refs
         /\ carriers \subseteq carriers'
<1>1. comments \in Seq(Records) /\ w.record \in Records
  BY DEF Typed, Writes
<1>2. Ref(w.record) \in Refs
  BY <1>1 DEF Ref, Refs, Records
<1>3. CASE w.to = "new" /\ comments' = Append(comments, w.record) /\ UNCHANGED carriers
  BY <1>1, <1>3 DEF Typed
<1>4. CASE w.to = "archive" /\ UNCHANGED comments /\ carriers \subseteq carriers'
             /\ \A c \in carriers' : c \in carriers \/ c.ref = Ref(w.record)
  BY <1>1, <1>2, <1>4 DEF Typed
<1>5. CASE w.to = "comment" /\ UNCHANGED carriers
             /\ comments' = [comments EXCEPT ![w.spot] = w.record]
  <2>1. comments \in [1 .. Len(comments) -> Records] /\ Len(comments) \in Nat
    BY <1>1
  <2>2. comments' \in [1 .. Len(comments) -> Records]
    BY <1>1, <1>5, <2>1
  <2>3. comments' \in Seq(Records) /\ Len(comments') = Len(comments)
    BY <2>1, <2>2
  <2>4. \A i \in 1 .. Len(comments) :
          comments'[i] = w.record \/ comments'[i] = comments[i]
    BY <1>5, <2>1
  <2> QED
    BY <1>5, <2>1, <2>3, <2>4 DEF Typed
<1>6. w.to = "archive" /\ UNCHANGED comments /\ carriers' =
        carriers \cup {[ref |-> Ref(w.record),
          copy |-> 1 + Cardinality({c \in carriers : c.ref = Ref(w.record)})]}
      => <1>4!1
  OBVIOUS
<1> QED
  BY <1>3, <1>4, <1>5, <1>6 DEF Applied

\* The request for an archive leaves the session comments alone.
LEMMA ArchiveRequest ==
  ASSUME Typed, NEW w \in Writes, w.to = "archive", Answered(w) \/ Unanswered(w)
  PROVE  /\ UNCHANGED <<comments, Underway>> /\ flight' \subseteq Writes
         /\ \A c \in carriers' : c.ref \in Refs
         /\ carriers \subseteq carriers'
<1>1. flight' \in {flight, flight \cup {w}}
  BY DEF Answered, Unanswered
<1>2. Underway' = Underway
  BY <1>1 DEF Underway
<1>3. CASE Applied(w)
  BY <1>1, <1>2, <1>3, ApplyTyped DEF Typed
<1>4. CASE UNCHANGED <<comments, carriers>>
  BY <1>1, <1>2, <1>4 DEF Typed
<1> QED
  BY <1>3, <1>4 DEF Answered, Unanswered

LEMMA ArchiveStep ==
  ASSUME Typed, Archive \/ ArchiveUncertain
  PROVE  /\ UNCHANGED <<comments, Underway>> /\ flight' \subseteq Writes
         /\ \A c \in carriers' : c.ref \in Refs
         /\ carriers \subseteq carriers'
<1>1. ArchivePost \in Writes /\ ArchivePost.to = "archive"
  BY DEF Typed, Writes, ArchivePost
<1>2. UNCHANGED github \/ Answered(ArchivePost) \/ Unanswered(ArchivePost)
  BY DEF Archive, ArchiveUncertain, ArchivePost
<1>3. CASE UNCHANGED github
  BY <1>3 DEF github, Underway, Typed
<1> QED
  BY <1>1, <1>2, <1>3, ArchiveRequest

\* A step lands a write, makes one, or leaves the session comments alone.
LEMMA GitHubStep ==
  ASSUME Typed, [Next]_vars
  PROVE  \/ Land \/ Write
         \/ UNCHANGED <<comments, Underway>> /\ flight' \subseteq Writes
            /\ (\A c \in carriers' : c.ref \in Refs) /\ carriers \subseteq carriers'
<1> DEFINE Quiet == UNCHANGED github
<1>1. Quiet => UNCHANGED <<comments, Underway>> /\ flight' \subseteq Writes
          /\ (\A c \in carriers' : c.ref \in Refs) /\ carriers \subseteq carriers'
  BY DEF github, Underway, Typed
<1>2. Push \/ End \/ Load \/ Find \/ Fail \/ Confirm \/ Enter \/ Post \/ Readmit \/ Receipt
        => Quiet
  BY DEF Push, End, Load, Find, Fail, Confirm, Enter, Post, Readmit, Receipt
<1>3. \A r, t : Rerun(r) \/ Start(r, t) => Quiet
  BY DEF Rerun, Start
<1>4. \A k : Prepare(k) => Quiet
  BY DEF Prepare
<1>5. UNCHANGED vars => Quiet
  BY DEF vars
<1> HIDE DEF Quiet
<1> QED
  BY <1>1, <1>2, <1>3, <1>4, <1>5, ArchiveStep DEF Next

\* The write that is made is of the record the process has prepared.
LEMMA Writing ==
  ASSUME Typed, Shaped, Write
  PROVE  \E w \in Writes :
           /\ w.to # "archive" /\ w.record = cand
           /\ \/ Applied(w) /\ flight' = flight
              \/ UNCHANGED <<comments, carriers>> /\ flight' = flight
              \/ UNCHANGED <<comments, carriers>> /\ flight' = flight \cup {w}
<1> DEFINE w == [to |-> Target, spot |-> spot, from |-> root, record |-> cand]
<1>1. w \in Writes /\ w.to # "archive" /\ w.record = cand
  BY DEF Writes, Target, Typed
<1>2. Answered(w) \/ Unanswered(w)
  BY DEF Write
<1>3. Answered(w) => Applied(w) /\ flight' = flight
  BY DEF Answered
<1>4. Unanswered(w) =>
        \/ Applied(w) /\ flight' = flight
        \/ UNCHANGED <<comments, carriers>> /\ flight' = flight
        \/ UNCHANGED <<comments, carriers>> /\ flight' = flight \cup {w}
  BY DEF Unanswered
<1> HIDE DEF w
<1> QED
  BY <1>1, <1>2, <1>3, <1>4

\* Only a write makes a new record.
LEMMA WrittenBefore ==
  ASSUME Typed, Shaped, [Next]_vars
  PROVE  Written' \subseteq Written \/ (Write /\ Written' \subseteq Written \cup {cand})
<1>1. CASE Land
  <2>1. PICK w \in flight : flight' = flight \ {w} /\ Applied(w)
    BY <1>1 DEF Land
  <2>2. w \in Writes
    BY DEF Typed
  <2>3. Underway' \subseteq Underway
    BY <2>1 DEF Underway
  <2>4. CASE w.to = "archive"
    BY <2>1, <2>2, <2>3, <2>4, ApplyTyped DEF Written
  <2>5. CASE w.to # "archive"
    <3>1. w \in Underway
      BY <2>5 DEF Underway
    <3> QED
      BY <2>1, <2>2, <2>3, <3>1, ApplyTyped DEF Written
  <2> QED
    BY <2>4, <2>5
<1>2. CASE Write
  <2>1. PICK w \in Writes :
           /\ w.to # "archive" /\ w.record = cand
           /\ \/ Applied(w) /\ flight' = flight
              \/ UNCHANGED <<comments, carriers>> /\ flight' = flight
              \/ UNCHANGED <<comments, carriers>> /\ flight' = flight \cup {w}
    BY <1>2, Writing
  <2>2. CASE Applied(w) /\ flight' = flight
    BY <1>2, <2>1, <2>2, ApplyTyped DEF Written, Underway
  <2>3. CASE UNCHANGED comments /\ flight' \subseteq flight \cup {w}
    BY <1>2, <2>1, <2>3 DEF Written, Underway
  <2> QED
    BY <2>1, <2>2, <2>3
<1>3. CASE UNCHANGED <<comments, Underway>>
  BY <1>3 DEF Written
<1> QED
  BY <1>1, <1>2, <1>3, GitHubStep

-----------------------------------------------------------------------------
(* Types                                                                   *)

\* Every step keeps the types of what GitHub holds.
LEMMA TypedGitHub ==
  ASSUME Typed, Shaped, [Next]_vars
  PROVE  /\ comments' \in Seq(Records) /\ Len(comments') >= Len(comments)
         /\ flight' \subseteq Writes /\ \A c \in carriers' : c.ref \in Refs
         /\ carriers \subseteq carriers'
<1>1. CASE Land
  <2>1. PICK w \in flight : flight' = flight \ {w} /\ Applied(w)
    BY <1>1 DEF Land
  <2>2. w \in Writes /\ flight' \subseteq Writes
    BY <2>1 DEF Typed
  <2> QED
    BY <2>1, <2>2, ApplyTyped
<1>2. CASE Write
  <2>1. PICK w \in Writes :
           /\ w.to # "archive" /\ w.record = cand
           /\ \/ Applied(w) /\ flight' = flight
              \/ UNCHANGED <<comments, carriers>> /\ flight' = flight
              \/ UNCHANGED <<comments, carriers>> /\ flight' = flight \cup {w}
    BY <1>2, Writing
  <2>2. CASE Applied(w) /\ flight' = flight
    BY <2>2, ApplyTyped DEF Typed
  <2>3. CASE UNCHANGED <<comments, carriers>> /\ flight' \subseteq flight \cup {w}
    BY <2>3 DEF Typed
  <2> QED
    BY <2>1, <2>2, <2>3
<1>3. CASE UNCHANGED <<comments, Underway>> /\ flight' \subseteq Writes
            /\ (\A c \in carriers' : c.ref \in Refs) /\ carriers \subseteq carriers'
  BY <1>3 DEF Typed
<1> QED
  BY <1>1, <1>2, <1>3, GitHubStep

\* What a process loads is a record.
LEMMA LoadTyped ==
  ASSUME Typed, Load
  PROVE  /\ live \in Runs /\ root' \in Records /\ cand' \in Records
         /\ \/ /\ kind' = "enrol" /\ pc' = "write" /\ tries[live] = 1
               /\ cand' = Change("enrol", root')
            \/ /\ kind' = "rollover" /\ pc' = "archive" /\ tries[live] = 1
               /\ CanTakeOver(root') /\ Ceased(root') /\ root' = Discover
            \/ /\ kind' = "recover" /\ pc' = "find" /\ tries[live] = 2
               /\ CanRecover(root') /\ root' = Discover /\ cand' = Change("recover", root')
         /\ Discover.run \in Runs => root' = comments[1] /\ Len(comments) = 1
<1>1. live \in Runs /\ aim \in [Runs -> Heads] /\ comments \in Seq(Records)
  BY DEF Load, Typed, Runs
<1>2. Discover.run \in Runs => root' = comments[1] /\ Len(comments) = 1
  BY <1>1, DiscoverOwned DEF Load
<1>3. CASE Enrols /\ kind' = "enrol" /\ cand' = Change("enrol", Missing) /\ pc' = "write"
  <2>1. root' = Missing /\ Missing \in Records
    BY <1>3, MissingTyped DEF Load, Enrols
  <2>2. cand' \in Records
    BY <1>1, <1>3, <2>1, ChangeTyped DEF Kinds
  <2> QED
    BY <1>1, <1>2, <1>3, <2>1, <2>2 DEF Enrols
<1>4. CASE TakesOver /\ kind' = "rollover" /\ pc' = "archive" /\ UNCHANGED cand
  BY <1>1, <1>2, <1>4 DEF Load, TakesOver, CanTakeOver, Typed
<1>5. CASE Recovers /\ kind' = "recover" /\ cand' = Change("recover", Discover) /\ pc' = "find"
  <2>1. Discover \in Records
    BY <1>1, <1>2, <1>5 DEF Load, Recovers, CanRecover
  <2>2. cand' \in Records
    BY <1>1, <1>5, <2>1, ChangeTyped DEF Kinds
  <2> QED
    BY <1>1, <1>2, <1>5, <2>1, <2>2 DEF Load, Recovers
<1> QED
  BY <1>3, <1>4, <1>5 DEF Load

LEMMA InitTyped == Init => Typed
<1> SUFFICES ASSUME Init PROVE Typed
  OBVIOUS
<1>1. Missing \in Records
  BY MissingTyped
<1>2. 1 \in Heads /\ 0 \in 0 .. MaxRuns
  BY HostedAssumption DEF HostedAssumption, Heads
<1> QED
  BY <1>1, <1>2 DEF Init, Typed, Kinds

LEMMA TypedNext == Typed /\ Shaped /\ [Next]_vars => Typed'
<1> SUFFICES ASSUME Typed, Shaped, [Next]_vars PROVE Typed'
  OBVIOUS
<1>1. /\ comments' \in Seq(Records) /\ Len(comments') >= Len(comments)
      /\ flight' \subseteq Writes /\ \A c \in carriers' : c.ref \in Refs
  BY TypedGitHub
<1>2. Len(comments) \in Nat /\ Len(comments') \in Nat
  BY <1>1 DEF Typed
<1>3. spot \in 0 .. Len(comments')
  BY <1>1, <1>2 DEF Typed
<1>m. Missing \in Records /\ "enrol" \in Kinds
  BY MissingTyped DEF Kinds
<1>4. CASE Push \/ Land \/ (\E r \in Runs : Rerun(r) \/ \E t \in Tasks : Start(r, t))
  <2>1. CASE Push
    BY <1>1, <1>3, <2>1, HostedAssumption
    DEF Push, Typed, runs, process, ghosts, Heads, HostedAssumption
  <2>2. CASE Land
    BY <1>1, <1>3, <2>2 DEF Land, Typed, runs, process, ghosts
  <2>3. ASSUME NEW r \in Runs, Rerun(r) PROVE Typed'
    BY <1>1, <1>3, <2>3 DEF Rerun, Begins, Typed, ghosts, Heads, Runs
  <2>4. ASSUME NEW r \in Runs, NEW t \in Tasks, Start(r, t) PROVE Typed'
    BY <1>1, <1>3, <2>4, HostedAssumption
    DEF Start, Begins, Typed, ghosts, Heads, Runs, HostedAssumption
  <2> QED
    BY <1>4, <2>1, <2>2, <2>3, <2>4
<1>5. CASE Load
  BY <1>1, <1>3, <1>5, LoadTyped DEF Load, Typed, runs, ghosts, Kinds
<1>6. CASE Archive \/ ArchiveUncertain
  <2>1. live \in Runs /\ Change("rollover", root) \in Records
    BY <1>6, ChangeTyped DEF Archive, ArchiveUncertain, Typed, Runs, Kinds
  <2> QED
    BY <1>1, <1>3, <1>6, <2>1 DEF Archive, ArchiveUncertain, Typed, runs, ghosts
<1>7. ASSUME NEW k \in Kinds, Prepare(k) PROVE Typed'
  <2>1. live \in Runs /\ Change(k, root) \in Records
    BY <1>7, ChangeTyped DEF Prepare, Typed, Runs
  <2> QED
    BY <1>1, <1>3, <1>7, <2>1 DEF Prepare, Typed, runs, ghosts
<1>8. CASE Find
  <2>1. spot' \in 0 .. Len(comments')
    BY <1>1, <1>2, <1>8 DEF Find, Found
  <2> QED
    BY <1>1, <1>8, <2>1 DEF Find, Typed, runs, ghosts
<1>9. CASE Fail
  BY <1>1, <1>2, <1>9, <1>m DEF Fail, Rests, Typed, runs, ghosts, Deeds
<1>10. CASE Write
  BY <1>1, <1>3, <1>10 DEF Write, Typed, runs, ghosts
<1>11. CASE Confirm
  <2>1. pc' \in {"idle", "stuck"} /\ kind' \in Kinds /\ cand' \in Records
        /\ spot' \in 0 .. Len(comments')
    BY <1>2, <1>11, <1>m DEF Confirm, Rests
  <2>2. root' \in Records /\ did' \subseteq Deeds
    BY <1>11 DEF Confirm, Typed, Deeds
  <2> QED
    BY <1>1, <1>11, <2>1, <2>2 DEF Confirm, Typed, runs, ghosts
<1>12. CASE Enter \/ Readmit
  BY <1>1, <1>3, <1>12 DEF Enter, Readmit, Typed, runs, ghosts, Deeds, Kinds
<1>13. CASE Post
  BY <1>1, <1>3, <1>13 DEF Post, Typed, runs, Deeds
<1>14. CASE Receipt
  <2>1. live \in Runs
    BY <1>14 DEF Receipt, Typed, Runs
  <2> QED
    BY <1>1, <1>3, <1>14, <2>1 DEF Receipt, Typed, runs, Deeds
<1>15. CASE End
  BY <1>1, <1>2, <1>15, <1>m, HostedAssumption
  DEF End, Typed, runs, ghosts, Runs, HostedAssumption
<1>16. CASE UNCHANGED vars
  BY <1>16 DEF vars, github, runs, process, ghosts, Typed
<1> QED
  BY <1>4, <1>5, <1>6, <1>7, <1>8, <1>9, <1>10, <1>11, <1>12, <1>13, <1>14, <1>15, <1>16
  DEF Next

-----------------------------------------------------------------------------
(* The process                                                             *)

LEMMA ChangeStable ==
  ASSUME UNCHANGED <<live, aim, task>>
  PROVE  Change(kind, root)' = Change(kind', root')
BY DEF Change, Enrolled, RolledOver, Recovered, Reserved, Attached, Retained, Published,
       Finished, CleanedUp, Closed, Charging, Charged, Admitted, Begun, Effected, Terminated

\* The owner of the record a process writes first.
LEMMA BootOwner ==
  ASSUME live \in Runs, NEW r \in Records, NEW k \in BootKinds,
         k = "recover" => r.run = live /\ tries[live] = 2,
         k # "recover" => tries[live] = 1
  PROVE  Change(k, r).run = live /\ Change(k, r).att = tries[live]
BY ChangeBoots DEF BootKinds

LEMMA InitShaped == Init => Shaped
BY DEF Init, Shaped, AtWrite

LEMMA ShapedNext == Typed /\ Shaped /\ [Next]_vars => Shaped'
<1> SUFFICES ASSUME Typed, Shaped, [Next]_vars PROVE Shaped'
  OBVIOUS
<1>1. CASE UNCHANGED <<live, tries, aim, task, pc, kind, root, cand>>
             /\ (did' = did \/ pc = "idle")
  <2>1. Change(kind, root)' = Change(kind, root)
    BY <1>1, ChangeStable
  <2> QED
    BY <1>1, <2>1 DEF Shaped, AtWrite
<1>2. Push \/ Land \/ Enter \/ Readmit \/ UNCHANGED vars
        => UNCHANGED <<live, tries, aim, task, pc, kind, root, cand>>
             /\ (did' = did \/ pc = "idle")
  BY DEF Push, Land, Enter, Readmit, vars, github, runs, process, ghosts
<1>3. CASE Post \/ Receipt
  BY <1>3 DEF Post, Receipt, runs, Shaped, AtWrite
<1>4. CASE End
  BY <1>4 DEF End, Shaped, AtWrite, Runs
<1>5. ASSUME NEW r \in Runs, Rerun(r) PROVE Shaped'
  BY <1>5 DEF Rerun, Begins, Shaped, AtWrite, Typed, Runs
<1>6. ASSUME NEW r \in Runs, NEW t \in Tasks, Start(r, t) PROVE Shaped'
  BY <1>6 DEF Start, Begins, Shaped, AtWrite, Typed, Runs
<1>7. CASE Load
  <2>1. Change(kind, root)' = Change(kind', root') /\ UNCHANGED <<live, tries, did>>
    BY <1>7, ChangeStable DEF Load, runs
  <2>2. did = {} /\ tries[live] \in {1, 2} /\ live \in Runs /\ live # 0
    BY <1>7, LoadTyped DEF Load, Shaped
  <2>3. kind' \in BootKinds
    BY <1>7, LoadTyped DEF BootKinds
  <2>4. pc' = "archive" \/ (pc' \in {"write", "find"} /\ cand' = Change(kind', root')
          /\ Change(kind', root').run = live /\ Change(kind', root').att = tries[live])
    BY <1>7, <2>2, <2>3, LoadTyped, BootOwner DEF CanRecover
  <2>5. pc' = "archive" => tries[live] = 1 /\ kind' = "rollover"
    BY <1>7, LoadTyped
  <2> QED
    BY <2>1, <2>2, <2>3, <2>4, <2>5 DEF Shaped, AtWrite
<1>8. CASE Archive
  <2>1. live \in Runs /\ tries[live] = 1 /\ did = {}
    BY <1>8 DEF Archive, Shaped, Typed, Runs
  <2>2. kind = "rollover"
    BY <1>8 DEF Archive, Shaped
  <2>3. cand' = Change("rollover", root) /\ pc' = "find"
        /\ UNCHANGED <<live, tries, kind, root, did>>
    BY <1>8 DEF Archive, runs
  <2>4. Change(kind, root)' = Change("rollover", root)
    BY <1>8, <2>2, <2>3, ChangeStable DEF Archive, runs
  <2>5. cand'.run = live /\ cand'.att = 1
    BY <2>1, <2>3, ChangeBoots DEF Typed
  <2> QED
    BY <2>1, <2>2, <2>3, <2>4, <2>5 DEF Shaped, AtWrite, BootKinds, Runs
<1>9. CASE ArchiveUncertain
  BY <1>9 DEF ArchiveUncertain, runs, Shaped, AtWrite
<1>10. ASSUME NEW k \in Kinds, Prepare(k) PROVE Shaped'
  <2>1. Change(kind, root)' = Change(k, root) /\ UNCHANGED <<live, tries, did, root>>
        /\ cand' = Change(k, root) /\ kind' = k /\ pc' = "find" /\ live # 0
    BY <1>10, ChangeStable DEF Prepare, runs
  <2>2. k \in Kinds \ BootKinds /\ root \in Records
    BY <1>10 DEF Prepare, May, BootKinds, Typed
  <2>3. root.run = live /\ root.att = tries[live]
    BY <1>10 DEF Prepare, Shaped
  <2> QED
    BY <2>1, <2>2, <2>3, ChangeKeeps DEF Shaped, AtWrite
<1>11. CASE Find \/ (Write /\ pc' = "confirm")
  <2>1. Change(kind, root)' = Change(kind, root)
        /\ UNCHANGED <<live, tries, did, root, kind, cand>> /\ AtWrite /\ AtWrite'
        /\ pc' \in {"write", "confirm"} /\ live # 0
    BY <1>11, ChangeStable DEF Find, Write, runs, AtWrite
  <2> QED
    BY <2>1 DEF Shaped, AtWrite
<1>12. CASE Write /\ pc' = "stuck"
  BY <1>12 DEF Write, runs, Shaped, AtWrite
<1>13. CASE Fail
  BY <1>13 DEF Fail, Rests, Holds, runs, Shaped, AtWrite
<1>14. CASE Confirm
  <2>1. CASE Discover = cand
    BY <1>14, <2>1 DEF Confirm, Rests, runs, Shaped, AtWrite
  <2>2. CASE Discover # cand
    BY <1>14, <2>2 DEF Confirm, Rests, runs, Shaped, AtWrite
  <2> QED
    BY <2>1, <2>2
<1>15. Write => pc' \in {"confirm", "stuck"}
  BY DEF Write
<1> QED
  BY <1>1, <1>2, <1>3, <1>4, <1>5, <1>6, <1>7, <1>8, <1>9, <1>10, <1>11, <1>12, <1>13,
     <1>14, <1>15
  DEF Next

-----------------------------------------------------------------------------
(* References                                                              *)

LEMMA TriesGrow ==
  ASSUME Typed, [Next]_vars
  PROVE  \A r \in Runs : tries[r] <= tries'[r]
<1> DEFINE Goal == \A r \in Runs : tries[r] <= tries'[r]
<1>1. UNCHANGED tries => Goal
  BY DEF Typed
<1>2. ASSUME NEW r \in Runs, Rerun(r) \/ (\E t \in Tasks : Start(r, t)) PROVE Goal
  <2>1. tries \in [Runs -> 0 .. 2] /\ tries' = [tries EXCEPT ![r] = tries[r] + 1]
    BY <1>2 DEF Rerun, Start, Typed
  <2> QED
    BY <2>1
<1> HIDE DEF Goal
<1>3. Push \/ Land \/ End \/ Load \/ Archive \/ ArchiveUncertain \/ Find \/ Fail \/ Write
        \/ Confirm \/ Enter \/ Post \/ Readmit \/ Receipt \/ (\E k \in Kinds : Prepare(k))
        \/ UNCHANGED vars
      => UNCHANGED tries
  BY DEF Push, Land, End, Load, Archive, ArchiveUncertain, Find, Fail, Write, Confirm,
         Enter, Post, Readmit, Receipt, Prepare, vars, runs
<1>4. Goal
  BY <1>1, <1>2, <1>3 DEF Next
<1> QED
  BY <1>4 DEF Goal

LEMMA TriesTyped ==
  ASSUME Typed, [Next]_vars, Shaped
  PROVE  \A r \in Runs : tries[r] \in Nat /\ tries'[r] \in Nat /\ tries[r] <= tries'[r]
<1>1. tries \in [Runs -> 0 .. 2] /\ tries' \in [Runs -> 0 .. 2]
  BY TypedNext DEF Typed
<1> QED
  BY <1>1, TriesGrow

LEMMA CommentTyped ==
  ASSUME Typed
  PROVE  \A i \in 1 .. Len(comments) : comments[i] \in Records /\ comments[i].gen \in Nat
<1>1. \A i \in 1 .. Len(comments) : comments[i] \in Records
  BY DEF Typed
<1> QED
  BY <1>1 DEF Records

\* While a process is about to write, none of its writes is under way and none
\* that landed has the reference of the new one.
LEMMA FreshReference ==
  ASSUME Typed, Shaped, Distinct, Serial, live # 0, pc = "write"
  PROVE  /\ \A i \in 1 .. Len(comments) : Ref(comments[i]) # Ref(cand)
         /\ \A w \in Underway : Ref(w.record) # Ref(cand)
<1>1. cand.run = live /\ cand.att = tries[live] /\ cand.gen \in Nat
  BY DEF Shaped, AtWrite, Typed, Records
<1>2. ASSUME NEW i \in 1 .. Len(comments), Ref(comments[i]) = Ref(cand) PROVE FALSE
  <2>1. Own(comments[i]) /\ comments[i].gen = cand.gen
    BY <1>1, <1>2 DEF Own, Ref
  <2> QED
    BY <1>1, <2>1 DEF Serial
<1>3. ASSUME NEW w \in Underway, Ref(w.record) = Ref(cand) PROVE FALSE
  <2>1. Own(w.record)
    BY <1>1, <1>3 DEF Own, Ref
  <2> QED
    BY <2>1 DEF Serial
<1> QED
  BY <1>2, <1>3

LEMMA InitDistinct == Init => Distinct /\ Serial
BY DEF Init, Distinct, Serial, Written, Underway

LEMMA DistinctNext ==
  Typed /\ Shaped /\ Distinct /\ Serial /\ [Next]_vars => Distinct'
<1> SUFFICES ASSUME Typed, Shaped, Distinct, Serial, [Next]_vars PROVE Distinct'
  OBVIOUS
<1>1. ASSUME NEW r \in Written' PROVE r.run \in Runs /\ r.att \in 1 .. tries'[r.run]
  <2>1. r \in Written \/ (Write /\ r = cand)
    BY <1>1, WrittenBefore
  <2>2. CASE r \in Written
    <3>1. r.run \in Runs /\ r.att \in 1 .. tries[r.run]
      BY <2>2 DEF Distinct
    <3>2. tries[r.run] \in Nat /\ tries'[r.run] \in Nat /\ tries[r.run] <= tries'[r.run]
      BY <3>1, TriesTyped
    <3> QED
      BY <3>1, <3>2
  <2>3. CASE Write /\ r = cand
    BY <2>3 DEF Write, Shaped, AtWrite, Typed, Runs, runs
  <2> QED
    BY <2>1, <2>2, <2>3
<1>2. /\ \A w \in Underway' : \A i \in 1 .. Len(comments') :
           Ref(comments'[i]) # Ref(w.record)
      /\ \A v, w \in Underway' : Ref(v.record) = Ref(w.record) => v = w
  <2>1. CASE Land
    <3>1. PICK l \in flight : flight' = flight \ {l} /\ Applied(l)
      BY <2>1 DEF Land
    <3>2. l \in Writes /\ Underway' = Underway \ {l}
      BY <3>1 DEF Underway, Typed
    <3>3. CASE l.to = "archive"
      BY <3>1, <3>2, <3>3, ApplyTyped DEF Distinct
    <3>4. CASE l.to # "archive"
      <4>1. l \in Underway
        BY <3>4 DEF Underway
      <4> QED
        BY <3>1, <3>2, <4>1, ApplyTyped DEF Distinct
    <3> QED
      BY <3>3, <3>4
  <2>2. CASE Write
    <3>1. PICK w \in Writes :
             /\ w.to # "archive" /\ w.record = cand
             /\ \/ Applied(w) /\ flight' = flight
                \/ UNCHANGED <<comments, carriers>> /\ flight' = flight
                \/ UNCHANGED <<comments, carriers>> /\ flight' = flight \cup {w}
      BY <2>2, Writing
    <3>2. /\ \A i \in 1 .. Len(comments) : Ref(comments[i]) # Ref(cand)
          /\ \A v \in Underway : Ref(v.record) # Ref(cand)
      BY <2>2, FreshReference DEF Write
    <3>3. CASE Applied(w) /\ flight' = flight
      <4>1. Underway' = Underway
        BY <3>3 DEF Underway
      <4> QED
        BY <3>1, <3>2, <3>3, <4>1, ApplyTyped DEF Distinct
    <3>4. CASE UNCHANGED <<comments, carriers>> /\ flight' \subseteq flight \cup {w}
      <4>1. Underway' \subseteq Underway \cup {w}
        BY <3>4 DEF Underway
      <4> QED
        BY <3>1, <3>2, <3>4, <4>1 DEF Distinct
    <3> QED
      BY <3>1, <3>3, <3>4
  <2>3. CASE UNCHANGED <<comments, Underway>>
    BY <2>3 DEF Distinct
  <2> QED
    BY <2>1, <2>2, <2>3, GitHubStep
<1> QED
  BY <1>1, <1>2 DEF Distinct

\* A confirmed write is the session comment, and no write of its process is
\* under way.
LEMMA Confirmed ==
  ASSUME Typed, Shaped, Distinct, Serial, live # 0, pc = "confirm", Discover = cand
  PROVE  /\ Len(comments) = 1 /\ Found = 1 /\ comments[1] = cand
         /\ \A w \in Underway : ~Own(w.record)
<1>1. live \in Runs /\ cand.run = live
  BY DEF Typed, Runs, Shaped, AtWrite
<1>2. Len(comments) = 1 /\ Found = 1 /\ comments[1] = cand
  BY <1>1, DiscoverOwned DEF Typed
<1>3. ASSUME NEW w \in Underway, Own(w.record) PROVE FALSE
  <2>1. Ref(w.record) = Ref(cand)
    BY <1>3 DEF Serial
  <2> QED
    BY <1>2, <2>1 DEF Distinct
<1> QED
  BY <1>2, <1>3

LEMMA SerialNext ==
  Typed /\ Shaped /\ Distinct /\ Serial /\ [Next]_vars => Serial'
<1> SUFFICES ASSUME Typed, Shaped, Distinct, Serial, [Next]_vars PROVE Serial'
  OBVIOUS
<1>1. CASE UNCHANGED <<comments, Underway, live, tries, pc, cand, root>>
  BY <1>1 DEF Serial, Own
<1>2. Push \/ Enter \/ Readmit \/ UNCHANGED vars
        => UNCHANGED <<comments, Underway, live, tries, pc, cand, root>>
  BY DEF Push, Enter, Readmit, vars, github, runs, process, ghosts, Underway
<1>3. CASE (Post \/ Receipt) /\ pc' = "stuck"
  BY <1>3 DEF Post, Receipt, github, runs, Underway, Serial, Own
<1>4. (Post \/ Receipt) /\ pc' # "stuck"
        => UNCHANGED <<comments, Underway, live, tries, pc, cand, root>>
  BY DEF Post, Receipt, github, runs, Underway
<1>5. CASE Land
  <2>1. PICK l \in flight : flight' = flight \ {l} /\ Applied(l)
    BY <1>5 DEF Land
  <2>2. l \in Writes /\ Underway' \subseteq Underway
        /\ (l.to = "archive" \/ l \in Underway)
    BY <2>1 DEF Underway, Typed
  <2>3. UNCHANGED <<live, tries, pc, cand, root>>
    BY <1>5 DEF Land, runs, process
  <2>4. \A w \in Underway' : Own(w.record)' =>
          pc' \in {"confirm", "stuck"} /\ (pc' = "confirm" => Ref(w.record) = Ref(cand'))
    BY <2>2, <2>3 DEF Serial, Own
  <2>5. ASSUME NEW i \in 1 .. Len(comments'), Own(comments[i])',
               comments'[i] # comments[i] \/ i > Len(comments)
        PROVE  pc \in {"confirm", "stuck"}
    <3>1. comments'[i] = l.record /\ l \in Underway
      BY <2>1, <2>2, <2>5, ApplyTyped
    <3>2. Own(l.record)
      BY <2>3, <2>5, <3>1 DEF Own
    <3> QED
      BY <3>1, <3>2 DEF Serial
  <2>6. Len(comments) \in Nat /\ Len(comments') \in Nat
    BY TypedNext DEF Typed
  <2>7. ASSUME NEW i \in 1 .. Len(comments'), Own(comments[i])'
        PROVE  /\ pc' \notin {"load", "archive"}
               /\ pc' \in {"find", "write"} => comments'[i].gen < cand'.gen
               /\ pc' = "idle" => comments'[i].gen <= root'.gen
    <3>1. CASE pc \in {"confirm", "stuck"}
      BY <2>3, <3>1
    <3>2. CASE pc \notin {"confirm", "stuck"}
      <4>1. comments'[i] = comments[i] /\ i \in 1 .. Len(comments)
        BY <2>5, <2>6, <2>7, <3>2
      <4>2. Own(comments[i])
        BY <2>3, <2>7, <4>1 DEF Own
      <4> QED
        BY <2>3, <4>1, <4>2 DEF Serial
    <3> QED
      BY <3>1, <3>2
  <2> QED
    BY <2>4, <2>7 DEF Serial
<1>6. CASE End
  BY <1>6 DEF End, Serial, Own
<1>7. ASSUME NEW r \in Runs,
             Rerun(r) \/ \E t \in Tasks : Start(r, t)
      PROVE  Serial'
  <2>1. UNCHANGED <<comments, Underway>> /\ live' = r /\ pc' = "load"
        /\ tries' = [tries EXCEPT ![r] = tries[r] + 1] /\ tries[r] \in Nat
    BY <1>7 DEF Rerun, Start, Begins, github, Underway, Typed
  <2>2. \A x \in Written : ~Own(x)'
    BY <2>1 DEF Distinct, Own, Typed
  <2> QED
    BY <2>1, <2>2 DEF Serial, Written
<1>8. CASE Load \/ Archive
  <2>1. UNCHANGED <<comments, Underway, live, tries>> /\ pc \in {"load", "archive"}
        /\ pc' \in {"archive", "find", "write"}
    BY <1>8, ArchiveStep, LoadTyped DEF Load, Archive, github, runs, Underway
  <2>2. \A x \in Written : ~Own(x)'
    BY <2>1 DEF Serial, Own, Written
  <2> QED
    BY <2>1, <2>2 DEF Serial, Written
<1>9. CASE ArchiveUncertain
  BY <1>9, ArchiveStep DEF ArchiveUncertain, runs, Serial, Own
<1>10. ASSUME NEW k \in Kinds, Prepare(k) PROVE Serial'
  <2>1. UNCHANGED <<comments, Underway, live, tries>> /\ pc = "idle" /\ pc' = "find"
        /\ cand' = Change(k, root)
    BY <1>10 DEF Prepare, github, runs, Underway
  <2>2. k \in Kinds \ BootKinds /\ root \in Records
    BY <1>10 DEF Prepare, May, BootKinds, Typed
  <2>3. cand'.gen = root.gen + 1 /\ root.gen \in Nat
    BY <2>1, <2>2, ChangeKeeps DEF Records
  <2>4. \A i \in 1 .. Len(comments) : comments[i].gen \in Nat
    BY CommentTyped
  <2> QED
    BY <2>1, <2>3, <2>4 DEF Serial, Own
<1>11. CASE Find
  BY <1>11 DEF Find, github, runs, Underway, Serial, Own
<1>12. CASE Fail
  <2>1. UNCHANGED <<comments, Underway, live, tries, root>> /\ pc \in {"idle", "find"}
        /\ pc' = "idle"
    BY <1>12 DEF Fail, Rests, github, runs, Underway
  <2>2. pc = "find" => kind \in Kinds \ BootKinds /\ cand = Change(kind, root)
    BY <1>12 DEF Fail, Holds, Shaped, AtWrite, Typed
  <2>3. root \in Records /\ root.gen \in Nat
        /\ \A i \in 1 .. Len(comments) : comments[i].gen \in Nat
    BY CommentTyped DEF Typed, Records
  <2>4. pc = "find" => cand.gen = root.gen + 1
    BY <2>2, <2>3, ChangeKeeps
  <2> QED
    BY <2>1, <2>3, <2>4 DEF Serial, Own
<1>13. CASE Write
  <2>1. UNCHANGED <<live, tries, cand, root>> /\ pc = "write" /\ pc' \in {"confirm", "stuck"}
        /\ live # 0
    BY <1>13 DEF Write, runs
  <2>2. \A x \in Underway' : x \in Underway \/ x.record = cand
    BY <1>13, Writing DEF Underway
  <2> QED
    BY <2>1, <2>2 DEF Serial, Own
<1>14. CASE Confirm
  <2>1. UNCHANGED <<comments, Underway, live, tries>> /\ pc = "confirm" /\ live # 0
    BY <1>14 DEF Confirm, github, runs, Underway
  <2>2. CASE Discover = cand
    <3>1. root' = cand /\ pc' = "idle"
      BY <1>14, <2>2 DEF Confirm, Rests
    <3>2. comments[1].gen <= cand.gen
      BY <2>1, <2>2, Confirmed DEF Typed, Records
    <3> QED
      BY <2>1, <2>2, <3>1, <3>2, Confirmed DEF Serial, Own
  <2>3. CASE Discover # cand
    BY <1>14, <2>1, <2>3 DEF Confirm, Rests, Serial, Own
  <2> QED
    BY <2>2, <2>3
<1> QED
  BY <1>1, <1>2, <1>3, <1>4, <1>5, <1>6, <1>7, <1>8, <1>9, <1>10, <1>11, <1>12, <1>13, <1>14
  DEF Next

-----------------------------------------------------------------------------
(* One effect of a command                                                 *)

LEMMA InitOnce == Init => Once
BY DEF Init, Once, Ordered, Marked, MayHaveActed, Spent, EffectOnce, Written, Underway, Runs

LEMMA OrderedNext == Typed /\ Shaped /\ Ordered /\ [Next]_vars => Ordered'
<1> SUFFICES ASSUME Typed, Shaped, Ordered, [Next]_vars PROVE Ordered'
  OBVIOUS
<1>1. CASE UNCHANGED <<live, tries, task, did, root, kind, cand, receipts>>
             /\ (AtWrite' => AtWrite)
  BY <1>1 DEF Ordered
<1>2. Push \/ Land \/ Find \/ Write \/ UNCHANGED vars
        => UNCHANGED <<live, tries, task, did, root, kind, cand, receipts>>
             /\ (AtWrite' => AtWrite)
  BY DEF Push, Land, Find, Write, vars, github, runs, process, ghosts, AtWrite
<1>3. CASE End
  BY <1>3 DEF End, Ordered, AtWrite, runs, ghosts
<1>4. ASSUME NEW r \in Runs, Rerun(r) \/ \E t \in Tasks : Start(r, t) PROVE Ordered'
  <2>1. did = {} /\ did' = {} /\ pc' = "load"
    BY <1>4 DEF Rerun, Start, Begins, Shaped
  <2>2. \A q \in Runs : receipts'[q] > 0 => tries'[q] > 0 /\ task'[q] # "review"
    <3>1. CASE Rerun(r)
      BY <3>1 DEF Rerun, ghosts, Ordered, Typed
    <3>2. ASSUME NEW t \in Tasks, Start(r, t)
          PROVE  \A q \in Runs : receipts'[q] > 0 => tries'[q] > 0 /\ task'[q] # "review"
      <4>1. tries[r] = 0 /\ tries' = [tries EXCEPT ![r] = 1] /\ receipts' = receipts
            /\ task' = [task EXCEPT ![r] = t]
        BY <3>2 DEF Start, ghosts
      <4> QED
        BY <4>1 DEF Ordered, Typed
    <3> QED
      BY <1>4, <3>1, <3>2
  <2> QED
    BY <2>1, <2>2 DEF Ordered, AtWrite
<1>5. CASE Load \/ Archive
  <2>1. did = {} /\ did' = {} /\ kind' \in BootKinds /\ UNCHANGED <<live, tries, task, receipts>>
    BY <1>5, LoadTyped DEF Load, Archive, Shaped, BootKinds, runs, ghosts
  <2> QED
    BY <2>1 DEF Ordered, BootKinds
<1>6. CASE ArchiveUncertain
  BY <1>6 DEF ArchiveUncertain, Ordered, AtWrite, runs, ghosts
<1>7. ASSUME NEW k \in Kinds, Prepare(k) PROVE Ordered'
  <2>1. kind' = k /\ cand' = Change(k, root) /\ pc = "idle" /\ May(k)
        /\ UNCHANGED <<live, tries, task, did, root, receipts>>
    BY <1>7 DEF Prepare, runs, ghosts
  <2>2. k \in Kinds \ BootKinds /\ root \in Records
    BY <2>1 DEF May, BootKinds, Typed
  <2>3. "begin" \in did => cand'.action.phase \in Started
    <3>1. "begin" \in did => root.action.phase \in Started /\ k \notin {"admit", "begin"}
      BY <2>1 DEF Ordered, May, Started
    <3> QED
      BY <2>1, <2>2, <3>1, ChangePhase DEF Started, BootKinds
  <2>4. k = "apply" => "begin" \in did
    BY <2>1 DEF May
  <2>5. k \in {"admit", "begin"} => task[live] # "review"
    BY <2>1 DEF May, Review, Ordered
  <2> QED
    BY <2>1, <2>3, <2>4, <2>5 DEF Ordered
<1>8. CASE Fail
  BY <1>8 DEF Fail, Rests, Ordered, AtWrite, runs, ghosts
<1>9. CASE Confirm
  <2>1. CASE Discover = cand
    <3>1. root' = cand /\ pc' = "idle" /\ did' \in {did, did \cup {kind}}
          /\ UNCHANGED <<live, tries, task, receipts>> /\ AtWrite
      BY <1>9, <2>1 DEF Confirm, Rests, runs, ghosts, AtWrite
    <3>2. kind = "begin" => cand.action.phase = "started"
      BY <3>1, ChangePhase DEF Shaped, Typed
    <3>3. "begin" \in did' => root'.action.phase \in Started
      BY <3>1, <3>2 DEF Ordered, Started
    <3>4. /\ "receipt" \in did' => "apply" \in did'
          /\ "apply" \in did' => "begin" \in did'
          /\ {"admit", "begin"} \cap did' # {} => task[live] # "review"
      BY <3>1 DEF Ordered, Typed, Kinds
    <3>5. ~AtWrite'
      BY <3>1 DEF AtWrite
    <3> QED
      BY <3>1, <3>3, <3>4, <3>5 DEF Ordered
  <2>2. CASE Discover # cand
    BY <1>9, <2>2 DEF Confirm, Rests, Ordered, AtWrite, runs, ghosts
  <2> QED
    BY <2>1, <2>2
<1>10. CASE Enter
  BY <1>10 DEF Enter, github, runs, Ordered, AtWrite
<1>11. CASE Post
  BY <1>11 DEF Post, github, runs, Ordered, AtWrite
<1>12. CASE Readmit
  BY <1>12 DEF Readmit, CanReadmit, Readmits, Review, github, runs, ghosts, Ordered, AtWrite
<1>13. CASE Receipt
  <2>1. live \in Runs /\ "apply" \in did /\ "begin" \in did /\ task[live] # "review"
        /\ tries[live] > 0
    BY <1>13 DEF Receipt, CanReceipt, Ordered, Typed, Runs, Shaped
  <2>2. receipts' = [receipts EXCEPT ![live] = receipts[live] + 1]
        /\ UNCHANGED <<live, tries, task, root, kind, cand>> /\ ~AtWrite'
        /\ did' \in {did, did \cup {"receipt"}}
    BY <1>13 DEF Receipt, runs, AtWrite
  <2>3. \A q \in Runs : receipts'[q] > 0 => tries'[q] > 0 /\ task'[q] # "review"
    BY <2>1, <2>2 DEF Ordered, Typed
  <2> QED
    BY <2>1, <2>2, <2>3 DEF Ordered
<1> QED
  BY <1>1, <1>2, <1>3, <1>4, <1>5, <1>6, <1>7, <1>8, <1>9, <1>10, <1>11, <1>12, <1>13
  DEF Next

\* Only the confirmed mark of a command makes new what Marked is about.
LEMMA NewlyMarked ==
  ASSUME Typed, Shaped, Ordered, [Next]_vars, NEW r \in Runs,
         MayRunAgain(r)', MayHaveActed(r)'
  PROVE  \/ MayRunAgain(r) /\ MayHaveActed(r)
         \/ Confirm /\ Discover = cand /\ live = r /\ tries[r] = 1 /\ kind = "begin"
<1> DEFINE Goal == \/ MayRunAgain(r) /\ MayHaveActed(r)
                   \/ Confirm /\ Discover = cand /\ live = r /\ tries[r] = 1 /\ kind = "begin"
<1>1. CASE UNCHANGED <<live, tries, receipts>> /\ (pc' = "load" => pc = "load")
             /\ ("begin" \in did' => "begin" \in did)
  BY <1>1 DEF MayRunAgain, MayHaveActed
<1>2. Push \/ Land \/ Load \/ Archive \/ ArchiveUncertain \/ Find \/ Fail \/ Write \/ Enter
        \/ Post \/ Readmit \/ (\E k \in Kinds : Prepare(k)) \/ UNCHANGED vars
      => UNCHANGED <<live, tries, receipts>> /\ (pc' = "load" => pc = "load")
           /\ ("begin" \in did' => "begin" \in did)
  <2>1. Load => pc' # "load"
    BY LoadTyped
  <2> QED
    BY <2>1 DEF Push, Land, Load, Archive, ArchiveUncertain, Find, Fail, Rests, Write, Enter,
      Post, Readmit, Prepare, vars, github, runs, process, ghosts
<1>3. CASE End
  BY <1>3 DEF End, runs, ghosts, MayRunAgain, MayHaveActed, Runs
<1>4. ASSUME NEW q \in Runs, Rerun(q) PROVE Goal
  <2>1. did' = {} /\ tries[q] = 1 /\ tries' = [tries EXCEPT ![q] = 2] /\ live' = q
        /\ UNCHANGED receipts
    BY <1>4 DEF Rerun, Begins, ghosts, Shaped
  <2> QED
    BY <2>1 DEF MayRunAgain, MayHaveActed, Typed
<1>5. ASSUME NEW q \in Runs, NEW t \in Tasks, Start(q, t) PROVE Goal
  <2>1. did' = {} /\ tries[q] = 0 /\ tries' = [tries EXCEPT ![q] = 1] /\ live' = q
        /\ UNCHANGED receipts
    BY <1>5 DEF Start, Begins, ghosts, Shaped
  <2> QED
    BY <2>1 DEF MayRunAgain, MayHaveActed, Ordered, Typed
<1>6. CASE Confirm
  BY <1>6 DEF Confirm, Rests, runs, ghosts, MayRunAgain, MayHaveActed
<1>7. CASE Receipt
  <2>1. live \in Runs /\ "begin" \in did /\ pc = "idle" /\ pc' # "load"
        /\ receipts' = [receipts EXCEPT ![live] = receipts[live] + 1]
        /\ UNCHANGED <<live, tries>> /\ ("begin" \in did' => "begin" \in did)
    BY <1>7 DEF Receipt, CanReceipt, Ordered, Typed, Runs, runs
  <2> QED
    BY <2>1 DEF MayRunAgain, MayHaveActed, Typed
<1> QED
  BY <1>1, <1>2, <1>3, <1>4, <1>5, <1>6, <1>7 DEF Next

LEMMA MarkedNext ==
  Typed /\ Shaped /\ Distinct /\ Serial /\ Once /\ [Next]_vars => Marked'
<1> SUFFICES ASSUME Typed, Shaped, Distinct, Serial, Ordered, Marked, Spent, [Next]_vars,
                    NEW r \in Runs, MayRunAgain(r)', MayHaveActed(r)',
                    NEW x \in Written', x.run = r
             PROVE  x.action.phase \in Started
  BY DEF Once, Marked
<1>1. CASE Confirm /\ Discover = cand /\ live = r /\ tries[r] = 1 /\ kind = "begin"
  <2>1. pc = "confirm" /\ live # 0 /\ x \in Written
    BY <1>1, WrittenBefore DEF Confirm, Write
  <2>2. Own(x)
    BY <1>1, <2>1 DEF Distinct, Own
  <2>3. x = cand
    <3>1. Len(comments) = 1 /\ comments[1] = cand /\ \A w \in Underway : ~Own(w.record)
      BY <1>1, <2>1, Confirmed
    <3>2. \A i \in 1 .. Len(comments) : comments[i] = cand
      BY <3>1
    <3> QED
      BY <2>1, <2>2, <3>1, <3>2 DEF Written
  <2>4. cand = Change("begin", root)
    BY <1>1, <2>1 DEF Shaped, AtWrite
  <2> QED
    BY <2>3, <2>4, ChangePhase DEF Started, Typed, Kinds
<1>2. CASE MayRunAgain(r) /\ MayHaveActed(r)
  <2>1. CASE x \in Written
    BY <1>2, <2>1 DEF Marked
  <2>2. CASE Write /\ x = cand
    <3>1. pc = "write" /\ live # 0 /\ live = r
      BY <2>2 DEF Write, Shaped, AtWrite
    <3>2. tries[r] = 1
      BY <1>2, <3>1 DEF MayRunAgain
    <3>3. "begin" \in did
      BY <1>2, <3>1, <3>2 DEF MayHaveActed, Spent, Ordered
    <3> QED
      BY <2>2, <3>1, <3>3 DEF Ordered, AtWrite
  <2> QED
    BY <2>1, <2>2, WrittenBefore
<1> QED
  BY <1>1, <1>2, NewlyMarked

LEMMA SpentNext ==
  Typed /\ Shaped /\ Once /\ [Next]_vars => Spent'
<1> SUFFICES ASSUME Typed, Shaped, Ordered, Marked, Spent, [Next]_vars,
                    live' # 0, receipts'[live'] > 0
             PROVE  Spent'
  BY DEF Once, Spent
<1>1. CASE UNCHANGED <<live, tries, receipts, pc, kind, did, root>>
  BY <1>1 DEF Spent, AtWrite
<1>2. Push \/ Land \/ UNCHANGED vars
        => UNCHANGED <<live, tries, receipts, pc, kind, did, root>>
  BY DEF Push, Land, runs, process, ghosts, vars
<1>3. ~End
  BY DEF End
<1>4. ASSUME NEW r \in Runs, Rerun(r) PROVE Spent'
  BY <1>4 DEF Rerun, Begins, Shaped, Spent, AtWrite, Typed
<1>5. ASSUME NEW r \in Runs, NEW t \in Tasks, Start(r, t) PROVE Spent'
  <2>1. receipts[r] = 0 /\ live' = r /\ receipts' = receipts
    BY <1>5 DEF Start, Begins, ghosts, Ordered, Typed
  <2> QED
    BY <2>1
<1>6. CASE Load
  <2>1. live \in Runs /\ live # 0 /\ pc = "load" /\ did = {} /\ receipts[live] > 0
        /\ UNCHANGED <<live, tries, did, receipts>>
    BY <1>6, LoadTyped DEF Load, Shaped, runs, ghosts
  <2>2. tries[live] = 2
    BY <2>1 DEF Spent
  <2>3. kind' = "recover" /\ CanRecover(root') /\ root' = Discover
    BY <1>6, <2>2, LoadTyped
  <2>4. root'.run = live /\ root'.action.phase # "terminal"
    BY <2>3 DEF CanRecover
  <2>5. root' \in Written
    <3>1. root' = comments[1] /\ Len(comments) = 1
      BY <1>6, <2>1, <2>3, <2>4, LoadTyped
    <3> QED
      BY <3>1 DEF Written
  <2>6. root'.action.phase = "started"
    BY <2>1, <2>4, <2>5 DEF Marked, MayRunAgain, MayHaveActed, Started
  <2> QED
    BY <2>1, <2>2, <2>3, <2>6 DEF Spent
<1>7. ~Archive /\ ~ArchiveUncertain
  BY DEF Archive, ArchiveUncertain, Shaped, Spent, runs, ghosts
<1>8. ASSUME NEW k \in Kinds, Prepare(k) PROVE Spent'
  <2>1. UNCHANGED <<live, tries, receipts, did, root>> /\ pc = "idle" /\ May(k) /\ live \in Runs
        /\ pc' = "find"
    BY <1>8 DEF Prepare, runs, ghosts, Typed, Runs
  <2>2. task[live] # "review"
    BY <2>1 DEF Ordered
  <2>3. "receipt" \in did \/ (did = {} /\ root.action.phase = "started")
    BY <2>1 DEF Spent
  <2>4. ~(did = {} /\ root.action.phase = "started")
    BY <2>1, <2>2 DEF May, Review, Holds
  <2> QED
    BY <2>1, <2>3, <2>4 DEF Spent
<1>9. CASE Find
  BY <1>9 DEF Find, runs, ghosts, Spent, AtWrite
<1>10. CASE Write
  BY <1>10 DEF Write, runs, ghosts, Spent, AtWrite
<1>11. CASE Fail
  BY <1>11 DEF Fail, Holds, Rests, runs, ghosts, Spent, AtWrite
<1>12. CASE Confirm
  <2>1. live \in Runs /\ pc = "confirm" /\ UNCHANGED <<live, tries, receipts>>
        /\ did \subseteq did'
    BY <1>12 DEF Confirm, Rests, runs, ghosts, Typed, Runs
  <2>2. CASE "receipt" \in did
    BY <2>1, <2>2 DEF Spent
  <2>3. CASE pc' = "stuck"
    BY <2>3 DEF Spent
  <2>4. CASE "receipt" \notin did /\ pc' # "stuck"
    <3>1. tries[live] = 2 /\ did = {} /\ root.action.phase = "started" /\ kind = "recover"
      BY <2>1, <2>4 DEF Spent, AtWrite
    <3>2. root' = cand /\ did' = did /\ pc' = "idle" /\ cand = Change("recover", root)
      BY <1>12, <2>4, <3>1 DEF Confirm, Rests, Shaped, AtWrite
    <3>3. root'.action.phase = "started"
      BY <3>1, <3>2, ChangePhase DEF Typed, Kinds
    <3> QED
      BY <2>1, <3>1, <3>2, <3>3 DEF Spent, AtWrite
  <2> QED
    BY <2>2, <2>3, <2>4
<1>13. CASE Enter
  BY <1>13 DEF Enter, CanEnter, Holds, github, runs, Spent, AtWrite
<1>14. CASE Post
  <2>1. live \in Runs /\ pc = "idle" /\ receipts[live] > 0 /\ task[live] = "review"
    BY <1>14 DEF Post, CanPost, Review, runs, Typed, Runs
  <2> QED
    BY <2>1 DEF Ordered
<1>15. CASE Readmit
  BY <1>15 DEF Readmit, CanReadmit, Readmits, github, runs, ghosts, Spent, AtWrite
<1>16. CASE Receipt
  BY <1>16 DEF Receipt, Spent, AtWrite
<1> QED
  BY <1>1, <1>2, <1>3, <1>4, <1>5, <1>6, <1>7, <1>8, <1>9, <1>10, <1>11, <1>12, <1>13, <1>14,
     <1>15, <1>16
  DEF Next

LEMMA EffectOnceNext ==
  Typed /\ Shaped /\ Once /\ [Next]_vars => EffectOnce'
<1> SUFFICES ASSUME Typed, Shaped, Ordered, Spent, EffectOnce, [Next]_vars PROVE EffectOnce'
  BY DEF Once
<1>1. CASE Receipt
  <2>1. live \in Runs /\ live # 0 /\ pc = "idle" /\ "apply" \in did /\ "receipt" \notin did
        /\ receipts' = [receipts EXCEPT ![live] = receipts[live] + 1]
    BY <1>1 DEF Receipt, CanReceipt, Typed, Runs
  <2>2. ~(receipts[live] > 0)
    BY <2>1 DEF Spent
  <2> QED
    BY <2>1, <2>2 DEF EffectOnce, Typed
<1>2. CASE UNCHANGED receipts
  BY <1>2 DEF EffectOnce
<1>3. Push \/ Land \/ End \/ Load \/ Archive \/ ArchiveUncertain \/ Find \/ Fail \/ Write
        \/ Confirm \/ Enter \/ Post \/ Readmit \/ (\E k \in Kinds : Prepare(k))
        \/ (\E r \in Runs : Rerun(r) \/ \E t \in Tasks : Start(r, t)) \/ UNCHANGED vars
      => UNCHANGED receipts
  BY DEF Push, Land, End, Load, Archive, ArchiveUncertain, Find, Fail, Write, Confirm,
         Enter, Post, Readmit, Prepare, Rerun, Start, vars, ghosts
<1> QED
  BY <1>1, <1>2, <1>3 DEF Next

-----------------------------------------------------------------------------
(* What a run leaves behind                                                *)

\* Nothing that the records are judged by is ever taken back.
LEMMA Course ==
  ASSUME Typed, Shaped, [Next]_vars
  PROVE  /\ \A r \in Runs : tries[r] > 0 =>
              task'[r] = task[r] /\ (task[r] = "review" => aim'[r] = aim[r])
         /\ \A r \in Runs : receipts[r] > 0 => receipts'[r] > 0
         /\ posted \subseteq posted' /\ carriers \subseteq carriers'
         /\ UNCHANGED entered \/ (Enter /\ entered' = entered \cup {<<live, tries[live]>>})
         /\ \A r \in Runs : \A a \in 1 .. tries[r] :
              (live = r => tries[live] # a) => (live' = r => tries'[live'] # a)
<1>1. ASSUME NEW r \in Runs, tries[r] > 0
      PROVE  task'[r] = task[r] /\ (task[r] = "review" => aim'[r] = aim[r])
  <2>1. CASE UNCHANGED <<task, aim>>
    BY <2>1
  <2>2. ASSUME NEW q \in Runs, Rerun(q)
        PROVE  task'[r] = task[r] /\ (task[r] = "review" => aim'[r] = aim[r])
    BY <2>2 DEF Rerun, Typed
  <2>3. ASSUME NEW q \in Runs, NEW t \in Tasks, Start(q, t)
        PROVE  task'[r] = task[r] /\ (task[r] = "review" => aim'[r] = aim[r])
    <3>1. q # r
      BY <1>1, <2>3 DEF Start
    <3>2. task' = [task EXCEPT ![q] = t] /\ aim' = [aim EXCEPT ![q] = head]
      BY <2>3 DEF Start
    <3> QED
      BY <3>1, <3>2 DEF Typed
  <2>4. Push \/ Land \/ End \/ Load \/ Archive \/ ArchiveUncertain \/ Find \/ Fail \/ Write
          \/ Confirm \/ Enter \/ Post \/ Readmit \/ Receipt \/ (\E k \in Kinds : Prepare(k))
          \/ UNCHANGED vars
        => UNCHANGED <<task, aim>>
    BY DEF Push, Land, End, Load, Archive, ArchiveUncertain, Find, Fail, Write, Confirm,
           Enter, Post, Readmit, Receipt, Prepare, vars, runs
  <2> QED
    BY <2>1, <2>2, <2>3, <2>4 DEF Next
<1>2. /\ \A r \in Runs : receipts[r] > 0 => receipts'[r] > 0
      /\ posted \subseteq posted'
      /\ UNCHANGED entered \/ (Enter /\ entered' = entered \cup {<<live, tries[live]>>})
  <2>1. CASE Receipt
    <3>1. live \in Runs /\ receipts' = [receipts EXCEPT ![live] = receipts[live] + 1]
          /\ UNCHANGED <<entered, posted>>
      BY <2>1 DEF Receipt, Typed, Runs
    <3> QED
      BY <3>1 DEF Typed
  <2>2. Push \/ Land \/ End \/ Load \/ Archive \/ ArchiveUncertain \/ Find \/ Fail \/ Write
          \/ Confirm \/ Readmit \/ (\E k \in Kinds : Prepare(k))
          \/ (\E r \in Runs : Rerun(r) \/ \E t \in Tasks : Start(r, t)) \/ UNCHANGED vars
        => UNCHANGED <<receipts, posted, entered>>
    BY DEF Push, Land, End, Load, Archive, ArchiveUncertain, Find, Fail, Write, Confirm,
           Readmit, Prepare, Rerun, Start, vars, ghosts
  <2>3. CASE Enter \/ Post
    BY <2>3 DEF Enter, Post
  <2> QED
    BY <2>1, <2>2, <2>3 DEF Next
<1>3. carriers \subseteq carriers'
  BY TypedGitHub
<1>4. ASSUME NEW r \in Runs, NEW a \in 1 .. tries[r], live = r => tries[live] # a, live' = r
      PROVE  tries'[live'] # a
  <2>1. CASE UNCHANGED <<live, tries>>
    BY <1>4, <2>1
  <2>2. ASSUME NEW q \in Runs, Rerun(q) \/ \E t \in Tasks : Start(q, t)
        PROVE  tries'[live'] # a
    <3>1. live' = q /\ tries' = [tries EXCEPT ![q] = tries[q] + 1] /\ tries[q] \in Nat
      BY <2>2 DEF Rerun, Start, Begins, Typed
    <3> QED
      BY <1>4, <3>1 DEF Typed
  <2>3. CASE End
    BY <1>4, <2>3 DEF End, Runs
  <2>4. Push \/ Land \/ Load \/ Archive \/ ArchiveUncertain \/ Find \/ Fail \/ Write
          \/ Confirm \/ Enter \/ Post \/ Readmit \/ Receipt \/ (\E k \in Kinds : Prepare(k))
          \/ UNCHANGED vars
        => UNCHANGED <<live, tries>>
    BY DEF Push, Land, Load, Archive, ArchiveUncertain, Find, Fail, Write, Confirm,
           Enter, Post, Readmit, Receipt, Prepare, vars, runs, process
  <2> QED
    BY <2>1, <2>2, <2>3, <2>4 DEF Next
<1> QED
  BY <1>1, <1>2, <1>3, <1>4

\* A process that has ended with nothing left to do is never started again.
LEMMA OverStable ==
  ASSUME Typed, Shaped, Asked, [Next]_vars, NEW p, Over(p)
  PROVE  Over(p)'
<1>1. p.run \in Runs /\ p.att \in 1 .. tries[p.run] /\ tries[p.run] > 0
  <2>1. p.run \in Runs /\ p.att \in 1 .. tries[p.run]
    BY DEF Over
  <2> QED
    BY <2>1, TriesTyped
<1>2. p.att \in 1 .. tries'[p.run]
  <2>1. tries[p.run] <= tries'[p.run] /\ tries'[p.run] \in Nat /\ tries[p.run] \in Nat
    BY <1>1, TriesTyped
  <2> QED
    BY <1>1, <2>1
<1>3. live' = p.run => tries'[live'] # p.att
  BY <1>1, Course DEF Over
<1>4. task'[p.run] # "review" => receipts'[p.run] > 0
  BY <1>1, Course DEF Over
<1>5. <<p.run, p.att>> \in entered' => aim'[p.run] \in posted'
  <2> SUFFICES ASSUME <<p.run, p.att>> \in entered' PROVE aim'[p.run] \in posted'
    OBVIOUS
  <2>1. <<p.run, p.att>> \in entered
    BY Course DEF Over
  <2>2. task[p.run] = "review" /\ aim[p.run] \in posted
    BY <2>1 DEF Asked, Over
  <2> QED
    BY <1>1, <2>2, Course
<1> QED
  BY <1>1, <1>2, <1>3, <1>4, <1>5 DEF Over

\* A record stays sound while its process does not ask the provider again
\* after closing its run.
LEMMA SoundStable ==
  ASSUME Typed, Shaped, Asked, [Next]_vars,
         NEW x \in Records, Sound(x), x.run \in Runs, x.att \in 1 .. tries[x.run],
         Enter /\ Own(x) => x.closed = "open"
  PROVE  Sound(x)'
<1>1. tries[x.run] > 0
  BY TriesTyped
<1>2. x.action.phase # "none" =>
        task'[x.run] # "review" /\ x.tx.phase \in {"none", "published"}
  BY <1>1, Course DEF Sound
<1>3. x.action.phase = "terminal" => receipts'[x.run] > 0
  BY Course DEF Sound
<1>4. x.closed # "open" =>
        /\ task'[x.run] = "review"
        /\ <<x.run, x.att>> \in entered' => aim'[x.run] \in posted'
  <2> SUFFICES ASSUME x.closed # "open" PROVE
        /\ task'[x.run] = "review"
        /\ <<x.run, x.att>> \in entered' => aim'[x.run] \in posted'
    OBVIOUS
  <2>1. task[x.run] = "review"
    BY DEF Sound
  <2>2. <<x.run, x.att>> \in entered' => <<x.run, x.att>> \in entered
    BY Course DEF Own, Enter
  <2> QED
    BY <1>1, <2>1, <2>2, Course DEF Sound
<1>5. x.prev # NoRef => Over(x.prev)' /\ \E c \in carriers' : c.ref = x.prev
  <2>1. ASSUME x.prev # NoRef PROVE Over(x.prev)
    BY <2>1 DEF Sound
  <2>2. ASSUME x.prev # NoRef PROVE Over(x.prev)'
    BY <2>1, <2>2, OverStable
  <2> QED
    BY <2>2, Course DEF Sound
<1> QED
  BY <1>2, <1>3, <1>4, <1>5 DEF Sound, WellFormed

SameAction(c, r) == c.action = r.action /\ c.closed = r.closed
SameRound(c, r)  == c.hold = r.hold /\ c.tx = r.tx

\* What each write does to the round, the command and the run.
LEMMA ChangeFields ==
  ASSUME NEW k \in Kinds, NEW r \in Records, NEW c, c = Change(k, r)
  PROVE  /\ k = "enrol" => /\ c.hold = "none" /\ c.tx = Nothing /\ c.action = Nothing
                           /\ c.closed = "open" /\ c.prev = NoRef
         /\ k = "rollover" => /\ SameRound(c, r) /\ c.action = Nothing
                              /\ c.closed = "open" /\ c.prev = Ref(r)
         /\ k = "recover" => SameRound(c, r) /\ SameAction(c, r) /\ c.prev = r.prev
         /\ k = "reserve" => SameAction(c, r) /\ c.hold = "review" /\ c.tx = Nothing
         /\ k = "attach" => /\ SameAction(c, r) /\ c.hold = r.hold
                            /\ c.tx = [phase |-> "analysis", head |-> aim[live]]
         /\ k = "retain" => /\ SameAction(c, r) /\ c.hold = "none"
                            /\ c.tx.phase = "pending" /\ c.tx.head = r.tx.head
         /\ k = "publish" => /\ SameAction(c, r) /\ c.hold = r.hold
                             /\ c.tx.phase = "published" /\ c.tx.head = r.tx.head
         /\ k = "finish" => SameRound(c, r) /\ c.action = r.action /\ c.closed = "published"
         /\ k = "cleanup" => SameAction(c, r) /\ c.hold = "none" /\ c.tx = Nothing
         /\ k = "close" => SameRound(c, r) /\ c.action = r.action /\ c.closed = "aborted"
         /\ k = "charge" => SameAction(c, r) /\ c.hold = "charge" /\ c.tx = r.tx
         /\ k = "charged" => SameAction(c, r) /\ c.hold = "none" /\ c.tx = r.tx
         /\ k = "admit" => /\ SameRound(c, r) /\ c.action.phase = "pending"
                           /\ c.closed = r.closed
         /\ k = "begin" => /\ SameRound(c, r) /\ c.action.phase = "started"
                           /\ c.closed = r.closed
         /\ k = "apply" => SameRound(c, r) /\ SameAction(c, r)
         /\ k = "terminal" => /\ SameRound(c, r) /\ c.action.phase = "terminal"
                              /\ c.closed = r.closed
<1> USE DEF SameAction, SameRound
<1>1. CASE k \in {"enrol", "rollover", "recover"}
  BY <1>1 DEF Change, Enrolled, RolledOver, Recovered, Missing, Nothing, Records, Ref
<1>2. CASE k \in {"reserve", "attach", "retain", "publish"}
  BY <1>2 DEF Change, Reserved, Attached, Retained, Published, Records
<1>3. CASE k \in {"finish", "cleanup", "close", "charge", "charged"}
  BY <1>3 DEF Change, Finished, CleanedUp, Closed, Charging, Charged, Records
<1>4. CASE k \in {"admit", "begin", "apply", "terminal"}
  BY <1>4 DEF Change, Admitted, Begun, Effected, Terminated, Records
<1> QED
  BY <1>1, <1>2, <1>3, <1>4 DEF Kinds

\* What a process may write next is sound if what it has is.
LEMMA PreparedSound ==
  ASSUME Typed, Shaped, Kept, Shown, Asked, NEW k \in Kinds, Prepare(k)
  PROVE  Sound(Change(k, root))
<1> DEFINE c == Change(k, root)
<1>1. k \in Kinds \ BootKinds /\ root \in Records /\ May(k) /\ pc = "idle"
      /\ live \in Runs /\ live # 0
  BY DEF Prepare, May, BootKinds, Typed, Runs
<1>2. Sound(root) /\ root.run = live /\ root.att = tries[live]
  BY <1>1 DEF Kept, Working, Shaped
<1>3. c.run = live /\ c.att = tries[live] /\ c.prev = root.prev
  BY <1>1, <1>2, ChangeKeeps
<1>4. c.prev # NoRef => Over(c.prev) /\ \E a \in carriers : a.ref = c.prev
  BY <1>2, <1>3 DEF Sound
<1>5. root.hold \in {"none", "review", "charge"}
      /\ root.tx.phase \in {"none", "analysis", "pending", "published"}
      /\ root.closed \in {"open", "published", "aborted"}
      /\ root.action.phase \in {"none", "pending", "started", "terminal"}
  BY <1>1 DEF Records
<1>6. WellFormed(c)
  <2>1. CASE k \in {"reserve", "attach", "retain", "publish"}
    BY <1>1, <1>2, <1>5, <2>1, ChangeFields
    DEF WellFormed, Sound, May, Review, Holds, Shown, SameAction, Nothing
  <2>2. CASE k \in {"finish", "cleanup", "close"}
    BY <1>1, <1>2, <1>5, <2>2, ChangeFields
    DEF WellFormed, Sound, May, Review, Holds, Shown, CleanedUpRecord, SameAction,
        SameRound, Nothing
  <2>3. CASE k \in {"charge", "charged"}
    BY <1>1, <1>2, <1>5, <2>3, ChangeFields
    DEF WellFormed, Sound, May, Shown, CleanedUpRecord, SameAction
  <2>4. CASE k \in {"admit", "begin", "apply", "terminal"}
    BY <1>1, <1>2, <1>5, <2>4, ChangeFields
    DEF WellFormed, Sound, May, Review, Shown, SameAction, SameRound
  <2> QED
    BY <1>1, <2>1, <2>2, <2>3, <2>4 DEF Kinds, BootKinds
<1>7. c.action.phase # "none" =>
        task[live] # "review" /\ c.tx.phase \in {"none", "published"}
  <2>1. CASE k \in {"reserve", "attach", "retain", "publish"}
    BY <1>1, <1>2, <1>5, <2>1, ChangeFields
    DEF WellFormed, Sound, May, Review, Holds, SameAction, Nothing
  <2>2. CASE k \in {"finish", "cleanup", "close", "charge", "charged"}
    BY <1>1, <1>2, <1>5, <2>2, ChangeFields DEF Sound, SameAction, SameRound, Nothing
  <2>3. CASE k \in {"admit", "begin", "apply", "terminal"}
    BY <1>1, <1>2, <1>5, <2>3, ChangeFields
    DEF Sound, May, Review, Shown, SameAction, SameRound
  <2> QED
    BY <1>1, <2>1, <2>2, <2>3 DEF Kinds, BootKinds
<1>8. c.action.phase = "terminal" => receipts[live] > 0
  <2>1. CASE k = "terminal"
    BY <1>1, <2>1 DEF May, Shown
  <2>2. CASE k \in {"admit", "begin"}
    BY <1>1, <2>2, ChangeFields
  <2>3. CASE k \notin {"admit", "begin", "terminal"}
    BY <1>1, <1>2, <2>3, ChangePhase DEF Sound, BootKinds
  <2> QED
    BY <2>1, <2>2, <2>3
<1>9. c.closed # "open" => /\ task[live] = "review"
                           /\ <<live, tries[live]>> \in entered => aim[live] \in posted
  <2>1. CASE k = "finish"
    BY <1>1, <2>1 DEF May, Review, Shown, Asked
  <2>2. CASE k = "close"
    BY <1>1, <2>2 DEF May, Shown, Asked
  <2>3. CASE k \notin {"finish", "close"}
    <3>1. c.closed = root.closed
      BY <1>1, <2>3, ChangeFields DEF SameAction, Kinds, BootKinds
    <3> QED
      BY <1>2, <3>1 DEF Sound
  <2> QED
    BY <2>1, <2>2, <2>3
<1> HIDE DEF c
<1>10. Sound(c)
  BY <1>3, <1>4, <1>6, <1>7, <1>8, <1>9 DEF Sound
<1> QED
  BY <1>10 DEF c

\* A run that gives way has ended, and has left nothing to do.
LEMMA TakeoverOver ==
  ASSUME Typed, Shaped, Distinct, Kept, Asked, [Next]_vars, Load, pc' = "archive"
  PROVE  CanTakeOver(root)' /\ WellFormed(root)' /\ Over(Ref(root))'
<1>1. PICK x \in Records : x = root'
  BY LoadTyped
<1>2. CanTakeOver(x) /\ Ceased(x) /\ x = Discover
  BY <1>1, LoadTyped
<1>3. x \in Written
  BY <1>1, <1>2, LoadTyped DEF Written, Typed, CanTakeOver
<1>4. Sound(x)
  BY <1>3 DEF Kept
<1>5. Over(Ref(x))
  <2>1. x.run \in Runs /\ x.att \in 1 .. tries[x.run]
    BY <1>3 DEF Distinct
  <2>2. live # x.run
    BY <1>2 DEF Ceased
  <2>3. task[x.run] # "review" => receipts[x.run] > 0
    BY <1>2, <1>4 DEF Sound, CanTakeOver
  <2>4. <<x.run, x.att>> \in entered => aim[x.run] \in posted
    BY <1>2, <1>4 DEF Sound, CanTakeOver, Asked
  <2> QED
    BY <2>1, <2>2, <2>3, <2>4 DEF Over, Ref
<1>6. Over(Ref(x))'
  BY <1>5, OverStable
<1> QED
  BY <1>1, <1>2, <1>4, <1>6 DEF Sound, CanTakeOver, WellFormed, Over, Ref

LEMMA SoundRecord ==
  ASSUME NEW x, x = cand', Sound(x)' PROVE Sound(cand)'
BY DEF Sound, WellFormed, Over

LEMMA SoundRoot ==
  ASSUME NEW x, x = root', Sound(x)' PROVE Sound(root)'
BY DEF Sound, WellFormed, Over

\* An archive that is posted or found is among the archives.
LEMMA Archived ==
  ASSUME Archive
  PROVE  \E c \in carriers' : c.ref = Ref(root)
<1>1. ASSUME NEW S, Cardinality(S) = 1 PROVE S # {}
  BY <1>1, FS_EmptySet
<1>2. CASE Cardinality(Copies(carriers)) = 1 /\ UNCHANGED github
  BY <1>1, <1>2 DEF Copies, github
<1>3. CASE Answered(ArchivePost)
  <2>1. PICK n : carriers' = carriers \cup {[ref |-> Ref(ArchivePost.record), copy |-> n]}
    BY <1>3 DEF Answered, Applied, ArchivePost
  <2>2. [ref |-> Ref(root), copy |-> n] \in carriers'
    BY <2>1 DEF ArchivePost
  <2> QED
    BY <2>2
<1>4. CASE Stored
  BY <1>1, <1>4 DEF Stored, Copies
<1>5. \/ Cardinality(Copies(carriers)) = 1 /\ UNCHANGED github
      \/ Answered(ArchivePost) \/ Stored
  BY Zenon DEF Archive, ArchivePost
<1> QED
  BY <1>2, <1>3, <1>4, <1>5

\* The first record that a process writes is sound.
LEMMA BootSound ==
  ASSUME Typed, Shaped, Distinct, Kept, Asked, [Next]_vars,
         (Load /\ pc' # "archive") \/ Archive
  PROVE  Sound(cand)' /\ cand'.closed = "open"
<1>1. PICK x \in Records : x = cand'
  BY TypedNext DEF Typed
<1>2. x.run = live /\ x.att = tries[live] /\ live \in Runs /\ UNCHANGED <<live, tries>>
      /\ pc' \in {"find", "write"}
  <2>1. live' \in Runs /\ UNCHANGED <<live, tries>> /\ pc' \in {"find", "write"}
    BY LoadTyped DEF Load, Archive, runs, Typed, Runs
  <2> QED
    BY <1>1, <2>1, ShapedNext DEF Shaped, AtWrite
<1>3. ~Enter
  BY DEF Load, Archive, Enter
<1>4. x.att \in 1 .. tries[x.run]
  <2>1. tries[live] \in {1, 2}
    BY <1>2 DEF Shaped, Runs
  <2> QED
    BY <1>2, <2>1
<1>5. CASE Load /\ kind' = "enrol"
  <2>1. PICK r \in Records : x = Change("enrol", r)
    BY <1>1, <1>5, LoadTyped
  <2>2. Sound(x) /\ x.closed = "open"
    BY <2>1, ChangeFields DEF Kinds, Sound, WellFormed, Nothing
  <2> QED
    BY <1>1, <1>2, <1>3, <1>4, <2>2, SoundStable, SoundRecord
<1>6. CASE Load /\ kind' = "recover"
  <2>1. PICK r \in Records : r = root' /\ x = Change("recover", r)
    BY <1>1, <1>6, LoadTyped
  <2>2. CanRecover(r) /\ r = Discover
    BY <1>6, <2>1, LoadTyped
  <2>3. r.run = live /\ r.closed = "open"
    BY <2>2 DEF CanRecover
  <2>4. r \in Written
    BY <1>2, <1>6, <2>1, <2>2, <2>3, LoadTyped DEF Written, Typed
  <2>5. Sound(r)
    BY <2>4 DEF Kept
  <2>6. Sound(x) /\ x.closed = "open"
    BY <1>2, <2>1, <2>3, <2>5, ChangeFields
    DEF Kinds, Sound, WellFormed, SameRound, SameAction
  <2> QED
    BY <1>1, <1>2, <1>3, <1>4, <2>6, SoundStable, SoundRecord
<1>7. CASE Archive
  <2>1. PICK r \in Records : r = root /\ x = Change("rollover", r)
    BY <1>1, <1>7 DEF Archive, Typed
  <2>2. CanTakeOver(r) /\ WellFormed(r) /\ Over(Ref(r))
    BY <1>7, <2>1 DEF Archive, Kept
  <2>3. Over(Ref(r))'
    BY <2>2, OverStable
  <2>4. x.hold = "none" /\ x.tx = r.tx /\ x.action = Nothing /\ x.closed = "open"
        /\ x.prev = Ref(r)
    BY <2>1, <2>2, ChangeFields DEF Kinds, CanTakeOver, SameRound
  <2>5. \E c \in carriers' : c.ref = x.prev
    BY <1>7, <2>1, <2>4, Archived
  <2>6. WellFormed(x) /\ x.action.phase = "none"
    BY <2>2, <2>4 DEF WellFormed, CanTakeOver, Nothing
  <2>7. Sound(x)'
    BY <2>3, <2>4, <2>5, <2>6 DEF Sound, WellFormed
  <2> QED
    BY <1>1, <2>4, <2>7, SoundRecord
<1> QED
  BY <1>5, <1>6, <1>7, LoadTyped

\* Where the record a process is at comes from.
LEMMA ProcessStep ==
  ASSUME Typed, Shaped, [Next]_vars
  PROVE  /\ AtWrite' => \/ AtWrite /\ UNCHANGED <<cand, kind, root, live>>
                        \/ (Load /\ pc' # "archive") \/ Archive
                        \/ \E k \in Kinds : Prepare(k)
         /\ Working' => \/ Working /\ UNCHANGED <<root, live>>
                        \/ Confirm /\ AtWrite /\ root' = cand /\ live' = live
         /\ pc' = "archive" => Load \/ (pc = "archive" /\ UNCHANGED root)
<1> DEFINE Goal == /\ AtWrite' => \/ AtWrite /\ UNCHANGED <<cand, kind, root, live>>
                                  \/ (Load /\ pc' # "archive") \/ Archive
                                  \/ \E k \in Kinds : Prepare(k)
                   /\ Working' => \/ Working /\ UNCHANGED <<root, live>>
                                  \/ Confirm /\ AtWrite /\ root' = cand /\ live' = live
                   /\ pc' = "archive" => Load \/ (pc = "archive" /\ UNCHANGED root)
<1>1. CASE UNCHANGED <<pc, kind, root, cand, live>> \/ pc' = "stuck" \/ pc' = "load"
  BY <1>1 DEF AtWrite, Working
<1>2. (\E r \in Runs : Rerun(r) \/ \E t \in Tasks : Start(r, t)) \/ End => pc' = "load"
  BY DEF Rerun, Start, Begins, End
<1>3. Push \/ Land \/ Enter \/ Readmit \/ UNCHANGED vars
        => UNCHANGED <<pc, kind, root, cand, live>>
  BY DEF Push, Land, Enter, Readmit, vars, runs, process
<1>4. Post \/ Receipt => UNCHANGED <<pc, kind, root, cand, live>> \/ pc' = "stuck"
  BY DEF Post, Receipt
<1>5. CASE Load
  BY <1>5, LoadTyped DEF AtWrite, Working, BootKinds
<1>6. CASE Archive \/ ArchiveUncertain
  BY <1>6 DEF Archive, ArchiveUncertain, AtWrite, Working, Shaped, BootKinds
<1>7. ASSUME NEW k \in Kinds, Prepare(k) PROVE Goal
  BY <1>7 DEF Prepare, AtWrite, Working
<1>8. CASE Find \/ Write
  BY <1>8 DEF Find, Write, AtWrite, Working
<1>9. CASE Fail
  BY <1>9 DEF Fail, Holds, Rests, Shaped, AtWrite, Working
<1>10. CASE Confirm
  BY <1>10 DEF Confirm, Rests, AtWrite, Working
<1> HIDE DEF Goal
<1>11. Goal
  BY <1>1, <1>2, <1>3, <1>4, <1>5, <1>6, <1>7, <1>8, <1>9, <1>10 DEF Next, Goal
<1> QED
  BY <1>11 DEF Goal

\* A process that has closed its run does not ask the provider.
LEMMA EnterOpen ==
  ASSUME Kept, StaysClosed, Enter, NEW x \in Written \cup {root}, Own(x)
  PROVE  x.closed = "open"
<1>1. pc = "idle" /\ root.hold = "review" /\ Sound(root)
  BY DEF Enter, CanEnter, Holds, Kept, Working
<1>2. root.closed = "open"
  BY <1>1 DEF Sound, WellFormed
<1> QED
  BY <1>1, <1>2 DEF StaysClosed

LEMMA KeptNext ==
  Typed /\ Shaped /\ Distinct /\ Left /\ [Next]_vars => Kept'
<1> SUFFICES ASSUME Typed, Shaped, Distinct, Kept, Shown, Asked, StaysClosed, [Next]_vars
             PROVE  Kept'
  BY DEF Left
<1>1. AtWrite => /\ cand \in Records /\ Sound(cand) /\ live \in Runs /\ live # 0
                 /\ cand.run = live /\ cand.att = tries[live] /\ cand.att \in 1 .. tries[cand.run]
                 /\ ~Enter
  <2> SUFFICES ASSUME AtWrite
               PROVE  /\ cand \in Records /\ Sound(cand) /\ live \in Runs /\ live # 0
                      /\ cand.run = live /\ cand.att = tries[live]
                      /\ cand.att \in 1 .. tries[cand.run] /\ ~Enter
    OBVIOUS
  <2>1. live \in Runs /\ live # 0 /\ tries[live] \in {1, 2}
    BY DEF AtWrite, Shaped, Typed, Runs
  <2> QED
    BY <2>1 DEF AtWrite, Shaped, Typed, Kept, Enter
<1>2. AtWrite => \A x \in Records : x = cand => Sound(x)'
  BY <1>1, SoundStable
<1>3. \A x \in Written' : Sound(x)'
  <2> SUFFICES ASSUME NEW x \in Written' PROVE Sound(x)'
    OBVIOUS
  <2>1. CASE x \in Written
    <3>1. x \in Records
      BY <2>1 DEF Written, Underway, Typed, Writes
    <3>2. x.run \in Runs /\ x.att \in 1 .. tries[x.run] /\ Sound(x)
      BY <2>1 DEF Distinct, Kept
    <3>3. Enter /\ Own(x) => x.closed = "open"
      BY <2>1, EnterOpen
    <3> QED
      BY <3>1, <3>2, <3>3, SoundStable
  <2>2. CASE Write /\ x = cand
    BY <1>1, <1>2, <2>2 DEF Write, AtWrite
  <2> QED
    BY <2>1, <2>2, WrittenBefore
<1>4. \A w \in flight' : WellFormed(w.record)
  <2>1. CASE Write
    <3>1. \A w \in flight' : w \in flight \/ w.record = cand
      BY <2>1, Writing
    <3> QED
      BY <1>1, <2>1, <3>1 DEF Write, AtWrite, Kept, Sound
  <2>2. CASE Archive \/ ArchiveUncertain
    <3>1. flight' \subseteq flight \cup {ArchivePost} /\ WellFormed(root)
      BY <2>2 DEF Archive, ArchiveUncertain, Answered, Unanswered, ArchivePost, github, Kept
    <3> QED
      BY <3>1 DEF ArchivePost, Kept
  <2>3. CASE Land
    BY <2>3 DEF Land, Kept
  <2>4. CASE UNCHANGED flight
    BY <2>4 DEF Kept
  <2>5. Push \/ End \/ Load \/ Find \/ Fail \/ Confirm \/ Enter \/ Post \/ Readmit \/ Receipt
          \/ (\E k \in Kinds : Prepare(k))
          \/ (\E r \in Runs : Rerun(r) \/ \E t \in Tasks : Start(r, t)) \/ UNCHANGED vars
        => UNCHANGED flight
    BY DEF Push, End, Load, Find, Fail, Confirm, Enter, Post, Readmit, Receipt, Prepare,
           Rerun, Start, vars, github
  <2> QED
    BY <2>1, <2>2, <2>3, <2>4, <2>5 DEF Next
<1>5. AtWrite' => Sound(cand)'
  <2> SUFFICES ASSUME AtWrite' PROVE Sound(cand)'
    OBVIOUS
  <2>1. CASE AtWrite /\ cand' = cand
    <3>1. PICK x \in Records : x = cand
      BY <1>1, <2>1
    <3> QED
      BY <1>2, <2>1, <3>1, SoundRecord
  <2>2. CASE (Load /\ pc' # "archive") \/ Archive
    BY <2>2, BootSound
  <2>3. ASSUME NEW k \in Kinds, Prepare(k) PROVE Sound(cand)'
    <3>1. PICK x \in Records : x = Change(k, root) /\ x = cand'
      BY <2>3, TypedNext DEF Prepare, Typed
    <3>2. Sound(x) /\ ~Enter
      BY <2>3, <3>1, PreparedSound DEF Prepare, Enter
    <3>3. live \in Runs /\ tries[live] \in {1, 2} /\ UNCHANGED <<live, tries>>
      BY <2>3 DEF Prepare, Shaped, Typed, Runs, runs
    <3>4. x.run = live /\ x.att = tries[live]
      BY <3>1, <3>3, ShapedNext DEF Shaped
    <3> QED
      BY <3>1, <3>2, <3>3, <3>4, SoundStable, SoundRecord
  <2> QED
    BY <2>1, <2>2, <2>3, ProcessStep
<1>6. Working' => Sound(root)'
  <2> SUFFICES ASSUME Working' PROVE Sound(root)'
    OBVIOUS
  <2>1. CASE Working /\ UNCHANGED <<root, live>>
    <3>1. PICK x \in Records : x = root
      BY DEF Typed
    <3>2. live \in Runs /\ tries[live] \in {1, 2} /\ x.run = live /\ x.att = tries[live]
      BY <2>1, <3>1 DEF Working, AtWrite, Shaped, Typed, Runs
    <3>3. Sound(x) /\ (Enter /\ Own(x) => x.closed = "open")
      BY <2>1, <3>1, EnterOpen DEF Kept
    <3> QED
      BY <2>1, <3>1, <3>2, <3>3, SoundStable, SoundRoot
  <2>2. CASE AtWrite /\ root' = cand
    <3>1. PICK x \in Records : x = cand
      BY <1>1, <2>2
    <3> QED
      BY <1>2, <2>2, <3>1, SoundRoot
  <2> QED
    BY <2>1, <2>2, ProcessStep
<1>7. pc' = "archive" => CanTakeOver(root)' /\ WellFormed(root)' /\ Over(Ref(root))'
  <2>1. CASE Load /\ pc' = "archive"
    BY <2>1, TakeoverOver
  <2>2. CASE pc = "archive" /\ UNCHANGED root
    <3>1. PICK x \in Records : x = root
      BY DEF Typed
    <3>2. CanTakeOver(x) /\ WellFormed(x) /\ Over(Ref(x))
      BY <2>2, <3>1 DEF Kept
    <3>3. Over(Ref(x))'
      BY <3>2, OverStable
    <3> QED
      BY <2>2, <3>1, <3>2, <3>3 DEF CanTakeOver, WellFormed, Over, Ref
  <2> QED
    BY <2>1, <2>2, ProcessStep
<1> QED
  BY <1>3, <1>4, <1>5, <1>6, <1>7 DEF Kept, WellFormed

LEMMA AskedNext == Typed /\ Shaped /\ Shown /\ Asked /\ [Next]_vars => Asked'
<1> SUFFICES ASSUME Typed, Shaped, Shown, Asked, [Next]_vars PROVE Asked'
  OBVIOUS
<1>1. CASE Enter
  <2>1. live \in Runs /\ tries[live] \in {1, 2} /\ task[live] = "review"
    BY <1>1 DEF Enter, CanEnter, Holds, Shown, Shaped, Typed, Runs
  <2>2. entered' = entered \cup {<<live, tries[live]>>} /\ UNCHANGED <<live, tries, task>>
        /\ "enter" \in did'
    BY <1>1 DEF Enter, runs
  <2> QED
    BY <2>1, <2>2 DEF Asked
<1>2. CASE UNCHANGED entered
  <2>1. ASSUME NEW e \in entered
        PROVE  e \in Runs \X {1, 2} /\ e[2] <= tries'[e[1]] /\ task'[e[1]] = "review"
    <3>1. e \in Runs \X {1, 2} /\ e[2] <= tries[e[1]] /\ task[e[1]] = "review"
      BY DEF Asked
    <3>2. e[1] \in Runs /\ e[2] \in Nat /\ e[2] > 0
      BY <3>1
    <3>3. tries[e[1]] \in Nat /\ tries'[e[1]] \in Nat /\ tries[e[1]] <= tries'[e[1]]
      BY <3>2, TriesTyped
    <3>4. tries[e[1]] > 0
      BY <3>1, <3>2, <3>3
    <3> QED
      BY <3>1, <3>2, <3>3, <3>4, Course
  <2>2. ASSUME live' # 0, <<live', tries'[live']>> \in entered PROVE "enter" \in did'
    <3>1. CASE UNCHANGED <<live, tries>> /\ ("enter" \in did => "enter" \in did')
      BY <2>2, <3>1 DEF Asked
    <3>2. ASSUME NEW r \in Runs, Rerun(r) \/ \E t \in Tasks : Start(r, t) PROVE FALSE
      <4>1. live' = r /\ tries' = [tries EXCEPT ![r] = tries[r] + 1] /\ tries[r] \in Nat
        BY <3>2 DEF Rerun, Start, Begins, Typed
      <4> DEFINE e == <<r, tries[r] + 1>>
      <4>2. e \in entered
        BY <2>2, <4>1 DEF Typed
      <4>3. e[2] <= tries[e[1]]
        BY <4>2 DEF Asked
      <4> QED
        BY <4>1, <4>3
    <3>3. ~End
      BY <2>2 DEF End
    <3>4. Push \/ Land \/ Load \/ Archive \/ ArchiveUncertain \/ Find \/ Fail \/ Write
            \/ Confirm \/ Enter \/ Post \/ Readmit \/ Receipt \/ (\E k \in Kinds : Prepare(k))
            \/ UNCHANGED vars
          => UNCHANGED <<live, tries>> /\ ("enter" \in did => "enter" \in did')
      BY DEF Push, Land, Load, Archive, ArchiveUncertain, Find, Fail, Write, Confirm,
             Enter, Post, Readmit, Receipt, Prepare, vars, runs, process
    <3> QED
      BY <3>1, <3>2, <3>3, <3>4 DEF Next
  <2> QED
    BY <1>2, <2>1, <2>2 DEF Asked
<1> QED
  BY <1>1, <1>2, Course

LEMMA StaysClosedNext ==
  Typed /\ Shaped /\ Distinct /\ Serial /\ Left /\ [Next]_vars => StaysClosed'
<1> SUFFICES ASSUME Typed, Shaped, Distinct, Serial, Kept, Shown, StaysClosed, [Next]_vars,
                    NEW x \in Written', Own(x)', x.closed # "open",
                    pc' \notin {"confirm", "stuck"}
             PROVE  root'.closed # "open"
  BY DEF StaysClosed, Left
<1>1. x \in Written
  BY WrittenBefore DEF Write
<1>2. UNCHANGED <<live, tries>>
  <2>1. ASSUME NEW r \in Runs, Rerun(r) \/ \E t \in Tasks : Start(r, t) PROVE FALSE
    <3>1. live' = r /\ tries' = [tries EXCEPT ![r] = tries[r] + 1] /\ tries[r] \in Nat
      BY <2>1 DEF Rerun, Start, Begins, Typed
    <3>2. x.run = r /\ x.att = tries[r] + 1
      BY <3>1 DEF Own, Typed
    <3> QED
      BY <1>1, <3>1, <3>2 DEF Distinct
  <2>2. ~End
    BY DEF End, Own
  <2>3. Push \/ Land \/ Load \/ Archive \/ ArchiveUncertain \/ Find \/ Fail \/ Write
          \/ Confirm \/ Enter \/ Post \/ Readmit \/ Receipt \/ (\E k \in Kinds : Prepare(k))
          \/ UNCHANGED vars
        => UNCHANGED <<live, tries>>
    BY DEF Push, Land, Load, Archive, ArchiveUncertain, Find, Fail, Write, Confirm,
           Enter, Post, Readmit, Receipt, Prepare, vars, runs, process
  <2> QED
    BY <2>1, <2>2, <2>3 DEF Next
<1>3. Own(x)
  BY <1>2 DEF Own
<1>4. CASE Confirm
  <2>1. Discover = cand /\ root' = cand /\ live # 0 /\ pc = "confirm"
    BY <1>4 DEF Confirm, Rests
  <2>2. Len(comments) = 1 /\ comments[1] = cand /\ \A w \in Underway : ~Own(w.record)
    BY <2>1, Confirmed
  <2>3. \A i \in 1 .. Len(comments) : comments[i] = cand
    BY <2>2
  <2>4. x = cand
    BY <1>1, <1>3, <2>2, <2>3 DEF Written
  <2> QED
    BY <2>1, <2>4
<1>5. pc # "stuck"
  BY <1>2, <1>3
  DEF Next, Push, Land, End, Load, Archive, ArchiveUncertain, Find, Fail, Write, Confirm, Enter,
      Post, Readmit, Receipt, Prepare, Rerun, Start, Begins, vars, runs, process, Own
<1>6. CASE ~Confirm
  <2>1. pc # "confirm"
    BY <1>2, <1>3, <1>6
    DEF Next, Push, Land, End, Load, Archive, ArchiveUncertain, Find, Fail, Write, Enter,
        Post, Readmit, Receipt, Prepare, Rerun, Start, Begins, vars, runs, process, Own
  <2>2. root.closed # "open" /\ pc \notin {"load", "archive"}
    BY <1>1, <1>3, <1>5, <2>1 DEF StaysClosed, Serial, Written, Own
  <2>3. UNCHANGED root
    BY <1>2, <1>3, <1>6, <2>2
    DEF Next, Push, Land, End, Load, Archive, ArchiveUncertain, Find, Fail, Write, Enter,
        Post, Readmit, Receipt, Prepare, Rerun, Start, Begins, vars, runs, process, Own
  <2> QED
    BY <2>2, <2>3
<1> QED
  BY <1>4, <1>6

\* The first record of a review is of no round, a published one, or its own.
LEMMA BootAimed ==
  ASSUME Typed, Shaped, Kept, (Load /\ pc' # "archive") \/ Archive
  PROVE  Aimed(cand)'
<1>1. UNCHANGED <<live, task, aim>>
  BY DEF Load, Archive, runs
<1>2. CASE Load /\ kind' = "enrol"
  <2>1. PICK r \in Records : cand' = Change("enrol", r)
    BY <1>2, LoadTyped
  <2>2. cand'.tx = Nothing
    BY <2>1, ChangeFields DEF Kinds
  <2> QED
    BY <2>2 DEF Aimed, Nothing
<1>3. CASE Load /\ kind' = "recover"
  <2>1. PICK r \in Records : CanRecover(r) /\ cand' = Change("recover", r)
    BY <1>3, LoadTyped
  <2>2. cand'.tx = r.tx
    BY <2>1, ChangeFields DEF Kinds, SameRound
  <2> QED
    BY <1>1, <2>1, <2>2 DEF Aimed, CanRecover
<1>4. CASE Archive
  <2>1. CanTakeOver(root) /\ Discover = root /\ cand' = Change("rollover", root)
    BY <1>4 DEF Archive, Kept
  <2>2. root \in Written
    BY <2>1, DiscoverOwned DEF CanTakeOver, Typed, Written
  <2>3. cand'.tx = root.tx
    BY <2>1, ChangeFields DEF Kinds, SameRound, Typed
  <2>4. root.tx.phase \in {"none", "published"}
    BY <2>1, <2>2 DEF Kept, Sound, CanTakeOver
  <2> QED
    BY <2>3, <2>4 DEF Aimed
<1> QED
  BY <1>2, <1>3, <1>4, LoadTyped

\* What a process is about to write shows what it has done.
LEMMA PreparedShown ==
  ASSUME Typed, Shaped, Kept, Shown, NEW k \in Kinds, Prepare(k)
  PROVE  Shown'
<1>1. k \in Kinds \ BootKinds /\ root \in Records /\ May(k) /\ pc = "idle" /\ kind' = k
      /\ cand' = Change(k, root) /\ AtWrite' /\ Working /\ pc' = "find"
      /\ UNCHANGED <<live, task, aim, root, did, posted, receipts>>
  BY DEF Prepare, May, BootKinds, Typed, runs, ghosts, AtWrite, Working
<1>2. "cleanup" \in did => CleanedUpRecord(cand')
  <2>1. "cleanup" \in did => k \in {"close", "charge", "charged", "admit", "begin", "apply", "terminal"}
    BY <1>1 DEF Shown, CleanedUpRecord, May, Holds, Kinds, BootKinds
  <2> QED
    BY <1>1, <2>1, ChangeFields DEF Shown, CleanedUpRecord, SameRound
<1>3. k \in {"reserve", "cleanup"} => task[live] = "review"
  BY <1>1 DEF Shown, May, Review, Holds
<1>4. "admit" \in did => cand'.action.phase # "none"
  <2>1. CASE k \in {"admit", "begin", "terminal"}
    BY <1>1, <2>1, ChangePhase
  <2>2. CASE k \notin {"admit", "begin", "terminal"}
    BY <1>1, <2>2, ChangePhase DEF Shown, BootKinds
  <2> QED
    BY <2>1, <2>2
<1>5. Aimed(cand)'
  <2>1. Aimed(root)
    BY <1>1 DEF Shown
  <2>2. CASE k \in {"reserve", "cleanup", "attach", "publish"}
    BY <1>1, <2>2, ChangeFields DEF Aimed, Nothing
  <2>3. CASE k = "retain"
    <3>1. root.tx.phase = "analysis"
      BY <1>1, <2>3 DEF May, Holds, Shown, Analysed
    <3> QED
      BY <1>1, <2>1, <2>3, <3>1, ChangeFields DEF Aimed, May, Holds
  <2>4. CASE k \notin {"reserve", "cleanup", "attach", "publish", "retain"}
    <3>1. cand'.tx = root.tx
      BY <1>1, <2>4, ChangeFields DEF SameRound, Kinds, BootKinds
    <3> QED
      BY <1>1, <2>1, <3>1 DEF Aimed
  <2> QED
    BY <2>2, <2>3, <2>4
<1>6. k = "publish" => "post" \in did
  BY <1>1 DEF May
<1>7. Aimed(root)'
  BY <1>1 DEF Shown, Aimed
<1>8. /\ "cleanup" \in did' => CleanedUpRecord(root)' /\ (AtWrite' => CleanedUpRecord(cand)')
      /\ {"reserve", "cleanup"} \cap did' # {} \/ (AtWrite' /\ kind' \in {"reserve", "cleanup"}) =>
           task'[live'] = "review"
  BY <1>1, <1>2, <1>3 DEF Shown, CleanedUpRecord
<1>9. /\ pc' # "idle" /\ kind' \notin BootKinds
      /\ "admit" \in did' =>
           root'.action.phase # "none" /\ (AtWrite' => cand'.action.phase # "none")
  BY <1>1, <1>4 DEF Shown
<1>10. /\ "publish" \in did' \/ (AtWrite' /\ kind' = "publish") => "post" \in did'
       /\ "post" \in did' => aim'[live'] \in posted'
       /\ "receipt" \in did' => receipts'[live'] > 0
  BY <1>1, <1>6 DEF Shown
<1>11. "enter" \in did => Analysed(cand')
  <2>1. Analysed(root) => (k = "publish" => root.hold # "review")
    BY <1>1 DEF Analysed, May
  <2>2. CASE k \in {"attach", "retain", "publish", "cleanup", "charge", "charged"}
    BY <1>1, <2>1, <2>2, ChangeFields DEF Shown, Analysed
  <2>3. CASE k = "reserve"
    BY <1>1, <2>3 DEF May
  <2>4. CASE k \notin {"reserve", "attach", "retain", "publish", "cleanup", "charge", "charged"}
    <3>1. cand'.tx = root.tx /\ cand'.hold = root.hold
      BY <1>1, <2>4, ChangeFields DEF SameRound, Kinds, BootKinds
    <3> QED
      BY <1>1, <3>1 DEF Shown, Analysed
  <2> QED
    BY <2>2, <2>3, <2>4
<1>12. "enter" \in did' => Analysed(root)' /\ (AtWrite' => Analysed(cand)')
  BY <1>1, <1>11 DEF Shown, Analysed
<1> QED
  BY <1>5, <1>7, <1>8, <1>9, <1>10, <1>12 DEF Shown

LEMMA ShownNext ==
  Typed /\ Shaped /\ Distinct /\ Ordered /\ Left /\ [Next]_vars => Shown'
<1> SUFFICES ASSUME Typed, Shaped, Distinct, Ordered, Kept, Shown, Asked, [Next]_vars
             PROVE  Shown'
  BY DEF Left
<1>1. CASE UNCHANGED <<live, task, aim, did, root, kind, cand, posted, receipts>>
             /\ (AtWrite' => AtWrite) /\ (Working' => Working) /\ (pc' = "idle" => pc = "idle")
  BY <1>1 DEF Shown, Aimed, CleanedUpRecord, Analysed
<1>2. Push \/ Land \/ Find \/ Write \/ UNCHANGED vars
        => UNCHANGED <<live, task, aim, did, root, kind, cand, posted, receipts>>
             /\ (AtWrite' => AtWrite) /\ (Working' => Working) /\ (pc' = "idle" => pc = "idle")
  BY DEF Push, Land, Find, Write, vars, runs, process, ghosts, AtWrite, Working
<1>3. CASE End \/ \E r \in Runs : Rerun(r) \/ \E t \in Tasks : Start(r, t)
  <2>1. did' = {} /\ pc' = "load"
    BY <1>3 DEF End, Rerun, Start, Begins, Shaped
  <2> QED
    BY <2>1 DEF Shown, AtWrite, Working
<1>4. CASE (Load /\ pc' # "archive") \/ Archive
  <2>1. did' = {} /\ kind' \in BootKinds /\ pc' \in {"find", "write"}
    BY <1>4, LoadTyped DEF Load, Archive, Shaped, BootKinds
  <2>2. cand'.closed = "open" /\ Aimed(cand)'
    BY <1>4, BootSound, BootAimed
  <2>3. ~Working' /\ kind' \notin {"reserve", "cleanup", "publish"}
    BY <2>1 DEF Working, AtWrite, BootKinds
  <2> QED
    BY <2>1, <2>2, <2>3 DEF Shown
<1>5. CASE (Load /\ pc' = "archive") \/ ArchiveUncertain
  <2>1. did' = {} /\ pc' \in {"archive", "stuck"}
    BY <1>5 DEF Load, ArchiveUncertain, Shaped
  <2> QED
    BY <2>1 DEF Shown, AtWrite, Working
<1>6. ASSUME NEW k \in Kinds, Prepare(k) PROVE Shown'
  BY <1>6, PreparedShown
<1>7. CASE Fail
  <2>1. UNCHANGED <<live, task, aim, root, posted, receipts>> /\ did' = did \cup {"failed"}
        /\ pc' = "idle" /\ ~AtWrite' /\ Working
    BY <1>7 DEF Fail, Holds, Rests, runs, ghosts, Shaped, AtWrite, Working
  <2> QED
    BY <2>1 DEF Shown, Aimed, CleanedUpRecord, Analysed
<1>8. CASE Confirm /\ Discover = cand
  <2>1. UNCHANGED <<live, task, aim, posted, receipts>> /\ root' = cand /\ pc' = "idle"
        /\ AtWrite /\ ~AtWrite' /\ live \in Runs
        /\ did' = IF kind \in BootKinds THEN did ELSE did \cup {kind}
    BY <1>8 DEF Confirm, Rests, runs, ghosts, AtWrite, BootKinds, Typed, Runs
  <2>2. cand = Change(kind, root) /\ root \in Records /\ kind \in Kinds
    BY <2>1 DEF Shaped, Typed
  <2>3. "cleanup" \in did' => CleanedUpRecord(cand)
    <3>1. kind = "cleanup" => CleanedUpRecord(cand)
      BY <2>2, ChangeFields DEF CleanedUpRecord, Nothing
    <3> QED
      BY <2>1, <3>1 DEF Shown
  <2>4. "admit" \in did' => cand.action.phase # "none"
    <3>1. kind = "admit" => cand.action.phase # "none"
      BY <2>2, ChangeFields
    <3> QED
      BY <2>1, <3>1 DEF Shown
  <2>5. did' = {} => cand.closed = "open"
    BY <2>1 DEF Shown
  <2>6. "enter" \in did' => Analysed(cand)
    BY <2>1, <2>2 DEF Shown, Kinds
  <2>7. {"reserve", "cleanup"} \cap did' # {} => task[live] = "review"
    BY <2>1 DEF Shown
  <2>8. /\ "publish" \in did' => "post" \in did'
        /\ "post" \in did' => aim[live] \in posted
        /\ "receipt" \in did' => receipts[live] > 0
    BY <2>1, <2>2 DEF Shown, Kinds
  <2>9. Aimed(root)'
    BY <2>1 DEF Shown, Aimed
  <2> QED
    BY <2>1, <2>3, <2>4, <2>5, <2>6, <2>7, <2>8, <2>9
    DEF Shown, CleanedUpRecord, Analysed
<1>9. CASE Confirm /\ Discover # cand
  BY <1>9 DEF Confirm, Rests, runs, ghosts, Shown, AtWrite, Working, CleanedUpRecord, Analysed
<1>10. CASE Enter
  <2>1. UNCHANGED <<live, task, aim, root, posted, receipts>> /\ did' = did \cup {"enter"}
        /\ pc = "idle" /\ pc' = "idle" /\ root.tx.phase = "analysis" /\ ~AtWrite' /\ Working
    BY <1>10 DEF Enter, CanEnter, runs, AtWrite, Working
  <2> QED
    BY <2>1 DEF Shown, Aimed, CleanedUpRecord, Analysed
<1>11. CASE Post
  <2>1. UNCHANGED <<live, task, aim, root, receipts>> /\ posted' = posted \cup {root.tx.head}
        /\ did \subseteq did' /\ did' \subseteq did \cup {"post"} /\ pc = "idle" /\ ~AtWrite'
        /\ Working /\ task[live] = "review" /\ root.tx.phase = "pending"
        /\ (pc' = "idle" => did' # {}) /\ pc' \in {"idle", "stuck"}
    BY <1>11 DEF Post, CanPost, Review, runs, AtWrite, Working
  <2>2. root.tx.head = aim[live]
    BY <2>1 DEF Shown, Aimed
  <2> QED
    BY <2>1, <2>2 DEF Shown, Aimed, CleanedUpRecord, Analysed
<1>12. CASE Readmit
  <2>1. UNCHANGED <<live, task, aim, root, posted, receipts>> /\ did' = did \cup {"admit"}
        /\ pc = "idle" /\ pc' = "idle" /\ root.action.phase = "pending" /\ ~AtWrite' /\ Working
    BY <1>12 DEF Readmit, CanReadmit, Readmits, runs, ghosts, AtWrite, Working
  <2> QED
    BY <2>1 DEF Shown, Aimed, CleanedUpRecord, Analysed
<1>13. CASE Receipt
  <2>1. UNCHANGED <<live, task, aim, root, posted>> /\ did \subseteq did' /\ did # {}
        /\ did' \subseteq did \cup {"receipt"} /\ ~AtWrite' /\ Working /\ live \in Runs
        /\ receipts' = [receipts EXCEPT ![live] = receipts[live] + 1]
    BY <1>13 DEF Receipt, CanReceipt, runs, AtWrite, Working, Typed, Runs
  <2>2. receipts'[live] > 0
    BY <2>1 DEF Typed
  <2> QED
    BY <2>1, <2>2 DEF Shown, Aimed, CleanedUpRecord, Analysed
<1> QED
  BY <1>1, <1>2, <1>3, <1>4, <1>5, <1>6, <1>7, <1>8, <1>9, <1>10, <1>11, <1>12, <1>13
  DEF Next

LEMMA InitLeft == Init => Left
<1> SUFFICES ASSUME Init PROVE Left
  OBVIOUS
<1>1. Kept
  BY DEF Init, Kept, Written, Underway, AtWrite, Working
<1>2. Shown
  BY DEF Init, Shown, AtWrite, Working
<1>3. Asked /\ StaysClosed
  BY DEF Init, Asked, StaysClosed, Written, Underway
<1> QED
  BY <1>1, <1>2, <1>3 DEF Left

All == IInv /\ Once /\ Left

LEMMA SpecAll == Spec => []All
<1>1. Init => All
  BY InitTyped, InitShaped, InitDistinct, InitOnce, InitLeft DEF All, IInv
<1>2. All /\ [Next]_vars => All'
  <2> SUFFICES ASSUME All, [Next]_vars PROVE All'
    OBVIOUS
  <2>1. Typed /\ Shaped /\ Distinct /\ Serial /\ Once /\ Ordered /\ Left /\ Shown
        /\ Asked
    BY DEF All, IInv, Once, Left
  <2>2. IInv'
    BY <2>1, TypedNext, ShapedNext, DistinctNext, SerialNext DEF IInv
  <2>3. Once'
    BY <2>1, OrderedNext, MarkedNext, SpentNext, EffectOnceNext DEF Once
  <2>4. Left'
    BY <2>1, KeptNext, ShownNext, AskedNext, StaysClosedNext DEF Left
  <2> QED
    BY <2>2, <2>3, <2>4 DEF All
<1> QED
  BY <1>1, <1>2, PTL DEF Spec

\* Whatever is lost, late or killed, every record that GitHub holds or may
\* still apply is one that its constructor accepts.
THEOREM HostedTypeOK == Spec => []TypeOK
<1>1. All => TypeOK
  <2> SUFFICES ASSUME Typed, Kept PROVE TypeOK
    BY DEF All, IInv, Left
  <2>1. \A i \in 1 .. Len(comments) : comments[i] \in Records /\ WellFormed(comments[i])
    <3>1. \A i \in 1 .. Len(comments) : WellFormed(comments[i])
      BY DEF Kept, Written, Sound
    <3> QED
      BY <3>1, CommentTyped
  <2>2. \A w \in flight : w.record \in Records /\ WellFormed(w.record)
    BY DEF Typed, Kept, Writes
  <2> QED
    BY <2>1, <2>2 DEF Typed, TypeOK
<1> QED
  BY <1>1, SpecAll, PTL

\* The receipt that a maintainer sees is posted after the mark that the command
\* has begun was confirmed; a second attempt that finds the mark does nothing,
\* and no write of the first can take the mark back.
THEOREM CommandOnce == Spec => []EffectOnce
<1>1. All => EffectOnce
  BY DEF All, Once
<1> QED
  BY <1>1, SpecAll, PTL

\* A run takes the session over only when the run before it is archived and
\* has done what it was for, and it stays so: the earlier run is never
\* attempted again in the attempt that the record names.
THEOREM NothingLost == Spec => []TakeoverLosesNothing
<1>1. All => TakeoverLosesNothing
  <2> SUFFICES ASSUME Typed, Kept, EffectOnce, NEW i \in 1 .. Len(comments),
                      comments[i].prev # NoRef
               PROVE  LET p == comments[i].prev IN
                      /\ \E c \in carriers : c.ref = p
                      /\ task[p.run] # "review" => receipts[p.run] = 1
                      /\ <<p.run, p.att>> \in entered => aim[p.run] \in posted
    BY DEF All, IInv, Left, Once, TakeoverLosesNothing
  <2>1. Over(comments[i].prev) /\ \E c \in carriers : c.ref = comments[i].prev
    BY DEF Kept, Written, Sound
  <2>2. task[comments[i].prev.run] # "review" => receipts[comments[i].prev.run] = 1
    BY <2>1 DEF Over, EffectOnce, Typed
  <2> QED
    BY <2>1, <2>2 DEF Over
<1> QED
  BY <1>1, SpecAll, PTL
=============================================================================

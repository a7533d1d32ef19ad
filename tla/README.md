# ReviewSensei in TLA+

Specifications, model-checking configurations and machine-checked proofs for
ReviewSensei (the repository under `src/`), an engine that reviews pull
requests with a model provider, keeps the state of each pull request's review
in a session record, and publishes to GitHub through an adapter and a
stateless Cloudflare Worker. Paths below are relative to the repository:
`core/` stands for `src/review_sensei/`, `github/` for
`packages/python/review-sensei-github/src/review_sensei_github/`, `worker/`
for `deploy/cloudflare/src/`.

How to run: `tlc -workers 2 -config <cfg> <module>` for the runs below,
`tlapm <module>` for the modules whose names end in `Proofs`.

## 1. Inventory

Components, with the state each keeps, what moves it, and where it is hard.
`PROJECT.json` has the same list with the files of each.

| Component | State | Operations and partners | What is hard, and what makes it correct | Here |
| --- | --- | --- | --- | --- |
| Provider admission (`core/concurrency.py`) | counters of active leases and waiters behind a mutex | acquire, try_acquire, release by threads of one process | cancel events set outside the mutex, deadlines, polling, two ways to release a lease: counters agree with threads, nobody starves beside a free slot | ProviderAdmission |
| Caller API allowance (`github/api_run_*.py`, `caller_operation.py`, `review_run.py`) | accounting inside the session record, and its copy in the memory of the attempt's process | every GitHub request of a run is counted; record writes carry the count | answers lost, writes applied late, a process that dies knowing more than the record: the allowance bounds what is really sent, and the requests for confirming and closing are still there when needed | ApiWork, ApiRun |
| Session record (`core/session.py`) | one record per pull request: generation, rounds, failed attempts, reservation, transaction, grants, pause | reserve, attach, checkpoint, commit, abort, pause, continue, grant; round admission | long legal sequences, idempotence by reservation ids, counters at their bound | SessionRecord |
| Local session ledger (`core/session.py`) | a record file and an enrolment witness | load, initialise, re-enrol, replace (load, fence, write, read back) | failed and half-done file operations, deletion, expiry, unlocked replaces: read by whoever has only the record, it is a session of single legal operations | LocalSession, SessionPromise |
| CLI review (`core/cli.py`, `core/disposition.py`) | an invocation's reservation, transaction and result | admission, transaction, provider, checkpoint, cleanup; maintainer commands | exceptions and signals between any two steps, cleanup of what is still its own | LocalSession |
| Hosted session ledger (`github/session_ledger.py`) | the same record in a GitHub comment | discovery, create, PATCH, read-back | no compare-and-swap, create races, lost answers: one comment is the record, and a write nobody confirmed is not built upon | HostedRuns, the requests of its writes in ApiRun |
| Reservation recovery (`github/reservation_recovery.py`) | a dead run's hold | takeover on GitHub's evidence that the run is over | the run path refuses it, see section 6 | not modelled |
| Publication frontier (`core/publication_staging.py`, `github/native_group_publication.py`) | attempted and receipted parts of a review | attempt before dispatch, receipt from read-back | a crash or a lost answer between the two, parts recognised by what they look like: objects in order, once, and acknowledged only when complete | PublicationStaging, GroupPublication, PublicationPromise |
| Review publication (`github/publication.py`) | a review on GitHub and its marker | POST, reconciliation of ambiguous answers | the effect that may or may not have happened | not modelled (the staged publication is) |
| Review and action lifecycle, run history and rollover (`github/review_run.py`, `action_*.py`, `api_run_history.py`) | phases of a run; archives of earlier runs | startup, analysis, publication, closure, abort; takeover of the record by the next run | one effect for one command, across attempts; a run gives way only with nothing left to do | HostedRuns, phases and allowance in ApiRun |
| Merge gate and approval (`github/approval*.py`, `checks.py`) | approval decision, check run | head and threads move while it decides | stale evidence | not modelled |
| Assessment queue (`core/assessment_queue.py`, `github/*assessment*.py`) | queue of maintainer replies | insert, assess, retire; fenced by the session generation | stale generation, lost mutation | not modelled |
| Discovery and reassessment work (`core/`) | batches and their receipts | run a batch, keep a receipt, skip on rerun | partial results, changed inputs | not modelled |
| Worker repository setup (`worker/github-app.ts`, `setup-step.ts`) | none; the repository is the state | inspect, branch, pull request; a walk by self-calls | concurrent deliveries, lost answers, people changing the repository meanwhile | RepositorySetup, SetupWalk |
| Worker token broker (`worker/token-broker.ts`) | none; deadlines and a dispatch ceiling per exchange | exchange an OIDC token for a capability | deadline against late answers | not modelled |
| Review engine, human inventory, conversation replies, learning pull requests, quarantine and restart, providers, configuration, release tooling | see `PROJECT.json` | | sequential transformations, I/O, registries that ship empty, or build scripts | not modelled |

How they interact: a hosted run is a job of a GitHub workflow. It obtains a
token from the broker, opens the session comment through the hosted ledger,
starts its API accounting inside that record, reserves a round, runs the
engine (whose provider calls pass the admission), checkpoints the result,
publishes it, and closes its accounting. A local review does the same against
the local ledger without accounting or publication. The Worker handles
webhooks only to set repositories up.

## 2. Modules

| Module | Content |
| --- | --- |
| `ProviderAdmission` | threads, the mutex, the polling wait; `MCProviderAdmission` instantiates it |
| `ApiWork` | the accounting record and its pure operations: grants of each block, reservation, charging, successor check (`api_run_budget.py`, `api_run_plan.py`) |
| `ApiRun` | EXTENDS ApiWork: attempts, requests, record writes and their confirmation; `MCApiRun` |
| `SessionRecord` | the session record, its transitions and the admission of rounds |
| `LocalSession` | EXTENDS SessionRecord: ledger files, invocations, faults; `MCLocalSession` |
| `SessionPromise` | what a session promises whoever pays for the analyses and reads their results; `LocalSession` implements it |
| `PublicationStaging` | the frontier a staged publication keeps in the session record, and its legal successors |
| `GroupPublication` | EXTENDS PublicationStaging: the walk of `publish_final` by processes that die, over a GitHub that loses and delays; `MCGroupPublication` |
| `PublicationPromise` | what the reader of a pull request is promised of a publication in several objects; `GroupPublication` implements it |
| `HostedRuns` | the workflow runs of one pull request, one after another, over the record in the session comment |
| `RepositorySetup` | one repository's setup by concurrent deliveries; `MCRepositorySetup` |
| `SetupWalk` | the walk of one delivery over the listing of an installation |
| `ProviderAdmissionProofs`, `ApiRunProofs`, `LocalSessionProofs`, `LocalSessionRoundProofs`, `RepositorySetupProofs`, `SetupWalkProofs`, `GroupPublicationProofs`, `HostedRunsProofs` | theorems |

Definitions whose names end in `Slip` are mistakes of the kind a change to the
code could make; no specification uses them. Each is paired in `PROJECT.json`
with the property that refutes it.

### ProviderAdmission

A critical section under `_lock` is one action, except that a cancel event is
set without the lock and can therefore fall between the two tests of it in
`_grant_unless_cancelled_locked`; the pc "granting" keeps the mutex there. A
waiter's wake-up is any poll: the model does not distinguish a notification
from the end of the poll interval, since the code re-tests everything on both.
`release` and the lease's `__exit__` are separate releasers of one lease.

### ApiWork and ApiRun

`ApiWork` is the account: what is left in each block (ordinary work and
terminal work of each attempt), the owner, how it was closed, and the
successor check between two accounts. `ApiRun` lets attempt 1 and then attempt
2 of a workflow run execute: `Start` reads startup requests from the fixed
slots, `Load` finds or misses the record, `Begin(kind)` opens a
`CallerOperation` for one record mutation, `Scan` is a fence read, `Prepare`
and `Write` send the PATCH, `Echo` is its confirming read, `Reconcile` the
second look after a lost one, `Land` GitHub applying an unanswered write later,
`End` the death of the process at any point. `EnterProvider`, `BusinessWrite`
and `BeginTerminal` are the points of the review run that change what may still
be spent. Details that matter:

* A hosted run has no broker in its ledger, so `recover_abandoned_analysis` is
  not one of its mutations there.
* A lost echo during startup is not reconciled, and neither is the activation
  of a recovery: those processes are stuck, and are shown as such.
* "analysis_abort" names its owner, so the startup of a rerun is refused after
  it, and a published run is refused at bootstrap.
* The reads of each phase are at least one (`Scan` may repeat) rather than the
  exact number; the successor of a run and its archive are in `HostedRuns`.

### SessionRecord and LocalSession

A reservation id stands for the digest the code computes: the work (head,
policy and evidence), the command that granted an extra round, and whether it
is the slot of a failed attempt. A transaction is represented by the id of its
reservation. `born` is `created_at`, `baseline` the work of the last complete
baseline. `HeadOf` says which works belong to one head.

`LocalSession` has one record of state per invocation. A change of the record
is the four steps of `replace`; `Accepts` and `Outcome` say what each caller
requires of the record and makes of it. A review goes through `Start` (load and
decide), `CreateWitness` and `LinkRecord` when it enrols, the replaces
"reserve", "attach", `Analyse`, "checkpoint", and after a failure `Cleanup`,
"abort" and, if the attempt is charged, "chargeReserve" and "chargeCommit".
Faults are actions: `IOError` at any file operation, `Interrupt` (SIGINT, or
SIGTERM delivered as KeyboardInterrupt) and `Crash` anywhere, `Expire`,
`Delete`. Conventions:

* `Exclusive = TRUE` keeps replaces from overlapping: the documented contract
  of one writer at a time, and the in-memory ledger. `FALSE` is the raw file
  replace, which has no lock.
* `max_failed` of the policy and `DEFAULT_MAX_FAILED_ATTEMPTS` are one
  constant; at most one grant is open per head.
* `attempts`, `interrupted`, `finished`, `holder`, `leaked` are history: the
  code does not keep them, the properties compare the record with them.
* A hold is leaked by a crash, and by an error or interrupt inside admission
  or cleanup (`held_reservation` is assigned only once the preparation has
  returned). A leaked local hold blocks the session until it expires.
* A pause between reservation and checkpoint advances the generation, so the
  checkpoint is refused and the attempt charged.

`SessionPromise` has no generations, no replace in four steps and no cleanup: the
session is what a reader can tell of the record (`Seen`: the hold, the last id,
the result awaiting its publication, the counts, the open grants, the pause), a
round is held, analysed and ended, and the counts of failures and of licences to
enrol stand beside it. Its operations are `Enrol`, `TakeUp` (the hold of a round
within the budget of its head, or of a charge), `Begin` and `Stop` of the one
analysis, the four ends of a hold (`Complete`, `Partial`, `GiveUp`, `Charge`), and
`Pause`, `Continue` and `Grant`. A partial result and a charge need a failure that
has not been counted before. `Promised` is the refinement: a step of a replace is
one of these operations or nothing at all.

Not modelled here: publication phases (a local ledger never publishes),
irrecoverable transactions, rescans and quarantine, the four-grant storage
bound, the migration of version 0.1 records, `MAX_GENERATION`, re-enrolment of
a live session with a pending transaction.

### PublicationStaging, GroupPublication and PublicationPromise

A final review that does not fit one object is published as a sequence of
parts, a manifest comment that lists them, and the review that closes them.
`PublicationStaging` is the frontier in the session record: the receipts, the
attempt that is outstanding, and what `require_staging_successor` accepts after
it. `GroupPublication` is the walk: `Start` reads the retained frontier and
proposes the first attempt or goes to the census of one that is outstanding;
`ReadRecord`, `WriteAnswered`, `WriteUnanswered` and `ReadBack` store a frontier
in the session comment; `RequireClaim` rereads it before the one POST of an
object (`PostAnswered`, `PostUnanswered`); `Census` looks for the object among
those visible on the pull request and proposes its receipt together with the
next attempt. `LatePost`, `LostPost`, `LatePatch` and `LostPatch` are what
GitHub makes of the requests nobody got an answer to, `Crash` the end of a
process anywhere. Details that matter:

* The census first selects parts by author, head and number of comments, less
  those already receipted, and requires a single candidate: an earlier review
  of the same head, or a copy made by a request thought lost, can look the same.
  The comments of the candidate are then read back (`PartFound`).
* One process lives at a time. The jobs that review a pull request or carry out
  a command for it share the concurrency group of
  `.github/workflows/review-sensei-run.yml:650` and `:1303`; a process that
  has been killed still has its requests under way.
* In production `ApiRunSessionLedger` also refuses a session root that is not
  the one it confirmed last. The model leaves that fence out, so what it shows
  is the more conservative: a late write may take a record back under the feet
  of a live process.
* A lost POST whose object never appears leaves the publication stuck for ever:
  the attempt stays outstanding and is neither found nor repeated (ADR 0117).
  No liveness is claimed.

`PublicationPromise` keeps only what a reader sees: the objects in the order of
the plan, each once, and the acknowledgement only when all are there. A late
write that takes an attempt back (`rolledBack`) excuses repetitions from then
on, but never an object before the ones it builds on. `Promised` is the
refinement, a property of the run and a theorem.

### HostedRuns

A run is a workflow run of the pull request, for a review or for a command; it
is attempted at most twice, each attempt by one process. `Load` is the
bootstrap: a first attempt enrols the missing record or takes over that of the
previous run, a second attempt recovers its own. The takeover archives the
predecessor in a comment of its own (`Archive`) inside the replace that writes
the new record. After that a process rests at "idle" and does what `May` and
the `Can...` guards allow in the order the code goes through; a write is
`Prepare` (what the record becomes), `Find` (the scans that must still find the
record it started from), `Write` and `Confirm`. `Enter` asks the provider,
`Post` stands for the whole of `GroupPublication`, `Receipt` for what the
maintainer sees of a command. `Fail` is an analysis that fails or a read that
fails before a write, `End` the end of a process at any point when "crash" is
among the faults. Details that matter:

* Any POST or PATCH may be unanswered: it was applied, was not, or is applied
  later (`Land`), into whatever is there then. The comment a PATCH goes to is
  the one found before it (`spot`).
* A record's reference is its run, attempt and generation, which no two writes
  share; the code uses the digest.
* `publication_failed` is not distinguished from `publication_pending`, nor
  `publication_suppressed` from `publication_succeeded`: no guard of the runs
  tells them apart.
* A process that has an unanswered write it does not reconcile, or finds another
  record than its own, is "stuck": the code raises, and the process ends.
* A review insists on the head it was started for when it recovers or
  publishes; a command reads head and source again before every write and
  before its receipt (`Fenced`).
* The only commands are pause and continue, since they are what later runs
  depend on; a command with a result to keep closes the same way.
* Not here: the census and byte bounds of archives, the takeover of a run that
  published but did not close on the evidence of
  `github/historical_completion.py`, quarantined records, controlled restarts.

### RepositorySetup and SetupWalk

Every request of `ensureSetupPullRequest` is an action, in the order of the
code; a file is abstracted to its classification (`absent`, `managed`,
`current`, `imported`, `custom`). `main` holds the commits of the default
branch, and the setup branch is identified by the commit it is named after.
GitHub is modelled by what the code relies on: a ref is created only if it
does not exist, a pull request is refused if one is open for the branch or
nothing is left to merge. People push, merge, close, delete, and write to setup
branches. `SetupWalk` is `runSignedSetupStep` and `scheduleNext`: the cursor
carries a position and a digest of the listing, each step reads the listing
anew. Parsing and signatures of webhooks, permissions and the public tag are
left out, and so is renaming the default branch.

## 3. Runs

| Run | Question | Instance |
| --- | --- | --- |
| `admission` | do the counters agree with the threads, do the bounds hold, does a cancelled waiter stay without a lease; do cancelled and timed-out waiters leave, is a freed slot taken | 3 threads, 1 slot, 1 waiter place |
| `api_run_rerun` | what a second attempt may spend after the first died anywhere with writes under way | 2 attempts, startup 5 and 6, limit 36, late writes |
| `api_run_lifecycle` | can every write be confirmed, and the run closed or aborted, whatever was spent before | 1 attempt, limit 63, terminal block 13, any request lost |
| `session_lifecycle` | what an exit leaves behind, what survives a failed write, when a budget starts afresh | 1 writer at a time, all faults, 4 invocations |
| `session_shared` | can a stale decision be reserved, can two analyses run at once, do the replaces amount to single operations on the session | 2 invocations, replaces serialised, crashes, expiry, deletion, 4 starts |
| `session_races` | what the unlocked replace may lose, and that the record stays readable | 2 invocations, replaces race and are killed, 3 starts |
| `repository_setup` | what is proposed, and how an undisturbed delivery ends | 2 deliveries at a time, 3 in all, lost answers, all that people do, 2 commits |
| `publication` | does a review in several objects appear in order, once, and complete when acknowledged; is every proposed frontier legal; does a receipt name what it should | 2 parts of sizes 1 and 2 and the closing review, 1 earlier look-alike, 4 processes, lost and late requests |
| `hosted_runs` | is the provider asked once for a head, does a command take effect once, what has a run left behind when the next takes over | 2 runs (review, pause) of 2 attempts, 2 heads, crashes, failures, 2 unanswered writes |
| `setup_walk` | what a completed walk has covered, and that it ends | 3 repositories in pages of 2, 2 changes, lost calls |
| `session_retry_bound`, `hosted_pause` | statements of the documentation that the code does not keep (section 5) | smallest that shows it |

Why the bounds are enough. Admission: one slot, one waiter place and three
threads are a holder, a waiter and a latecomer who must be turned away, so that
both limits are reached and would be passed without their guards. API run: two attempts are all the accounting distinguishes (a third
inherits like a second); the limits are scaled down so that both the allowance
and the terminal blocks are exhausted within the run; writes under way are not
bounded other than by the property that says there is at most one. Session:
two works on one head and one on another are the smallest set with a retry, a
moved head and a budget that is per head; `MaxFailed = 2`, `Ceiling = 3` and
`RoundCeiling = 2` are reached; four starts allow a failure, its retry, a
command and a further admission; a complete and a partial result are two
results, which is all that a second checkpoint compares. Setup: one move of the default branch
separates inspection, head and branch; three deliveries are one that dies, one
that races and one that comes later. Walk: two pages and two listing changes
restart a walk that has itself been restarted. Publication: two parts are the
least with an order between parts, of different sizes so that one cannot be
taken for the other while an earlier review can; four processes are two that
die in different places, one that meets a late write and one that finishes.
Hosted runs: a takeover needs two runs, and each of them two attempts; two
unanswered writes are one of a dead process that lands under a live one, which
itself gets no answer; two heads make a review stale and make a transaction
one of an earlier round. Three runs over two heads with one unanswered write
(15 million states, five minutes) and two runs with three unanswered writes
show the same. `CHECK_DEADLOCK FALSE` is set
where the bound on starts (or the end of the run or delivery) stops the model; a
publication ends, finished or stuck, and so do the runs of a pull request.

Fairness. `admission` assumes weak fairness of a thread that is already between
its two tests and of a deadline's passing, and strong fairness of each waiter's
poll: `Condition.wait` returns within the poll interval and then contends for a
mutex that is only held for finite sections, so a waiter that is able to poll
again and again does poll (under weak fairness the others could keep it from
the mutex for ever). Nothing is assumed of holders, who may keep their leases
for ever, nor of anyone asking again. `setup_walk` assumes that a delivered
webhook and a delivered self-call are handled (`waitUntil` keeps the Worker
alive until the call is made); lost calls are an action of their own and end
the walk, and the listing changes finitely often. No other run assumes fairness.

## 4. Proofs

| Theorem | For every value of the constants |
| --- | --- |
| `AdmissionTypeOK`, `CountersAccounted`, `AdmissionIsBounded`, `CancelledNeverGranted` | the admission is well typed; its counters are the numbers of holders and waiters, its bounds hold, and no cancelled waiter is granted |
| `RunTypeOK`, `AllowanceHolds`, `WorkTranchePreserved` | the run is well typed; both attempts together send at most the limit; a larger limit never leaves an owner less ordinary work than the default one |
| `ConfirmationIsFunded`, `TerminalWorkIsSafe`, `OneWriteIsAtLarge`, `RecordStands`, `MemoryContinues`, `NeverRefunds`, `ClosureSettled` | a write can always be paid to its reconciliation and terminal work keeps its grant; one write of each attempt is at large and the confirmed record stands; the accounting in memory is a legal successor of it, and no write of the record refunds; a run is closed only over what is settled |
| `SessionTypeOK`, `RecordAlwaysReadable` | the session is well typed; no interleaving, failure or race stores a record whose constructor would refuse it |
| `FreshByReenrolment`, `RoundsBacked` | a budget starts afresh only by a re-enrolment, and no round is counted twice, whatever races or fails |
| `AdmissionStaysCurrent`, `OneAnalysis`, `ChargedOnce`, `CheckpointStays` | with one writer, or several that do not overlap: what is reserved is still admitted, analyses do not overlap, failures are charged at most once, and a checkpoint stays (hypotheses below) |
| `SessionPromiseKept` | under the hypothesis of `OneAnalysis` the session implements `SessionPromise` |
| `HoldIsAttended` | with one writer, a live hold is a running review's unless a failure left it behind |
| `SetupTypeOK`, `SetupIsNeeded`, `QuietDelivery` | the setup is well typed; each file the App's branch replaces was not custom at some commit the delivery could have read, and some file was not current; a delivery nobody disturbs ends well |
| `WalkTypeOK`, `WalkCovers` | the walk stays within its pages; when it reports completion it has attempted every repository of the listing it ended on |
| `PublicationTypeOK`, `ReceiptsAreOwn`, `ProposalsLegal`, `PromiseKept` | every frontier is one its constructor accepts; a receipt names a copy of its own effect; no proposed frontier is refused by the staging module; the publication implements `PublicationPromise` |
| `HostedTypeOK`, `CommandOnce`, `NothingLost` | every record that GitHub holds or may still apply is well formed; a command takes effect once; a run gives the record up only with nothing left to do |

*ProviderAdmission.* `IInv` is `TypeOK`, the two counts, the bounds on the
counters, and `LeaseShape`: only a held lease whose flag is set has a releaser,
and a thread between its two tests has an unreleased one. Without `LeaseShape`
the counts are not inductive, because a release could give back a slot of a
lease that was never taken. Each action changes one of the two sets of threads
by one, which is stated once in the lemmas `OneMore` and `OneLess`.
Assumptions: `Threads` is finite and the bounds are natural numbers.

*ApiRun.* `AllowanceNeverExceeded` is not inductive: it speaks of requests
sent, of which a second attempt knows nothing. `Accounted` says that every
request was paid either from a startup slot or from the blocks granted to the
attempt that sent it, exactly as the process's memory has it; the stored record
is deliberately left out of the invariant, so neither a record that is behind
nor one a late write has restored can do harm. `Phases` says that the write
that activates a process carries both of its blocks in full. The sum then
follows from `GrantsShareTheLimit`: startup slots and grants of the two attempts
share out exactly the limit. `WorkTranchePreserved` is about the pure split: a
larger limit, odd or even, never leaves an owner less ordinary work.

The second half of `ApiRunProofs` brings the record in. Its invariant has four parts, each
inductive on those before it. `Funds` knows what is set aside: an operation
never has more left than the block that pays for it, a write is sent with its
whole tail, and the terminal block is full until terminal work begins. `Stands`
says when a write may be under way at all: only while its process is confirming
it, has given up on it or is gone; hence the process that goes on finds the
record it confirmed, unless an earlier attempt's write has landed. `Memory`
relates three accountings, confirmed, prepared and in memory, by `Continues`:
spending moves requests between categories and leaves the remaining allowance,
the other owner's blocks and a closure alone. It is kept for all records in play
(`InPlay`), because a late write may store any of them, and it is stronger than
`require_successor`, which is not transitive over a change of owner. `Closing`
carries the condition of the mutation (`MayBegin`) from its start to the record
that is accepted: between the two the process does nothing else, so what was
settled when closing began still is. The theorems hold for every admitted limit
and plan, with late writes and without, and for up to two attempts, which is all
the code has.

*LocalSession.* A record is stored by the `write` step of a replace that
computed it earlier, from a file that may have changed since. The invariant
therefore speaks of the record each invocation is about to write, and of the
id, slot and result it remembers for the next one (`GoodProcs`), beside the
stored record (`GoodStore`) and the counts and history. Each record transition
has a lemma that it keeps records good when its acceptance condition holds; the
proof needs neither `Exclusive` nor a bound on the faults.

`LocalSessionRoundProofs` is about the budget, the rounds and the hold. Two
theorems have no hypotheses. `Enrolment` counts witnesses: each was made for one
record and is there or has been retired, and an invocation that has made its
witness and not yet linked a record (`Linking`) accounts for one. `Backed` counts
rounds: a record of generation g has no more rounds than there are complete
results of reservations made before g, and this holds for the record each
invocation is about to write as well, so a replace that overwrites another loses
rounds and adds none.

The others need something of the callers, and there are two ways to have it.
`OneWriter` is the documented contract, one invocation on the session; then every
fault and re-enrolments are allowed. Otherwise several invocations may be under
way if their replaces do not overlap (`Exclusive`) and no live session is
re-enrolled. Either is `OneRecord`. `Current` then says that what was read in a
replace is true until it has been written and read back (`InReplace`), and that
the record an invocation decided on either stands or is older than the stored
one, which refuses the reservation; `AdmissionStaysCurrent` follows whatever the
faults. For the theorems after it (`OwnHolds`) several invocations may fail
only by being killed, while the record may expire or be deleted: one that goes on
after an error of the ledger may take a later hold of the same work for its own,
as section 5 describes. `Alone` says that at most one invocation claims the hold
in the record, and that one that counts on its hold does; `Covered` adds to the
failures charged the one that the claimant may still charge (`Debt`) before
comparing them with the attempts that failed.

`HoldIsAttended` is about one writer only. That its hold is in its hand until it
is cleaned up (`InHand`) is inductive only with the reason why no replace on the
way is refused: `ReadyOn` says that whoever has the hold finds the generation,
the slot and the transaction as its next replace asks for them (`ReadyAccepts`),
so the only ways out are the writes that end the hold and the failures that own
up to leaving it. The second writer is excluded by the code's contract, not
handled by the code: it could delete or replace the record under the first.

`SessionPromiseKept` needs one more fact, `Chosen`: as long as the generation an
invocation decided on stands, the slot it chose is the one the counts call for
and a `continue` finds no hold, and the slot held is that of the next round, so
that a checkpoint adds to the count the promise adds to. The lemmas named
`...Seen` say of each transition of the record which fields a reader sees change;
attaching a transaction is not seen. Every step but `write` leaves the record
alone: it ends an analysis, counts a failure or is a stutter (`QuietStep`), and
the read-back of an attach begins one, where `Alone` says that no other runs. A
`write` that changes the record is one operation (`WriteStep`, one lemma for each
replace). Where the promise asks for more than the transition checks, the
invariant supplies it: `Standing` that the round is still within its budget,
`Turn` that a charge loses no result, `Covered` with its debt that a charge or a
partial result has a failure of its own.

`session_lifecycle` is an instance of the first way, `session_shared` of the
second.

*RepositorySetup.* The branch is made several requests after the first file was
read, so `SetupOnlyWhereNeeded` alone says nothing of the step that makes it.
`JobGood` carries the knowledge along: each file read so far is the file of some
commit since the delivery started; after the third these commits together show
the need of a setup (`NeededIn`, `ConcludeNeeds`), and so do those up to the
head that is taken as base. The default branch may move before each of these
steps, but it only grows, so what some commits have shown they go on to show
(`NeededLater`, `Growing`, `MovingJobs`); the branch keeps the commit its
delivery started at.

`QuietDelivery` is about the whole of an undisturbed delivery. `Informed` follows
it: it still holds the head, the head needs a setup, the branch it found or made
is there, a refused pull request means that one is open, and the files it has
read of the branch are the App's. Others may interfere with the last two only by
writing to the branch or by taking it for an imported configuration, which are
the exceptions the property names (`Excused`); `AsMade` says that any other
branch is as the App made it, and that a merged one was merged into a later head,
so that a pull request for the present head cannot be refused because nothing is
left to merge. Assumptions: the initial contents and edits are contents and kinds
the module names, and the value `None` is neither a branch nor an answer.

*SetupWalk.* A cursor claims a position in the listing it was signed for; the
invariant (`Walked`) is that every repository of that listing before the
position has been attempted. A step goes on from there only if the listing it
reads has the cursor's digest and starts anew otherwise, so the claim is one
about the present listing; `NextIsNext` is the arithmetic of pages and offsets,
at the end of a page and of the last page too. `WalkCovers` reads the completion
off the last position: the pages run out only behind the whole listing, because
the repositories fit (`PagesAssumption`: a cursor names 100 pages of 100, and
`readBoundedHistory` refuses a listing of more than 1000). Assumptions besides:
the repositories are finite, and `None` is no listing, cursor or outcome.

*GroupPublication.* `ReceiptsNameOwnObjects` and the refinement speak of what
is visible, the walk of frontiers that may be in the record, in a delayed PATCH
or in the process (`InPlay`). `Place` says where in the walk a process is and
that what it proposes is one step further; `Grounded` that every frontier in
play names visible copies of its own effects and that all effects below its
reach are visible, which no late write can undo, since objects do not go away;
`TokensKnown` that a token drawn for an attempt is in play only once it has been
proposed, so that a claim found in the record is the process's own;
`OnceInOrder` that, as long as no attempt has been taken back, nothing is
visible or under way beyond the record's reach and a claimed effect is still
free. `PromiseKept` maps each step to a step of the promise or to none;
`ProposalsLegal` needs only `Place` and the constructor's conditions.
Assumptions: each part has comments, a manifest is required (the staged
publication of more than one object), and `None` is no value of the plan.

*HostedRuns.* Anything that GitHub holds or may still apply counts: `Written` is
the records in comments and in unanswered writes. The invariant has three parts.
The first knows who wrote what: no two writes have the same reference
(`Distinct`), and a process has a write under way only while it is confirming it
or after it has failed to (`Serial`). The second is about commands: what was done shows in the record in
the order it is done (`Ordered`), so that once a command may have taken effect
every record of its run, landed or not, says that it has begun (`Marked`), and
the attempt that finds this does nothing (`Spent`). The third is about what is
left behind: a record that says terminal or closed is true (`Sound`, which is
kept for every written record and not only the current one, because a late
write can bring an older one back), and its predecessor is archived and over
(`Over`). `TakeoverLosesNothing` is the last of these read off the comments.
The proof is for any number of runs, heads and unanswered writes and any subset
of the faults and tasks; its only assumption is that the bounds are numbers and
the subsets are subsets (`HostedAssumption`).

Only model-checked: the liveness properties `CancelledWaiterLeaves`,
`DeadlineEndsTheWait`, `FreedSlotIsTaken` and `DeliveryEnds` (fairness and ENABLED
are outside the proof system), and that the hypotheses of the session's theorems
are needed, which the runs of section 5 and `session_races` show; and
`AnalysedOnce` of the hosted runs, whose proof would have to follow each ask of
the provider through every record that may still name it. What a
recursive definition computes on all inputs would need induction over data,
which the installed provers cannot instantiate; no module here declares a
RECURSIVE operator.

## 5. Where code and documentation differ

1. `session_retry_bound`: the failed-attempt slot is reserved under an id
   derived from the reservation id, so a second failure of the same work is
   taken for the one already charged, and the retry bound of ADR 0049 and ADR
   0056 is not reached.
2. `hosted_pause`: a review started while the session is paused first takes the
   session record over from the run before it, is then refused admission, and
   closes nothing. The next run may take the record over only from a closed
   run, and so the `continue` that would lift the pause is refused before it is
   read; `docs/diagnostics.md:130` says that an explicit `continue` lifts it.

Others met while modelling have no run of their own.

* An interrupt during the artifacts or the checkpoint is cleaned up as a charged
  failure (`core/cli.py:4147`); ADR 0063 says interrupts are not charged.
* A delayed cleanup recognises its hold by a deterministic id
  (`core/cli.py:3064`) and can abort a later invocation's reservation of the
  same work; ADR 0063 (`:24`) says it never does. On the hosted path it cannot
  happen, since the jobs of a pull request share a concurrency group.
* A setup branch whose configuration was imported is not recognised as the App's
  own (`worker/github-app.ts:1105`): a retry reports a conflict, and a branch
  left without a pull request stays so until the default branch moves, where
  `docs/installation.md:765` says that an open setup pull request is reused and
  `:785` that a branch with canonical content is.
* A command interrupted by a push after its effect, or a review that fails after
  the provider was entered, leaves its run unclosed, with the same consequence
  as in 2; ADR 0111 acknowledges it for the review. A review is charged as a
  failed attempt only if the provider was not entered, where ADR 0049 (`:49`)
  charges every provider failure.
* A runner that is lost with a hold leaves a predecessor the next run must refuse
  (`github/api_run_requests.py:943-969`); ADR 0079 and
  `docs/diagnostics.md:119-123` say that the next review heals it at admission,
  ADR 0111 that an unknown reservation stays a blocker. `continue` does not
  recover it either.
* `docs/installation.md:606-609` says the next run resumes from the record; only
  the second attempt of the same run does.
* There is one setup pull request per base commit (`docs/installation.md:765`),
  where `docs/github-app-registration.md:230` says one per repository.
* A file customised by a push between the inspection and the reading of the head
  is replaced in the proposed branch, although custom files are said to be
  skipped without writes (`docs/installation.md:773`). What does hold is that no
  file is replaced that was custom from the start of the delivery to the base.
* A PATCH that GitHub applies after a later process has written puts an older
  record back. With three runs, a run that then takes this record over finds
  nothing of what the one in between did, and asks the provider for the same
  head again. No document excludes it; `AnalysedOnce` excepts it.
* A delivery that adds two or more repositories is deferred and walks the whole
  installation, where the same table says only the added ones are inspected.

The passing properties hold beside these: `QuietDeliverySucceeds` excepts
branches with an imported configuration, `session_shared` runs without errors and
interrupts because a delayed cleanup lets two analyses overlap, and
`NeverOvercharged` counts interrupted attempts. `ConfirmedRecordStands` and
`RecordNeverRefunds` except a write of attempt 1 that GitHub applies after
attempt 2 has looked: nothing in the code can exclude it.

## 6. Not modelled

Of the code under `src/`, most of the lines are not control: validation of
dataclasses and JSON schemas, canonical bytes and digests, prompts, parsing of
diffs and threads, rendering of comments, HTTP transports, build and release
scripts, and tests. The modules here cover the state machines that survive a
process or are shared by several; as a share of all lines that is small.

* Reservation recovery (`recover_abandoned_analysis`): the run path accepts only
  a ledger without a broker (`_require_ledger`), so no hosted execution reaches
  it. What a lost runner leaves behind is in `HostedRuns`.
* The takeover of a run that published but did not close, on the evidence of
  `github/historical_completion.py`: it needs authenticated facts about the
  earlier workflow run that are data to a model.
* That a session record does not stay blocked: a runner that dies with a hold, or
  a run that ends unclosed, leaves a record no later run may take over (section
  5). The checks say that nothing is lost by it, not that it is ever resolved;
  the code has no path that does.
* Quarantine and controlled restart: the registries ship empty, so nothing
  reaches them.
* The whole-review publisher of `github/publication.py`: its uncertainty, a POST
  that may have been applied, is that of each part of the staged publication,
  which is the one a run uses; what it adds is recognising a review by its text.
* Merge gate and approval: one decision over values read from GitHub, of which
  nothing is kept between two steps.
* Assessment queue, discovery and reassessment work: entries, evidence and
  receipts are bytes bound to prompts; their writes of the record are the fenced
  replace of every other write.
* Worker token broker: stateless, bounded by deadlines.
* Conversation replies and learning pull requests: the once-only effect of a
  reply is that of a command in `HostedRuns`; a learning pull request meets the
  same races of refs and pull requests as `RepositorySetup`.
* Review engine, human inventory, configuration, presentation, transports,
  release tooling: sequential transformations without state of their own.
* Legacy Python setup: the logic of the Worker, not deployed.

What could be proved next: that `HostedRuns` implements the runs of a pull
request one after another, each with its effect at most once, and
`ProviderAdmission` a bounded semaphore. For the session, what remains of its
promise when an invocation goes on after an error of the ledger: the hold may
then be ended by a cleanup that is not its writer's.

------------------------------- MODULE ApiRun -------------------------------
(***************************************************************************)
(* The caller requests of one hosted run: a process of attempt 1, and      *)
(* after it has gone a process of attempt 2, each metering its own HTTP    *)
(* requests (ApiRunRequestTransport, CallerOperation) and writing the      *)
(* run's accounting inside the one session record of the pull request, a   *)
(* GitHub comment.                                                         *)
(*                                                                         *)
(* The comment has no compare-and-swap.  A write is a PATCH after a few    *)
(* reads that find the record unchanged, and another read to confirm it.   *)
(* Its response may be lost whether or not GitHub applies it, and GitHub   *)
(* may apply it later, even after the process is gone.  The record and     *)
(* the process therefore differ: what a process has spent since its last   *)
(* write is known to nobody once it has died.                              *)
(***************************************************************************)
EXTENDS ApiWork, FiniteSets

CONSTANTS
  OperationRequests, \* NATIVE_OPERATION_REQUESTS, for one record write
  LateWrites,        \* whether an unanswered write may be applied later
  LastAttempt        \* a bound: how often the workflow run is attempted

ASSUME RunAssumption ==
  OperationRequests \in Nat /\ LateWrites \in BOOLEAN /\ LastAttempt \in Attempts

VARIABLES
  durable,   \* the session record in the comment
  flight,    \* unanswered writes GitHub has not applied yet
  wire,      \* requests each attempt has physically sent
  attempt,   \* the attempt whose process runs, or ran last
  pc,        \* where that process stands
  startup,   \* startup_dispatches
  active,    \* whether ordinary capacity is confirmed (_state is not None)
  mem,       \* _state, the accounting as this process knows it
  root,      \* _root, the record this process last confirmed
  cand,      \* _activation or _checkpoint, the record being written
  kind,      \* which mutation that record is the result of
  op,        \* the CallerOperation of the write
  failed,    \* _failed_operations, under the present root
  terminal,  \* _terminal_reason
  own,       \* the held reservation is this process's
  entered,   \* _operation_entry_started
  aborting,  \* _abort_source is set and not closed yet
  doubt      \* a mutation other than a record write is unresolved

github  == <<durable, flight>>
meter   == <<wire, startup, mem>>
writing == <<root, cand, kind, op, failed>>
review  == <<terminal, own, entered, aborting, doubt>>
vars    == <<github, meter, writing, review, attempt, pc, active>>

-----------------------------------------------------------------------------
(* Data *)

\* The session record, as far as the transport looks at it: its content hash
\* (here its generation, with the content), its transaction and its account.
TxPhases == {"none", "reserved", "analysis", "pending", "published"}
Records  == [gen : Nat, tx : TxPhases, acct : Account]
Missing  == [gen |-> 0, tx |-> "none", acct |-> initial_accounting]

Kinds == {"enrol", "recover", "reserve", "attach", "retain", "publish",
          "finish", "cleanup", "close", "charge"}

\* CallerOperation: what is left, whether it wrote, confirmations it read.
Operations == [left : Nat, wrote : BOOLEAN, confirmations : Nat]
NoOperation == [left |-> 0, wrote |-> FALSE, confirmations |-> 0]

\* Slip: the reads before the write may use up its tail.
CanReadSlip(o) == o.left > 0 /\ (o.wrote => o.confirmations < WriteTail - 1)

CanRead(o)  == o.left > 0 /\ IF o.wrote THEN o.confirmations < WriteTail - 1
                                        ELSE o.left > WriteTail
CanWrite(o) == ~o.wrote /\ o.left >= WriteTail

consume(o, mutation) ==
  [ left          |-> o.left - 1,
    wrote         |-> o.wrote \/ mutation,
    confirmations |-> IF o.wrote THEN o.confirmations + 1 ELSE o.confirmations ]

-----------------------------------------------------------------------------
(* One metered request (ApiRunRequestTransport.open) *)

\* Slip: ordinary work falls back on the terminal part when its own is spent.
BlockSlip ==
  <<attempt, IF terminal = "no" /\ mem.left[<<attempt, "review">>] > 0
               THEN "review" ELSE "terminal">>

\* The block in use: the terminal one once terminal work has begun.
Block  == <<attempt, IF terminal = "no" THEN "review" ELSE "terminal">>
Usable == mem.left[Block]

Funded(mutation) ==
  IF active
    THEN /\ CanDispatch(mem, Block)
         /\ mutation => Usable >= WriteTail
    ELSE /\ startup < StartupSlots[attempt]
         /\ mutation => StartupSlots[attempt] - startup >= WriteTail

\* Slip: every request may be sent twice for one charge.
SentSlip(n) ==
  /\ wire'    = [wire EXCEPT ![attempt] = @ + 2 * n]
  /\ startup' = IF active THEN startup ELSE startup + n

\* Charged before it is sent: the count of requests on the wire and, during
\* startup, of the slot.
Sent(n) ==
  /\ wire'    = [wire EXCEPT ![attempt] = @ + n]
  /\ startup' = IF active THEN startup ELSE startup + n

\* The accounting after one request, answered or not.
Charged(answered) ==
  IF ~active THEN mem
  ELSE IF answered THEN confirm(dispatch(mem, Block), Block)
  ELSE dispatch(mem, Block)

\* A request of the record write in progress.
OperationFunds(mutation) ==
  /\ Funded(mutation)
  /\ active => IF mutation THEN CanWrite(op) ELSE CanRead(op)

Spent(mutation) == IF active THEN consume(op, mutation) ELSE op

OperationRead == OperationFunds(FALSE) /\ Sent(1) /\ op' = Spent(FALSE)

-----------------------------------------------------------------------------
(* The process comes and goes *)

\* A process begins knowing nothing, and nothing in memory survives it.
Forget ==
  /\ startup' = 0 /\ active' = FALSE /\ mem' = initial_accounting
  /\ root' = Missing /\ cand' = Missing /\ kind' = "enrol"
  /\ op' = NoOperation /\ failed' = {}
  /\ terminal' = "no" /\ own' = FALSE /\ entered' = FALSE
  /\ aborting' = FALSE /\ doubt' = FALSE

Init ==
  /\ durable = Missing /\ flight = {}
  /\ wire = [a \in Attempts |-> 0]
  /\ attempt = 0 /\ pc = "ended"
  /\ startup = 0 /\ active = FALSE /\ mem = initial_accounting
  /\ root = Missing /\ cand = Missing /\ kind = "enrol"
  /\ op = NoOperation /\ failed = {}
  /\ terminal = "no" /\ own = FALSE /\ entered = FALSE
  /\ aborting = FALSE /\ doubt = FALSE

\* One process per attempt (claim_review_startup); the second one only after
\* the first has ceased (ApiRunActionsEvidence).
Start ==
  /\ pc = "ended" /\ attempt < LastAttempt
  /\ attempt' = attempt + 1 /\ pc' = "startup"
  /\ UNCHANGED <<github, meter, writing, review, active>>

\* The process returns, raises, or is killed.
End ==
  /\ pc # "ended" /\ pc' = "ended"
  /\ Forget
  /\ UNCHANGED <<github, wire, attempt>>

\* GitHub applies a write whose sender has given up on it.
Land ==
  \E r \in flight :
    /\ durable' = r /\ flight' = flight \ {r}
    /\ UNCHANGED <<meter, writing, review, attempt, pc, active>>

\* Slip: a recovery that starts the accounting afresh.
CandidateSlip(k, from, acct) ==
  [ gen  |-> from.gen + 1,
    tx   |-> from.tx,
    acct |-> IF k = "enrol" THEN ReserveBoth(initial_accounting, 1)
             ELSE IF k = "recover" THEN ReserveBoth(claim_startup(initial_accounting, 2), 2)
             ELSE acct ]

\* What each mutation makes of the record it replaces.  The accounting written
\* is the one in memory when the record is prepared, so the write's own
\* requests are not in it.
Candidate(k, from, acct) ==
  [ gen  |-> from.gen + 1,
    tx   |-> CASE k = "reserve"             -> "reserved"
               [] k = "attach"              -> "analysis"
               [] k = "retain"              -> "pending"
               [] k = "publish"             -> "published"
               [] k = "cleanup"             -> "none"
               [] OTHER                     -> from.tx,
    acct |-> CASE k = "enrol"   -> ReserveBoth(initial_accounting, 1)
               [] k = "recover" -> ReserveBoth(claim_startup(from.acct, 2), 2)
               [] k = "finish"  -> [acct EXCEPT !.closed = "published"]
               [] k = "close"   -> [acct EXCEPT !.closed = "aborted"]
               [] OTHER         -> acct ]

-----------------------------------------------------------------------------
(* Startup: policy, identity and owner reads, and the load of the record *)

StartupRead ==
  /\ pc = "startup" /\ Funded(FALSE) /\ Sent(1)
  /\ UNCHANGED <<github, mem, writing, review, attempt, pc, active>>

\* bootstrap: a first attempt enrols a missing record, a second one recovers
\* the open record of its own run.  Anything else refuses (End).
Load ==
  /\ pc = "startup" /\ Funded(FALSE) /\ Sent(1)
  /\ root' = durable
  /\ \/ /\ attempt = 1 /\ durable = Missing
        /\ kind' = "enrol" /\ cand' = Candidate("enrol", durable, mem) /\ ValidAccount(cand'.acct)
        /\ pc' = "confirm"
     \/ /\ attempt = 2 /\ durable # Missing
        /\ durable.acct.closed # "published" /\ durable.tx # "reserved"
        /\ kind' = "recover" /\ cand' = cand
        /\ pc' = "find"
  /\ UNCHANGED <<github, mem, op, failed, review, attempt, active>>

-----------------------------------------------------------------------------
(* One write of the record: replace, or initialize_with_mutation *)

\* Slip: the run is closed without looking at unresolved work.
MayBeginSlip(k) ==
  CASE k = "reserve" -> root.tx = "none" /\ terminal = "no" /\ ~entered
    [] k = "attach"  -> root.tx = "reserved" /\ own /\ terminal = "no"
    [] k = "retain"  -> root.tx = "analysis" /\ own /\ entered /\ terminal = "no"
    [] k = "publish" -> root.tx = "pending" /\ terminal = "publish"
    [] k = "finish"  -> root.tx = "published" /\ terminal = "publish"
    [] k = "cleanup" -> root.tx \in {"reserved", "analysis"} /\ own /\ terminal = "abort"
    [] k = "close"   -> aborting
    [] OTHER         -> FALSE

\* The condition each mutation puts on the confirmed record.
MayBegin(k) ==
  CASE k = "reserve" -> root.tx = "none" /\ terminal = "no" /\ ~entered
    [] k = "attach"  -> root.tx = "reserved" /\ own /\ terminal = "no"
    [] k = "retain"  -> root.tx = "analysis" /\ own /\ entered /\ terminal = "no"
    [] k = "publish" -> root.tx = "pending" /\ terminal = "publish"
    [] k = "finish"  -> root.tx = "published" /\ terminal = "publish" /\ ~doubt
    [] k = "cleanup" -> root.tx \in {"reserved", "analysis"} /\ own /\ terminal = "abort"
    [] k = "close"   -> aborting /\ ~entered /\ ~doubt
    [] k = "charge"  -> root.tx = "none" /\ terminal = "abort" /\ ~own /\ ~aborting
    [] OTHER         -> FALSE

\* replace_checkpoint: one operation per mutation and root, never replenished,
\* and none while an earlier write is unresolved (pc would be "stuck").
Begin(k) ==
  /\ pc = "idle" /\ MayBegin(k) /\ k \notin failed
  /\ k \in {"finish", "close"} => mem.closed = "open"
  /\ Usable >= WriteTail
  /\ kind' = k /\ pc' = "find"
  /\ op' = [ left |-> IF Usable < OperationRequests THEN Usable ELSE OperationRequests,
             wrote |-> FALSE, confirmations |-> 0 ]
  /\ UNCHANGED <<github, meter, root, cand, failed, review, attempt, active>>

\* The scans for the record, of as many pages as there are comments.
Scan ==
  /\ pc \in {"find", "confirm"} /\ OperationRead
  /\ mem' = Charged(TRUE)
  /\ UNCHANGED <<github, root, cand, kind, failed, review, attempt, active, pc>>

\* Discovery and rediscovery end at the root; then the record is prepared.
Prepare ==
  /\ pc = "find" /\ OperationRead
  /\ durable = root
  /\ kind = "recover" => CanClaim(root.acct, attempt)
  /\ cand' = Candidate(kind, root, Charged(TRUE)) /\ ValidAccount(cand'.acct)
  /\ mem' = IF active THEN cand'.acct ELSE mem
  /\ pc' = "confirm"
  /\ UNCHANGED <<github, root, kind, failed, review, attempt, active>>

\* The read before activation and, but for a cleanup (_is_own_release), the one
\* of the pull request's head.  An enrolment looks at the head alone.
Confirm ==
  /\ pc = "confirm" /\ OperationRead
  /\ kind # "enrol" => durable = root
  /\ mem' = Charged(TRUE) /\ pc' = "write"
  /\ UNCHANGED <<github, root, cand, kind, failed, review, attempt, active>>

\* Slip: an unresolved write is forgotten.
SettleSlip(next) ==
  /\ pc' = "idle" /\ cand' = Missing /\ kind' = "enrol" /\ op' = NoOperation

\* The write is over, and forgotten.
Settle(next) ==
  /\ pc' = next /\ cand' = Missing /\ kind' = "enrol" /\ op' = NoOperation

\* Before the write: a read is lost, finds another record or another head, or
\* cannot be paid for.  The startup fails with it; an active process may go
\* on, but not to the same mutation of the same root.
Abandon ==
  /\ pc \in {"find", "confirm"} /\ active
  /\ \/ OperationFunds(FALSE) /\ Sent(1) /\ mem' \in {Charged(TRUE), Charged(FALSE)}
     \/ ~OperationFunds(FALSE) /\ UNCHANGED meter
  /\ Settle("idle") /\ failed' = failed \cup {kind}
  /\ UNCHANGED <<github, root, review, attempt, active>>

AbandonStartup ==
  /\ pc \in {"find", "confirm"} /\ ~active
  /\ Funded(FALSE)
  /\ wire' = [wire EXCEPT ![attempt] = @ + 1]
  /\ pc' = "ended" /\ Forget
  /\ UNCHANGED <<github, attempt>>

\* The POST or PATCH.  GitHub applies it now, later or never.
Write ==
  /\ pc = "write" /\ OperationFunds(TRUE) /\ Sent(1)
  /\ \/ \* a response that carries the record
        /\ durable' = cand /\ flight' = flight
        /\ mem' = Charged(TRUE) /\ op' = Spent(TRUE) /\ pc' = "echo"
        /\ UNCHANGED <<cand, kind>>
     \/ \* no response, or a status that says nothing of the effect
        /\ \/ durable' = cand /\ flight' = flight
           \/ UNCHANGED github
           \/ LateWrites /\ flight' = flight \cup {cand} /\ durable' = durable
        /\ \/ mem' = Charged(FALSE) /\ pc' = "retry"
           \/ mem' = Charged(TRUE) /\ pc' = IF kind = "enrol" THEN "echo" ELSE "retry"
        /\ op' = Spent(TRUE)
        /\ UNCHANGED <<cand, kind>>
     \/ \* a response after the request's own deadline, or a refusal
        /\ durable' \in {cand, durable} /\ flight' = flight
        /\ mem' = Charged(TRUE) /\ Settle("stuck")
  /\ UNCHANGED <<root, failed, review, attempt, active>>

\* Slip: any record read back is taken for the one written.
AcceptSlip ==
  /\ root' = cand /\ failed' = {}
  /\ active' = TRUE
  /\ mem' = IF active THEN Charged(TRUE) ELSE cand.acct
  /\ own' = ((own \/ kind = "reserve") /\ kind \notin {"cleanup", "retain"})
  /\ aborting' = (kind = "cleanup" /\ root.tx = "analysis")
  /\ Settle("idle")
  /\ UNCHANGED <<terminal, entered, doubt>>

\* _accept_activation and _accept_checkpoint, after a read of the exact record.
\* A cleanup that may not be closed raises instead.
Accept ==
  /\ durable = cand
  /\ root' = cand /\ failed' = {}
  /\ active' = TRUE
  /\ mem' = IF active THEN Charged(TRUE) ELSE cand.acct
  /\ own' = ((own \/ kind = "reserve") /\ kind \notin {"cleanup", "retain"})
  /\ aborting' = (kind = "cleanup" /\ root.tx = "analysis")
  /\ Settle(IF aborting' /\ (entered \/ doubt) THEN "stuck" ELSE "idle")
  /\ UNCHANGED <<terminal, entered, doubt>>

\* The read finds another record than the one written: nothing is settled.
Refuse ==
  /\ durable # cand
  /\ mem' = Charged(TRUE) /\ Settle("stuck")
  /\ UNCHANGED <<root, failed, review, active>>

\* The read-back that ends replace.  If it is lost a reconciliation follows,
\* but not in startup, where the last request must be the write itself.
Echo ==
  /\ pc = "echo" /\ OperationFunds(FALSE) /\ Sent(1)
  /\ \/ Accept \/ Refuse
     \/ /\ mem' = Charged(FALSE) /\ op' = Spent(FALSE)
        /\ pc' = IF active THEN "retry" ELSE "stuck"
        /\ UNCHANGED <<root, cand, kind, failed, review, active>>
  /\ UNCHANGED <<github, attempt>>

\* reconcile_checkpoint and reconcile_activation: one read, never a second
\* write.  Nobody reconciles the activation of a recovering process.
Reconcile ==
  /\ pc = "retry" /\ kind # "recover"
  /\ OperationFunds(FALSE) /\ Sent(1)
  /\ \/ Accept \/ Refuse
     \/ /\ mem' = Charged(FALSE) /\ Settle("stuck")
        /\ UNCHANGED <<root, failed, review, active>>
  /\ UNCHANGED <<github, attempt>>

-----------------------------------------------------------------------------
(* The rest of an active process *)

\* Any other read.
ReadFreely ==
  /\ pc \in {"idle", "stuck"} /\ active
  /\ Funded(FALSE) /\ Sent(1)
  /\ \E answered \in BOOLEAN : mem' = Charged(answered)
  /\ UNCHANGED <<github, writing, review, attempt, pc, active>>

\* begin_provider_phase and run_provider.
EnterProvider ==
  /\ pc = "idle" /\ root.tx = "analysis" /\ own /\ terminal = "no" /\ ~entered
  /\ mem.left[<<attempt, "terminal">>] = TerminalGrant[attempt]
  /\ Usable >= 1
  /\ entered' = TRUE
  /\ UNCHANGED <<github, meter, writing, terminal, own, aborting, doubt, attempt, pc, active>>

\* A write of the publication, in an operation of its own: answered; left in
\* doubt; or in doubt and settled by reading its effect back.  The attempt to
\* close the run comes after all of them.
BusinessWrite ==
  /\ pc = "idle" /\ root.tx \in {"pending", "published"} /\ mem.closed = "open"
  /\ Funded(TRUE)
  /\ \/ Sent(1) /\ mem' = Charged(TRUE) /\ doubt' = doubt
     \/ Sent(1) /\ mem' \in {Charged(TRUE), Charged(FALSE)} /\ doubt' = TRUE
     \/ /\ Sent(2) /\ doubt' = doubt
        /\ mem' = confirm(dispatch(Charged(FALSE), Block), Block)
  /\ UNCHANGED <<github, writing, terminal, own, entered, aborting, attempt, pc, active>>

\* begin_terminal: once, to complete the publication or to clean up.
BeginTerminal(reason) ==
  /\ pc = "idle" /\ active /\ terminal = "no"
  /\ \/ reason = "publish" /\ root.tx = "pending"
     \/ reason = "abort" /\ own /\ root.tx \in {"reserved", "analysis"}
  /\ terminal' = reason
  /\ UNCHANGED <<github, meter, writing, own, entered, aborting, doubt, attempt, pc, active>>

Next ==
  \/ Start \/ End \/ Land
  \/ StartupRead \/ Load
  \/ \E k \in Kinds : Begin(k)
  \/ Scan \/ Prepare \/ Confirm \/ Abandon \/ AbandonStartup
  \/ Write \/ Echo \/ Reconcile
  \/ ReadFreely \/ EnterProvider \/ BusinessWrite
  \/ \E reason \in {"publish", "abort"} : BeginTerminal(reason)

Spec == Init /\ [][Next]_vars

-----------------------------------------------------------------------------
(* Properties *)

\* The record, the process and the writes under way keep their types; counts
\* of requests never become negative.
TypeOK ==
  /\ durable \in Records /\ flight \subseteq Records
  /\ wire \in [Attempts -> Nat] /\ attempt \in 0..2
  /\ pc \in {"ended", "startup", "find", "confirm", "write", "echo", "retry", "idle", "stuck"}
  /\ startup \in Nat /\ active \in BOOLEAN /\ mem \in Account
  /\ root \in Records /\ cand \in Records /\ kind \in Kinds
  /\ op \in Operations /\ failed \subseteq Kinds
  /\ terminal \in {"no", "publish", "abort"}
  /\ own \in BOOLEAN /\ entered \in BOOLEAN /\ aborting \in BOOLEAN /\ doubt \in BOOLEAN

\* The run's allowance bounds the requests its two processes really send,
\* whatever they lose, wherever the first one dies, and whatever record the
\* second one finds: a successor knows less than its predecessor spent.
AllowanceNeverExceeded == wire[1] + wire[2] <= Limit

\* An active process that has done its reads can pay for the record write, and
\* any process that has sent one can pay for the read that confirms it, and for
\* the one more that reconciles it if that read is lost.
ConfirmationFunded ==
  /\ pc = "write" /\ active => OperationFunds(TRUE)
  /\ pc \in {"echo", "retry"} => OperationFunds(FALSE)

\* Until terminal work begins, nothing the process does touches the requests
\* reserved for it, so cleanup and completion stay payable.
TerminalWorkProtected ==
  active /\ terminal = "no"
    => mem.left[<<attempt, "terminal">>] = TerminalGrant[attempt]

\* What a process holds in memory never drops or regains a charge of the
\* record it last confirmed, so that record's successor check cannot refuse it.
MemoryContinuesRecord ==
  active => require_successor(root.acct, mem) /\ ValidAccount(mem)

\* The stored record never gives allowance back, nor a closure: not by a later
\* write of the attempt that stored it, and not by the next attempt's recovery
\* of the record it read.  (A write of attempt 1 that GitHub applies late may
\* restore an older record, Land, or be overwritten before attempt 2 has seen
\* it; the requests stay bounded all the same.)
RecordNeverRefunds ==
  [][ ( /\ durable # Missing /\ durable' # durable /\ flight' = flight
        /\ durable'.acct.owner = durable.acct.owner \/ durable = root )
      => /\ remaining(durable'.acct) <= remaining(durable.acct)
         /\ durable.acct.closed # "open" => durable'.acct.closed = durable.acct.closed ]_vars

\* No process sends a record write while an earlier one of its own may still
\* take effect: at most one write of each attempt is at large.
OneWriteAtLarge ==
  \A r, s \in flight : r.acct.owner = s.acct.owner => r = s

\* A run is closed as published only over a published transaction and by a
\* process that leaves no write in doubt; as aborted only by a process that
\* never entered the provider for it.
ClosureIsSettled ==
  /\ durable.acct.closed = "published" => durable.tx = "published"
  /\ durable.acct.closed = "aborted" => durable.tx = "none"
  /\ mem.closed = "published" => ~doubt
  /\ mem.closed = "aborted" => ~entered

\* The record a process goes on from is the stored one, until a write that an
\* earlier attempt had given up on replaces it: a process whose own write is
\* unresolved never goes on (ReviewRunLedger.replace).
ConfirmedRecordStands ==
  active /\ pc \in {"idle", "find", "confirm", "write"}
    => durable = root \/ durable.acct.owner < attempt
=============================================================================

------------------------------ MODULE ApiWork ------------------------------
(***************************************************************************)
(* The caller-request accounting record of one hosted run                  *)
(* (src/src/review_sensei/api_work.py) and the split of its allowance      *)
(* between the run's two Actions attempts (api_run_plan.py).               *)
(*                                                                         *)
(* Every operator here is a value transition, as in the source: it maps a  *)
(* record to the record to be written next.  A request is identified in    *)
(* the source by its owner's generation and its sequence number, unique by *)
(* construction, so a block and the receipts only need to be counted.      *)
(***************************************************************************)
EXTENDS Integers

CONSTANTS
  Limit,            \* FrozenApiConfiguration.limit
  StartupSlots,     \* requests prepaid for the startup of each attempt
  TerminalBase,     \* TERMINAL_REQUESTS
  TerminalExpanded, \* EXPANDED_TERMINAL_REQUESTS
  DefaultLimit      \* the limit, 512, whose work tranche larger limits keep

\* WRITE_CONFIRMATION_TAIL: one write and two requests to confirm it.
WriteTail == 3

\* MIN_OPERATION_REQUESTS: a read before the protected tail.
MinOperation == 1 + WriteTail

\* ApiExecutionOwner.run_attempt.  The first owner has generation 0 and the
\* only successor generation 1, so an attempt names an owner.
Attempts == 1..2

\* StartupPlan.liability: both attempts are charged from the start.
Liability == StartupSlots[1] + StartupSlots[2]

OwnerTotal(limit, a) ==
  LET rest == limit - Liability
  IN  IF a = 2 THEN rest \div 2 ELSE rest - rest \div 2

\* terminal_requests: the protected part grows with what a limit adds to the
\* default one, up to its expanded size.
terminal_requests(limit, a) ==
  LET added == OwnerTotal(limit, a) - OwnerTotal(DefaultLimit, a)
      room  == TerminalExpanded - TerminalBase
  IN  TerminalBase + (IF added <= 0 THEN 0 ELSE IF added < room THEN added ELSE room)

work_requests(limit, a) == OwnerTotal(limit, a) - terminal_requests(limit, a)

\* owner_allocations, of the run's own limit.
TerminalGrant == [a \in Attempts |-> terminal_requests(Limit, a)]
WorkGrant     == [a \in Attempts |-> work_requests(Limit, a)]

\* The refusals of StartupPlan.require_limit and owner_allocations: a run that
\* starts at all has a funded operation beside each terminal part.
ASSUME AllowanceAssumption ==
  /\ Limit \in Nat /\ DefaultLimit \in Nat
  /\ TerminalBase \in Nat \ {0} /\ TerminalExpanded \in Nat
  /\ TerminalBase <= TerminalExpanded
  /\ StartupSlots \in [Attempts -> Nat \ {0}]
  /\ Limit >= Liability
  /\ \A a \in Attempts : work_requests(Limit, a) >= MinOperation

-----------------------------------------------------------------------------
\* An owner has two blocks: hosted-review or successor-review, for its work,
\* and hosted-terminal or successor-terminal.
BlockIds == Attempts \X {"review", "terminal"}

\* ApiRunAccounting.  A block that is not reserved yet has nothing in it.
Account ==
  [ owner     : Attempts,
    used      : SUBSET Attempts,           \* startup_used
    reserved  : SUBSET BlockIds,
    left      : [BlockIds -> Nat],         \* undispatched
    pending   : [BlockIds -> Nat],
    completed : Nat,
    closed    : {"open", "published", "aborted"} ]
      \* terminal_transaction or analysis_abort, whichever is set

\* Every total over the blocks.
SumBlocks(f) ==
  f[<<1, "review">>] + f[<<1, "terminal">>] + f[<<2, "review">>] + f[<<2, "terminal">>]

reserved_undispatched(acct) == SumBlocks(acct.left)
uncertain(acct)             == SumBlocks(acct.pending)

remaining(acct) ==
  Limit - Liability - acct.completed - reserved_undispatched(acct) - uncertain(acct)

\* __post_init__: what makes a record valid.
ValidAccount(acct) ==
  /\ acct.owner \in acct.used
  /\ \A b \in acct.reserved : b[1] <= acct.owner
  /\ remaining(acct) >= 0

-----------------------------------------------------------------------------
\* initial_accounting, always for attempt 1: its own slot is used.
initial_accounting ==
  [ owner |-> 1, used |-> {1}, reserved |-> {},
    left |-> [b \in BlockIds |-> 0], pending |-> [b \in BlockIds |-> 0],
    completed |-> 0, closed |-> "open" ]

\* reserve: a new block, issued by the owner.
reserve(acct, b, n) ==
  [acct EXCEPT !.reserved = @ \cup {b}, !.left[b] = n]

\* Slip: the slot need not be there.
CanDispatchSlip(acct, b) == b \in acct.reserved /\ b[1] = acct.owner

\* dispatch: one durable slot becomes a pending request, before it is sent.
CanDispatch(acct, b) ==
  b \in acct.reserved /\ b[1] = acct.owner /\ acct.left[b] > 0

dispatch(acct, b) ==
  [acct EXCEPT !.left[b] = @ - 1, !.pending[b] = @ + 1]

\* Slip: a response gives the charge back.
confirmSlip(acct, b) == [acct EXCEPT !.pending[b] = @ - 1]

\* confirm: a response moves the request to another category, no more.
confirm(acct, b) ==
  [acct EXCEPT !.pending[b] = @ - 1, !.completed = @ + 1]

\* claim_startup by the next attempt, whose slot nobody has used.  An analysis
\* abort names its owner, so that run has no next one (__post_init__).
CanClaim(acct, a) ==
  a \in Attempts \ acct.used /\ a > acct.owner /\ acct.closed # "aborted"

claim_startup(acct, a) ==
  [acct EXCEPT !.owner = a, !.used = @ \cup {a}]

\* The two reservations every owner makes with its claim.
ReserveBoth(acct, a) ==
  reserve(reserve(acct, <<a, "review">>, WorkGrant[a]), <<a, "terminal">>, TerminalGrant[a])

\* require_successor: what a later record must keep of an earlier one.
require_successor(acct, next) ==
  /\ acct.closed = "open" \/ next.closed = acct.closed
  /\ \/ next.owner = acct.owner /\ next.used = acct.used
     \/ CanClaim(acct, next.owner) /\ next.used = acct.used \cup {next.owner}
  /\ next.completed >= acct.completed
  /\ remaining(next) <= remaining(acct)
  /\ acct.reserved \subseteq next.reserved
  /\ \A b \in next.reserved \ acct.reserved : b[1] = next.owner
  /\ \A b \in acct.reserved :
       b[1] # next.owner => next.left[b] = acct.left[b]
  /\ uncertain(acct) + acct.completed <= uncertain(next) + next.completed
=============================================================================

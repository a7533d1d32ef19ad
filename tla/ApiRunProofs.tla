---------------------------- MODULE ApiRunProofs ----------------------------
(***************************************************************************)
(* For every limit, every startup and terminal size and every schedule:    *)
(* the two attempts of a run never send more requests than its allowance,  *)
(* and what a process knows of the session record is true of it.           *)
(*                                                                         *)
(* The bound alone is not inductive.  The first invariant says what pays   *)
(* for every request: a startup slot until the process is active, and from *)
(* then on the two blocks its own owner was granted.  What the stored      *)
(* record says of the predecessor plays no part in it, which is why a      *)
(* record that is behind, or that a late write has replaced, does no harm. *)
(***************************************************************************)
EXTENDS ApiRun, TLAPS

\* What an owner was granted, and what is left of it in an accounting.
Grant(a)       == WorkGrant[a] + TerminalGrant[a]
OwnLeft(acct, a) == acct.left[<<a, "review">>] + acct.left[<<a, "terminal">>]

\* A record write is in progress.
Writing == pc \in {"find", "confirm", "write", "echo", "retry"}

\* The write of a process that is not active yet is the one that activates it,
\* and its record holds both of the owner's blocks in full.
Phases ==
  /\ pc # "ended" => attempt \in Attempts
  /\ pc \in {"ended", "startup"} => ~active
  /\ pc = "idle" => active
  /\ Writing => (active <=> kind \notin {"enrol", "recover"})
  /\ Writing /\ kind = "enrol" => attempt = 1
  /\ Writing /\ kind = "recover" => attempt = 2
  /\ Writing /\ ~active /\ pc # "find" => OwnLeft(cand.acct, attempt) = Grant(attempt)
  /\ pc = "find" => kind # "enrol"

\* Every request was paid from a startup slot or from the owner's blocks.
Accounted ==
  /\ pc = "ended" => startup = 0
  /\ pc # "ended" =>
       /\ startup <= StartupSlots[attempt]
       /\ wire[attempt] = startup + (IF active THEN Grant(attempt) - OwnLeft(mem, attempt) ELSE 0)
  /\ \A a \in Attempts : wire[a] <= StartupSlots[a] + Grant(a)
  /\ \A a \in Attempts : a > attempt => wire[a] = 0

Inv == TypeOK /\ Phases /\ Accounted

-----------------------------------------------------------------------------
(* The accounting values *)

USE DEF Attempts, BlockIds

\* The two attempts of a run share out exactly its limit.
LEMMA GrantsShareTheLimit ==
  /\ Limit \in Nat /\ StartupSlots[1] \in Nat /\ StartupSlots[2] \in Nat
  /\ WorkGrant \in [Attempts -> Nat] /\ TerminalGrant \in [Attempts -> Nat]
  /\ \A a \in Attempts : Grant(a) \in Nat
  /\ StartupSlots[1] + Grant(1) + StartupSlots[2] + Grant(2) = Limit
<1>1. /\ Limit \in Nat /\ DefaultLimit \in Nat /\ TerminalBase \in Nat
      /\ TerminalExpanded \in Nat /\ TerminalBase <= TerminalExpanded
      /\ StartupSlots[1] \in Nat /\ StartupSlots[2] \in Nat
      /\ \A a \in Attempts : work_requests(Limit, a) >= 4
  BY AllowanceAssumption DEF MinOperation, WriteTail
<1>2. ASSUME NEW a \in Attempts, NEW limit \in Nat PROVE OwnerTotal(limit, a) \in Int
  BY <1>1 DEF OwnerTotal, Liability
<1>3. ASSUME NEW a \in Attempts
      PROVE  /\ terminal_requests(Limit, a) \in Nat
             /\ work_requests(Limit, a) \in Nat
             /\ work_requests(Limit, a) + terminal_requests(Limit, a) = OwnerTotal(Limit, a)
  <2>1. /\ OwnerTotal(Limit, a) \in Int /\ OwnerTotal(DefaultLimit, a) \in Int
        /\ work_requests(Limit, a) >= 4
    BY <1>1, <1>2
  <2>2. terminal_requests(Limit, a) \in Nat
    BY <1>1, <2>1 DEF terminal_requests
  <2> QED BY <2>1, <2>2 DEF work_requests
<1>4. /\ WorkGrant \in [Attempts -> Nat] /\ TerminalGrant \in [Attempts -> Nat]
      /\ \A a \in Attempts : Grant(a) \in Nat /\ Grant(a) = OwnerTotal(Limit, a)
  BY <1>3, <1>2 DEF WorkGrant, TerminalGrant, Grant
<1>5. OwnerTotal(Limit, 1) + OwnerTotal(Limit, 2) = Limit - Liability
  BY <1>1 DEF OwnerTotal, Liability
<1> QED BY <1>1, <1>4, <1>5 DEF Liability

\* A dispatch takes one request out of its block and touches no other.
LEMMA DispatchTakesOne ==
  ASSUME NEW acct \in Account, NEW b \in BlockIds, acct.left[b] > 0
  PROVE  /\ dispatch(acct, b) \in Account
         /\ dispatch(acct, b).left = [acct.left EXCEPT ![b] = @ - 1]
         /\ dispatch(acct, b).pending[b] > 0
<1> DEFINE left    == [acct.left EXCEPT ![b] = @ - 1]
           pending == [acct.pending EXCEPT ![b] = @ + 1]
<1>1. left \in [BlockIds -> Nat] /\ pending \in [BlockIds -> Nat] /\ pending[b] > 0
  BY DEF Account
<1>2. dispatch(acct, b) = [acct EXCEPT !.left = left, !.pending = pending]
  BY DEF dispatch
<1> HIDE DEF left, pending
<1>3. dispatch(acct, b) \in Account /\ dispatch(acct, b).left = left /\ dispatch(acct, b).pending = pending
  BY <1>1, <1>2 DEF Account
<1> QED BY <1>1, <1>3 DEF left

\* A response changes the category of a request and no capacity.
LEMMA ConfirmKeepsCapacity ==
  ASSUME NEW acct \in Account, NEW b \in BlockIds, acct.pending[b] > 0
  PROVE  confirm(acct, b) \in Account /\ confirm(acct, b).left = acct.left
<1> DEFINE pending == [acct.pending EXCEPT ![b] = @ - 1]
<1>1. pending \in [BlockIds -> Nat]
  BY DEF Account
<1>2. confirm(acct, b) = [acct EXCEPT !.pending = pending, !.completed = acct.completed + 1]
  BY DEF confirm
<1>3. acct.completed + 1 \in Nat
  BY DEF Account
<1> HIDE DEF pending
<1> QED BY <1>1, <1>2, <1>3 DEF Account

LEMMA InitialAccount ==
  initial_accounting \in Account /\ Missing \in Records /\ Missing.acct = initial_accounting
<1>1. initial_accounting \in Account
  BY DEF initial_accounting, Account
<1> QED BY <1>1 DEF Missing, Records, TxPhases

\* A reservation sets its block and touches no other.
LEMMA ReserveSetsBlock ==
  ASSUME NEW acct \in Account, NEW b \in BlockIds, NEW n \in Nat
  PROVE  reserve(acct, b, n) \in Account /\ reserve(acct, b, n).left = [acct.left EXCEPT ![b] = n]
<1> DEFINE left == [acct.left EXCEPT ![b] = n]
<1>1. left \in [BlockIds -> Nat]
  BY DEF Account
<1>2. reserve(acct, b, n) = [acct EXCEPT !.reserved = acct.reserved \cup {b}, !.left = left]
  BY DEF reserve
<1>3. acct.reserved \cup {b} \in SUBSET BlockIds
  BY DEF Account
<1> HIDE DEF left
<1>4. reserve(acct, b, n) \in Account /\ reserve(acct, b, n).left = left
  BY <1>1, <1>2, <1>3 DEF Account
<1> QED BY <1>4 DEF left

\* The claim of an owner grants its two blocks in full.
LEMMA ReserveGrants ==
  ASSUME NEW acct \in Account, NEW a \in Attempts
  PROVE  ReserveBoth(acct, a) \in Account /\ OwnLeft(ReserveBoth(acct, a), a) = Grant(a)
<1> DEFINE r == <<a, "review">>
           t == <<a, "terminal">>
<1>1. /\ WorkGrant[a] \in Nat /\ TerminalGrant[a] \in Nat
      /\ r \in BlockIds /\ t \in BlockIds /\ r # t
  BY GrantsShareTheLimit
<1> HIDE DEF r, t
<1>2. PICK first : first = reserve(acct, r, WorkGrant[a])
  OBVIOUS
<1>3. first \in Account /\ first.left = [acct.left EXCEPT ![r] = WorkGrant[a]]
  BY <1>1, <1>2, ReserveSetsBlock
<1>4. PICK both : both = reserve(first, t, TerminalGrant[a])
  OBVIOUS
<1>5. both \in Account /\ both.left = [first.left EXCEPT ![t] = TerminalGrant[a]]
  BY <1>1, <1>3, <1>4, ReserveSetsBlock
<1>6. both.left[r] = WorkGrant[a] /\ both.left[t] = TerminalGrant[a]
  BY <1>1, <1>3, <1>5 DEF Account
<1>7. ReserveBoth(acct, a) = both
  BY <1>2, <1>4 DEF ReserveBoth, r, t
<1> QED BY <1>5, <1>6, <1>7 DEF OwnLeft, Grant, r, t

\* What each mutation makes of the accounting it is given: the two activating
\* ones grant their owner's blocks, the others leave every block alone.
LEMMA CandidateGrants ==
  ASSUME NEW k \in Kinds, NEW from \in Records, NEW acct \in Account
  PROVE  /\ Candidate(k, from, acct) \in Records
         /\ k \notin {"enrol", "recover"} => Candidate(k, from, acct).acct.left = acct.left
         /\ k = "enrol" => OwnLeft(Candidate(k, from, acct).acct, 1) = Grant(1)
         /\ k = "recover" => OwnLeft(Candidate(k, from, acct).acct, 2) = Grant(2)
<1> DEFINE next == Candidate(k, from, acct)
<1>1. /\ from.gen + 1 \in Nat /\ from.tx \in TxPhases /\ from.acct \in Account
  BY DEF Records
<1>2. next.tx \in TxPhases
  <2>1. CASE k \in {"reserve", "attach", "retain", "publish", "cleanup"}
    BY <2>1 DEF Candidate, TxPhases
  <2>2. CASE k \notin {"reserve", "attach", "retain", "publish", "cleanup"}
    <3>1. next.tx = from.tx
      BY <2>2 DEF Candidate
    <3> QED BY <1>1, <3>1
  <2> QED BY <2>1, <2>2
<1>3. claim_startup(from.acct, 2) \in Account
  <2>1. PICK x \in Account : x = from.acct
    BY <1>1
  <2>2. x.used \cup {2} \in SUBSET Attempts
    BY DEF Account
  <2>3. claim_startup(x, 2) = [x EXCEPT !.owner = 2, !.used = x.used \cup {2}]
    BY DEF claim_startup
  <2> QED BY <2>1, <2>2, <2>3 DEF Account
<1>4. CASE k = "enrol"
  <2>1. next.acct = ReserveBoth(initial_accounting, 1)
    BY <1>4 DEF Candidate
  <2>2. next.acct \in Account /\ OwnLeft(next.acct, 1) = Grant(1)
    BY <2>1, InitialAccount, ReserveGrants
  <2> QED BY <1>1, <1>2, <1>4, <2>2 DEF Records, Candidate
<1>5. CASE k = "recover"
  <2>1. next.acct = ReserveBoth(claim_startup(from.acct, 2), 2)
    BY <1>5 DEF Candidate
  <2>2. next.acct \in Account /\ OwnLeft(next.acct, 2) = Grant(2)
    BY <2>1, <1>3, ReserveGrants
  <2> QED BY <1>1, <1>2, <1>5, <2>2 DEF Records, Candidate
<1>6. CASE k \notin {"enrol", "recover"}
  <2>1. next.acct \in {acct, [acct EXCEPT !.closed = "published"], [acct EXCEPT !.closed = "aborted"]}
    BY <1>6 DEF Candidate
  <2>2. next.acct \in Account /\ next.acct.left = acct.left
    BY <2>1 DEF Account
  <2> QED BY <1>1, <1>2, <1>6, <2>2 DEF Records, Candidate
<1> QED BY <1>4, <1>5, <1>6

-----------------------------------------------------------------------------
(* One metered request *)

\* The block in use is one of the process's own two.
LEMMA BlockIsOwn ==
  ASSUME TypeOK, attempt \in Attempts
  PROVE  /\ Block \in {<<attempt, "review">>, <<attempt, "terminal">>}
         /\ Block \in BlockIds
BY DEF Block

\* A charge takes one request from what the process has left, answered or not.
LEMMA ChargeTakesOne ==
  ASSUME TypeOK, attempt \in Attempts, active => mem.left[Block] > 0, NEW answered \in BOOLEAN
  PROVE  /\ Charged(answered) \in Account
         /\ OwnLeft(Charged(answered), attempt)
              = OwnLeft(mem, attempt) - (IF active THEN 1 ELSE 0)
         /\ active => Charged(answered).left = [mem.left EXCEPT ![Block] = @ - 1]
<1>1. mem \in Account /\ mem.left \in [BlockIds -> Nat] /\ active \in BOOLEAN
  BY DEF TypeOK, Account
<1>2. CASE ~active
  BY <1>1, <1>2 DEF Charged, OwnLeft
<1>3. CASE active
  <2>1. /\ dispatch(mem, Block) \in Account
        /\ dispatch(mem, Block).left = [mem.left EXCEPT ![Block] = @ - 1]
        /\ dispatch(mem, Block).pending[Block] > 0
    BY <1>1, <1>3, BlockIsOwn, DispatchTakesOne
  <2>2. /\ Charged(answered) \in Account
        /\ Charged(answered).left = [mem.left EXCEPT ![Block] = @ - 1]
    BY <1>3, <2>1, BlockIsOwn, ConfirmKeepsCapacity DEF Charged
  <2> QED BY <1>1, <1>3, <2>2, BlockIsOwn DEF OwnLeft
<1> QED BY <1>1, <1>2, <1>3

\* A request is sent only while the slot or the block has one left.
LEMMA FundedIsPaid ==
  ASSUME TypeOK, attempt \in Attempts, NEW mutation \in BOOLEAN, Funded(mutation)
  PROVE  /\ active => mem.left[Block] > 0
         /\ ~active => startup + 1 <= StartupSlots[attempt]
BY GrantsShareTheLimit DEF Funded, CanDispatch, TypeOK

\* A request of an operation leaves its count a natural number.
LEMMA OperationIsPaid ==
  ASSUME TypeOK, NEW mutation \in BOOLEAN, OperationFunds(mutation)
  PROVE  Spent(mutation) \in Operations
BY DEF OperationFunds, Spent, CanRead, CanWrite, consume, Operations, TypeOK, WriteTail

\* The requests of one step, charged as they are sent, keep the account.
LEMMA RequestsAccounted ==
  ASSUME Inv, pc # "ended", NEW n \in Nat, Sent(n),
         active' = active, attempt' = attempt, pc' # "ended",
         ~active => startup + n <= StartupSlots[attempt],
         mem' \in Account,
         OwnLeft(mem', attempt) = OwnLeft(mem, attempt) - (IF active THEN n ELSE 0)
  PROVE  Accounted' /\ wire' \in [Attempts -> Nat] /\ startup' \in Nat
<1>1. /\ attempt \in Attempts /\ wire \in [Attempts -> Nat] /\ startup \in Nat
      /\ active \in BOOLEAN /\ mem \in Account
  BY DEF Inv, Phases, TypeOK
<1>2. OwnLeft(mem, attempt) \in Nat /\ OwnLeft(mem', attempt) \in Nat
  BY <1>1 DEF OwnLeft, Account
<1>3. Grant(attempt) \in Nat /\ StartupSlots[attempt] \in Nat
  BY <1>1, GrantsShareTheLimit
<1>4. /\ wire' = [wire EXCEPT ![attempt] = @ + n]
      /\ startup' = IF active THEN startup ELSE startup + n
  BY DEF Sent
<1>5. /\ startup <= StartupSlots[attempt]
      /\ wire[attempt] = startup + (IF active THEN Grant(attempt) - OwnLeft(mem, attempt) ELSE 0)
      /\ \A a \in Attempts : wire[a] <= StartupSlots[a] + Grant(a)
      /\ \A a \in Attempts : a > attempt => wire[a] = 0
  BY DEF Inv, Accounted
<1>6. /\ startup' <= StartupSlots[attempt]
      /\ wire'[attempt] = startup' + (IF active THEN Grant(attempt) - OwnLeft(mem', attempt) ELSE 0)
      /\ wire'[attempt] <= StartupSlots[attempt] + Grant(attempt)
  BY <1>1, <1>2, <1>3, <1>4, <1>5
<1>7. \A a \in Attempts : a # attempt => wire'[a] = wire[a]
  BY <1>1, <1>4
<1>8. wire' \in [Attempts -> Nat] /\ startup' \in Nat
  BY <1>1, <1>4
<1>9. (\A a \in Attempts : wire[a] <= StartupSlots[a] + Grant(a))'
  BY <1>5, <1>6, <1>7 DEF Grant
<1>10. (\A a \in Attempts : a > attempt => wire[a] = 0)'
  BY <1>1, <1>5, <1>7
<1> QED BY <1>6, <1>8, <1>9, <1>10 DEF Accounted, OwnLeft, Grant

\* A step that sends nothing and keeps the accounting keeps the account.
LEMMA NothingAccounted ==
  ASSUME Inv, UNCHANGED <<wire, startup, mem, active, attempt>>,
         (pc' = "ended") = (pc = "ended")
  PROVE  Accounted'
BY DEF Inv, Accounted, OwnLeft, Grant

\* The read that confirms the activation is the last one the slot pays for.
LEMMA ActivationAccounted ==
  ASSUME Inv, pc # "ended", ~active, Sent(1), startup + 1 <= StartupSlots[attempt],
         active' = TRUE, attempt' = attempt, pc' # "ended",
         mem' \in Account, OwnLeft(mem', attempt) = Grant(attempt)
  PROVE  Accounted' /\ wire' \in [Attempts -> Nat] /\ startup' \in Nat
<1>1. /\ attempt \in Attempts /\ wire \in [Attempts -> Nat] /\ startup \in Nat
  BY DEF Inv, Phases, TypeOK
<1>2. Grant(attempt) \in Nat /\ StartupSlots[attempt] \in Nat
  BY <1>1, GrantsShareTheLimit
<1>3. wire' = [wire EXCEPT ![attempt] = @ + 1] /\ startup' = startup + 1
  BY DEF Sent
<1>4. /\ wire[attempt] = startup
      /\ \A a \in Attempts : wire[a] <= StartupSlots[a] + Grant(a)
      /\ \A a \in Attempts : a > attempt => wire[a] = 0
  BY <1>1 DEF Inv, Accounted
<1>5. /\ wire'[attempt] = startup' /\ startup' <= StartupSlots[attempt]
      /\ wire'[attempt] <= StartupSlots[attempt] + Grant(attempt)
  BY <1>1, <1>2, <1>3, <1>4
<1>6. \A a \in Attempts : a # attempt => wire'[a] = wire[a]
  BY <1>1, <1>3
<1>7. wire' \in [Attempts -> Nat] /\ startup' \in Nat
  BY <1>1, <1>3
<1>8. (\A a \in Attempts : wire[a] <= StartupSlots[a] + Grant(a))'
  BY <1>4, <1>5, <1>6 DEF Grant
<1>9. (\A a \in Attempts : a > attempt => wire[a] = 0)'
  BY <1>1, <1>4, <1>6
<1>10. (startup + (IF active THEN Grant(attempt) - OwnLeft(mem, attempt) ELSE 0))' = startup'
  BY <1>2, <1>7 DEF Grant, OwnLeft
<1> QED BY <1>5, <1>7, <1>8, <1>9, <1>10 DEF Accounted

\* One funded request, whatever becomes of its answer, keeps the account.
LEMMA RequestStep ==
  ASSUME Inv, pc # "ended", NEW mutation \in BOOLEAN, Funded(mutation), Sent(1),
         mem' \in {Charged(TRUE), Charged(FALSE)},
         active' = active, attempt' = attempt, pc' # "ended"
  PROVE  Accounted' /\ wire' \in [Attempts -> Nat] /\ startup' \in Nat /\ mem' \in Account
<1>1. TypeOK /\ attempt \in Attempts
  BY DEF Inv, Phases
<1>2. /\ active => mem.left[Block] > 0
      /\ ~active => startup + 1 <= StartupSlots[attempt]
  BY <1>1, FundedIsPaid
<1>3. /\ mem' \in Account
      /\ OwnLeft(mem', attempt) = OwnLeft(mem, attempt) - (IF active THEN 1 ELSE 0)
  BY <1>1, <1>2, ChargeTakesOne
<1> QED BY <1>2, <1>3, RequestsAccounted

-----------------------------------------------------------------------------
(* The invariant holds at first, and every action keeps it *)

LEMMA InitInv == Init => Inv
<1> SUFFICES ASSUME Init PROVE Inv
  OBVIOUS
<1>1. TypeOK
  <2>1. NoOperation \in Operations /\ "enrol" \in Kinds
    BY DEF Operations, NoOperation, Kinds
  <2>2. wire \in [Attempts -> Nat]
    BY DEF Init
  <2>3. flight \subseteq Records /\ failed \subseteq Kinds
    BY DEF Init
  <2>4. /\ durable \in Records /\ mem \in Account /\ root \in Records /\ cand \in Records
        /\ op \in Operations /\ kind \in Kinds
    BY <2>1, InitialAccount, Zenon DEF Init
  <2>7. attempt \in 0..2 /\ startup \in Nat
    BY DEF Init
  <2>5. /\ active \in BOOLEAN
        /\ own \in BOOLEAN /\ entered \in BOOLEAN /\ aborting \in BOOLEAN /\ doubt \in BOOLEAN
    BY Zenon DEF Init
  <2>6. /\ pc \in {"ended", "startup", "find", "confirm", "write", "echo", "retry", "idle", "stuck"}
        /\ terminal \in {"no", "publish", "abort"}
    BY DEF Init
  <2> QED BY <2>2, <2>3, <2>4, <2>5, <2>6, <2>7 DEF TypeOK
<1>2. Phases
  BY DEF Init, Phases, Writing
<1>3. Accounted
  BY GrantsShareTheLimit DEF Init, Accounted
<1> QED BY <1>1, <1>2, <1>3 DEF Inv

\* A process that forgets leaves typed values behind.
LEMMA ForgetTypes ==
  ASSUME Forget
  PROVE  /\ startup' \in Nat /\ active' \in BOOLEAN /\ mem' \in Account
         /\ root' \in Records /\ cand' \in Records /\ kind' \in Kinds
         /\ op' \in Operations /\ failed' \subseteq Kinds
         /\ terminal' \in {"no", "publish", "abort"}
         /\ own' \in BOOLEAN /\ entered' \in BOOLEAN
         /\ aborting' \in BOOLEAN /\ doubt' \in BOOLEAN
<1>1. NoOperation \in Operations /\ "enrol" \in Kinds
  BY DEF Operations, NoOperation, Kinds
<1>2. /\ startup' \in Nat /\ failed' \subseteq Kinds /\ terminal' \in {"no", "publish", "abort"}
  BY DEF Forget
<1>3. /\ active' \in BOOLEAN /\ own' \in BOOLEAN /\ entered' \in BOOLEAN
      /\ aborting' \in BOOLEAN /\ doubt' \in BOOLEAN
  BY Zenon DEF Forget
<1>4. /\ mem' \in Account /\ root' \in Records /\ cand' \in Records
      /\ kind' \in Kinds /\ op' \in Operations
  BY <1>1, InitialAccount, Zenon DEF Forget
<1> QED BY <1>2, <1>3, <1>4

\* Processes come and go, and late writes land, without a request.
LEMMA ProcessStep ==
  ASSUME Inv, Start \/ End \/ Land PROVE Inv'
<1>1. CASE Start
  <2>1. TypeOK'
    BY <1>1, RunAssumption DEF Inv, TypeOK, Start, github, meter, writing, review
  <2>2. Phases'
    BY <1>1, RunAssumption DEF Inv, TypeOK, Phases, Writing, Start
  <2>3. Accounted'
    BY <1>1, <2>2, GrantsShareTheLimit
    DEF Inv, TypeOK, Phases, Accounted, Start, meter
  <2> QED BY <2>1, <2>2, <2>3 DEF Inv
<1>2. CASE End
  <2>1. TypeOK'
    BY <1>2, ForgetTypes DEF Inv, TypeOK, End, github
  <2>2. Phases'
    BY <1>2 DEF Inv, Phases, Writing, End, Forget
  <2>3. Accounted'
    BY <1>2 DEF Inv, Accounted, End, Forget, Grant
  <2> QED BY <2>1, <2>2, <2>3 DEF Inv
<1>3. CASE Land
  <2>1. TypeOK'
    BY <1>3 DEF Inv, TypeOK, Land, meter, writing, review
  <2>2. Phases'
    BY <1>3 DEF Inv, Phases, Writing, Land, writing, OwnLeft, Grant
  <2>3. Accounted'
    BY <1>3, NothingAccounted DEF Land, meter
  <2> QED BY <2>1, <2>2, <2>3 DEF Inv
<1> QED BY <1>1, <1>2, <1>3

LEMMA StartupStep ==
  ASSUME Inv, StartupRead \/ Load PROVE Inv'
<1>1. CASE StartupRead
  <2>1. pc = "startup" /\ ~active /\ mem' = Charged(TRUE)
    BY <1>1 DEF Inv, Phases, TypeOK, StartupRead, Charged
  <2>2. Accounted' /\ wire' \in [Attempts -> Nat] /\ startup' \in Nat
    BY <1>1, <2>1, RequestStep DEF StartupRead
  <2>3. TypeOK'
    BY <1>1, <2>2 DEF Inv, TypeOK, StartupRead, github, writing, review
  <2>4. Phases'
    BY <1>1 DEF Inv, Phases, Writing, StartupRead, writing, OwnLeft, Grant
  <2> QED BY <2>2, <2>3, <2>4 DEF Inv
<1>2. CASE Load
  <2>1. pc = "startup" /\ ~active /\ mem' = Charged(TRUE) /\ pc' \in {"find", "confirm"}
    BY <1>2 DEF Inv, Phases, TypeOK, Load, Charged
  <2>2. Accounted' /\ wire' \in [Attempts -> Nat] /\ startup' \in Nat
    BY <1>2, <2>1, RequestStep DEF Load
  <2>3. /\ Candidate("enrol", durable, mem) \in Records
        /\ OwnLeft(Candidate("enrol", durable, mem).acct, 1) = Grant(1)
    BY CandidateGrants DEF Inv, TypeOK, Kinds
  <2>4. cand' \in Records /\ root' \in Records /\ kind' \in Kinds
    BY <1>2, <2>3 DEF Inv, TypeOK, Load, Kinds
  <2>5. TypeOK'
    BY <1>2, <2>1, <2>2, <2>4 DEF Inv, TypeOK, Load, github, review
  <2>6. Phases'
    BY <1>2, <2>1, <2>3 DEF Inv, Phases, Writing, Load, OwnLeft, Grant
  <2> QED BY <2>2, <2>5, <2>6 DEF Inv
<1> QED BY <1>1, <1>2

\* A write begins, is prepared, and may be given up before it is sent.
LEMMA BeginStep ==
  ASSUME Inv, NEW k \in Kinds, Begin(k) PROVE Inv'
<1>1. k \notin {"enrol", "recover"}
  BY DEF Begin, MayBegin
<1>2. Usable \in Nat
  BY BlockIsOwn DEF Begin, Usable, Inv, TypeOK, Phases, Account
<1>3. op' \in Operations
  BY <1>2, RunAssumption DEF Begin, Operations
<1>4. TypeOK'
  BY <1>3 DEF Inv, TypeOK, Begin, github, meter, review
<1>5. Phases'
  BY <1>1 DEF Inv, Phases, Writing, Begin, OwnLeft, Grant
<1>6. Accounted'
  BY NothingAccounted DEF Begin, meter
<1> QED BY <1>4, <1>5, <1>6 DEF Inv

LEMMA FenceStep ==
  ASSUME Inv, Scan \/ Confirm PROVE Inv'
<1>1. /\ pc \in {"find", "confirm"} /\ pc' # "ended" /\ mem' = Charged(TRUE)
      /\ OperationFunds(FALSE) /\ Funded(FALSE) /\ Sent(1) /\ op' = Spent(FALSE)
      /\ active' = active /\ attempt' = attempt
  BY DEF Scan, Confirm, OperationRead, OperationFunds
<1>2. Accounted' /\ wire' \in [Attempts -> Nat] /\ startup' \in Nat /\ mem' \in Account
  BY <1>1, RequestStep
<1>3. op' \in Operations
  BY <1>1, OperationIsPaid DEF Inv
<1>4. TypeOK'
  BY <1>1, <1>2, <1>3 DEF Inv, TypeOK, Scan, Confirm, github, review
<1>5. Phases'
  BY <1>1 DEF Inv, Phases, Writing, Scan, Confirm, OwnLeft, Grant
<1> QED BY <1>2, <1>4, <1>5 DEF Inv

LEMMA PrepareStep ==
  ASSUME Inv, Prepare PROVE Inv'
<1>1. /\ pc = "find" /\ OperationFunds(FALSE) /\ Funded(FALSE) /\ Sent(1) /\ op' = Spent(FALSE)
      /\ cand' = Candidate(kind, root, Charged(TRUE))
      /\ mem' = IF active THEN cand'.acct ELSE mem
      /\ active' = active /\ attempt' = attempt /\ kind' = kind /\ pc' = "confirm"
  BY DEF Prepare, OperationRead, OperationFunds
<1>2. TypeOK /\ attempt \in Attempts /\ mem \in Account /\ active \in BOOLEAN
  BY <1>1 DEF Inv, Phases, TypeOK
<1>3. /\ Charged(TRUE) \in Account
      /\ OwnLeft(Charged(TRUE), attempt) = OwnLeft(mem, attempt) - (IF active THEN 1 ELSE 0)
      /\ ~active => startup + 1 <= StartupSlots[attempt]
  BY <1>1, <1>2, FundedIsPaid, ChargeTakesOne
<1>4. /\ cand' \in Records
      /\ kind \notin {"enrol", "recover"} => cand'.acct.left = Charged(TRUE).left
      /\ kind = "recover" => OwnLeft(cand'.acct, 2) = Grant(2)
  BY <1>1, <1>2, <1>3, CandidateGrants DEF TypeOK
<1>5. active => kind \notin {"enrol", "recover"}
  BY <1>1 DEF Inv, Phases, Writing
<1>6. /\ mem' \in Account
      /\ OwnLeft(mem', attempt) = OwnLeft(mem, attempt) - (IF active THEN 1 ELSE 0)
  <2>1. CASE active
    <3>1. mem' = cand'.acct /\ cand'.acct.left = Charged(TRUE).left
      BY <1>1, <1>4, <1>5, <2>1
    <3>2. cand'.acct \in Account
      BY <1>4 DEF Records
    <3> QED BY <1>3, <3>1, <3>2, <2>1 DEF OwnLeft
  <2>2. CASE ~active
    <3>1. mem' = mem /\ OwnLeft(mem, attempt) \in Nat
      BY <1>1, <1>2, <2>2 DEF OwnLeft, Account
    <3>2. OwnLeft(mem', attempt) = OwnLeft(mem, attempt)
      BY <3>1 DEF OwnLeft
    <3> QED BY <1>2, <2>2, <3>1, <3>2
  <2> QED BY <1>2, <2>1, <2>2
<1>7. Accounted' /\ wire' \in [Attempts -> Nat] /\ startup' \in Nat
  BY <1>1, <1>3, <1>6, RequestsAccounted
<1>8. op' \in Operations
  BY <1>1, OperationIsPaid DEF Inv
<1>9. TypeOK'
  BY <1>1, <1>4, <1>6, <1>7, <1>8 DEF Inv, TypeOK, Prepare, github, review
<1>10. Phases'
  BY <1>1, <1>4 DEF Inv, Phases, Writing, OwnLeft, Grant
<1> QED BY <1>7, <1>9, <1>10 DEF Inv

LEMMA AbandonStep ==
  ASSUME Inv, Abandon \/ AbandonStartup PROVE Inv'
<1>1. CASE Abandon
  <2>1. /\ pc \in {"find", "confirm"} /\ active /\ active' = active /\ attempt' = attempt
        /\ pc' = "idle" /\ cand' = Missing /\ kind' = "enrol" /\ op' = NoOperation
        /\ failed' = failed \cup {kind}
    BY <1>1 DEF Abandon, Settle
  <2>2. Accounted' /\ wire' \in [Attempts -> Nat] /\ startup' \in Nat /\ mem' \in Account
    <3>1. CASE OperationFunds(FALSE) /\ Sent(1) /\ mem' \in {Charged(TRUE), Charged(FALSE)}
      BY <2>1, <3>1, RequestStep DEF OperationFunds
    <3>2. CASE UNCHANGED meter
      BY <2>1, <3>2, NothingAccounted DEF meter, Inv, TypeOK
    <3> QED BY <1>1, <3>1, <3>2 DEF Abandon
  <2>3. NoOperation \in Operations /\ "enrol" \in Kinds /\ failed' \subseteq Kinds
    BY <2>1 DEF NoOperation, Operations, Kinds, Inv, TypeOK
  <2>4. TypeOK'
    BY <1>1, <2>1, <2>2, <2>3, InitialAccount DEF Inv, TypeOK, Abandon, github, review
  <2>5. Phases'
    BY <2>1 DEF Inv, Phases, Writing
  <2> QED BY <2>2, <2>4, <2>5 DEF Inv
<1>2. CASE AbandonStartup
  <2>1. /\ pc \in {"find", "confirm"} /\ ~active /\ attempt' = attempt /\ pc' = "ended"
        /\ wire' = [wire EXCEPT ![attempt] = @ + 1] /\ Forget /\ attempt \in Attempts /\ TypeOK
        /\ startup + 1 <= StartupSlots[attempt]
    BY <1>2, FundedIsPaid DEF AbandonStartup, Inv, Phases
  <2>2. TypeOK'
    <3>1. wire' \in [Attempts -> Nat]
      BY <2>1 DEF TypeOK
    <3> QED BY <1>2, <2>1, <3>1, ForgetTypes DEF AbandonStartup, TypeOK, github
  <2>3. Phases'
    BY <2>1 DEF Phases, Writing, Forget
  <2>4. Accounted'
    <3>1. /\ wire[attempt] = startup /\ startup \in Nat /\ wire \in [Attempts -> Nat]
          /\ \A a \in Attempts : wire[a] <= StartupSlots[a] + Grant(a)
          /\ \A a \in Attempts : a > attempt => wire[a] = 0
      BY <2>1 DEF Inv, Accounted, TypeOK
    <3>2. StartupSlots[attempt] \in Nat /\ Grant(attempt) \in Nat
      BY <2>1, GrantsShareTheLimit
    <3>3. wire'[attempt] <= StartupSlots[attempt] + Grant(attempt)
      BY <2>1, <3>1, <3>2
    <3>4. \A a \in Attempts : a # attempt => wire'[a] = wire[a]
      BY <2>1, <3>1
    <3>5. (\A a \in Attempts : wire[a] <= StartupSlots[a] + Grant(a))'
      BY <3>1, <3>3, <3>4 DEF Grant
    <3>6. (\A a \in Attempts : a > attempt => wire[a] = 0)'
      BY <2>1, <3>1, <3>4
    <3> QED BY <2>1, <3>5, <3>6 DEF Accounted, Forget
  <2> QED BY <2>2, <2>3, <2>4 DEF Inv
<1> QED BY <1>1, <1>2

\* The write itself, and the reads that confirm it.
LEMMA WriteStep ==
  ASSUME Inv, Write PROVE Inv'
<1>1. /\ pc = "write" /\ OperationFunds(TRUE) /\ Funded(TRUE) /\ Sent(1)
      /\ active' = active /\ attempt' = attempt
      /\ mem' \in {Charged(TRUE), Charged(FALSE)}
      /\ pc' \in {"echo", "retry", "stuck"}
      /\ pc' # "stuck" => cand' = cand /\ kind' = kind /\ op' = Spent(TRUE)
      /\ pc' = "stuck" => cand' = Missing /\ kind' = "enrol" /\ op' = NoOperation
      /\ durable' \in {durable, cand} /\ flight' \subseteq flight \cup {cand}
  BY DEF Write, OperationFunds, Settle, github
<1>2. Accounted' /\ wire' \in [Attempts -> Nat] /\ startup' \in Nat /\ mem' \in Account
  BY <1>1, RequestStep
<1>3. op' \in Operations /\ kind' \in Kinds /\ cand' \in Records
  <2>1. Spent(TRUE) \in Operations
    BY <1>1, OperationIsPaid DEF Inv
  <2>2. NoOperation \in Operations /\ "enrol" \in Kinds
    BY DEF NoOperation, Operations, Kinds
  <2>3. cand \in Records /\ kind \in Kinds
    BY DEF Inv, TypeOK
  <2> QED BY <1>1, <2>1, <2>2, <2>3, InitialAccount, Zenon
<1>4. TypeOK'
  BY <1>1, <1>2, <1>3 DEF Inv, TypeOK, Write, review
<1>5. Phases'
  BY <1>1 DEF Inv, Phases, Writing, OwnLeft, Grant
<1> QED BY <1>2, <1>4, <1>5 DEF Inv

LEMMA AcceptStep ==
  ASSUME Inv, pc \in {"echo", "retry"}, OperationFunds(FALSE), Sent(1), Accept,
         UNCHANGED <<github, attempt>>
  PROVE  Inv'
<1>1. /\ active' = TRUE /\ cand' = Missing /\ kind' = "enrol" /\ op' = NoOperation
      /\ pc' \in {"stuck", "idle"} /\ Funded(FALSE) /\ attempt' = attempt
      /\ mem' = IF active THEN Charged(TRUE) ELSE cand.acct
  BY DEF Accept, Settle, OperationFunds
<1>2. TypeOK /\ attempt \in Attempts /\ cand \in Records
  BY DEF Inv, Phases, TypeOK
<1>3. Accounted' /\ wire' \in [Attempts -> Nat] /\ startup' \in Nat /\ mem' \in Account
  <2>1. CASE active
    BY <1>1, <2>1, RequestStep
  <2>2. CASE ~active
    <3>1. mem' = cand.acct /\ mem' \in Account /\ startup + 1 <= StartupSlots[attempt]
      BY <1>1, <1>2, <2>2, FundedIsPaid DEF Records
    <3>2. OwnLeft(mem', attempt) = Grant(attempt)
      BY <3>1, <2>2 DEF Inv, Phases, Writing, OwnLeft
    <3> QED BY <1>1, <2>2, <3>1, <3>2, ActivationAccounted
  <2> QED BY <2>1, <2>2
<1>4. /\ NoOperation \in Operations /\ "enrol" \in Kinds
      /\ own' \in BOOLEAN /\ aborting' \in BOOLEAN
  BY DEF NoOperation, Operations, Kinds, Accept
<1>5. TypeOK'
  BY <1>1, <1>2, <1>3, <1>4, InitialAccount DEF TypeOK, Accept, github
<1>6. Phases'
  BY <1>1, <1>2 DEF Phases, Writing
<1> QED BY <1>3, <1>5, <1>6 DEF Inv

LEMMA ReadBackStep ==
  ASSUME Inv, Echo \/ Reconcile PROVE Inv'
<1>1. /\ pc \in {"echo", "retry"} /\ OperationFunds(FALSE) /\ Funded(FALSE) /\ Sent(1)
      /\ UNCHANGED <<github, attempt>>
  BY DEF Echo, Reconcile, OperationFunds
<1>2. CASE Accept
  BY <1>1, <1>2, AcceptStep
<1>3. CASE ~Accept
  <2>1. /\ active' = active /\ attempt' = attempt /\ mem' \in {Charged(TRUE), Charged(FALSE)}
        /\ pc' \in {"retry", "stuck"} /\ (pc' = "retry" => pc = "echo" /\ active)
        /\ pc' = "retry" => cand' = cand /\ kind' = kind /\ op' = Spent(FALSE)
        /\ cand' \in {cand, Missing} /\ kind' \in {kind, "enrol"}
        /\ op' \in {Spent(FALSE), NoOperation}
        /\ UNCHANGED <<root, failed, review>>
    BY <1>3 DEF Echo, Reconcile, Refuse, Settle
  <2>2. Accounted' /\ wire' \in [Attempts -> Nat] /\ startup' \in Nat /\ mem' \in Account
    BY <1>1, <2>1, RequestStep
  <2>3. op' \in Operations /\ kind' \in Kinds /\ cand' \in Records
    <3>1. Spent(FALSE) \in Operations
      BY <1>1, OperationIsPaid DEF Inv
    <3>2. NoOperation \in Operations /\ "enrol" \in Kinds
      BY DEF NoOperation, Operations, Kinds
    <3>3. cand \in Records /\ kind \in Kinds
      BY DEF Inv, TypeOK
    <3> QED BY <2>1, <3>1, <3>2, <3>3, InitialAccount, Zenon
  <2>4. TypeOK'
    BY <1>1, <2>1, <2>2, <2>3 DEF Inv, TypeOK, github, review
  <2>5. Phases'
    BY <1>1, <2>1 DEF Inv, Phases, Writing, OwnLeft, Grant
  <2> QED BY <2>2, <2>4, <2>5 DEF Inv
<1> QED BY <1>2, <1>3

\* The other requests of an active process.
LEMMA ReadFreelyStep ==
  ASSUME Inv, ReadFreely PROVE Inv'
<1>1. /\ pc # "ended" /\ pc' = pc /\ Funded(FALSE) /\ Sent(1)
      /\ mem' \in {Charged(TRUE), Charged(FALSE)}
      /\ active' = active /\ attempt' = attempt
  BY DEF ReadFreely
<1>2. Accounted' /\ wire' \in [Attempts -> Nat] /\ startup' \in Nat /\ mem' \in Account
  BY <1>1, RequestStep
<1>3. TypeOK'
  BY <1>1, <1>2 DEF Inv, TypeOK, ReadFreely, github, writing, review
<1>4. Phases'
  BY <1>1 DEF Inv, Phases, Writing, ReadFreely, writing, OwnLeft, Grant
<1> QED BY <1>2, <1>3, <1>4 DEF Inv

\* A publication write settled by a read of its effect costs two requests.
LEMMA BusinessWriteStep ==
  ASSUME Inv, BusinessWrite PROVE Inv'
<1>1. /\ pc = "idle" /\ pc' = pc /\ Funded(TRUE) /\ active' = active /\ attempt' = attempt
      /\ UNCHANGED <<github, writing, terminal, own, entered, aborting>>
  BY DEF BusinessWrite
<1>2. /\ TypeOK /\ active /\ attempt \in Attempts /\ mem \in Account
      /\ mem.left[Block] >= 3
  BY <1>1 DEF Inv, Phases, TypeOK, Funded, Usable, WriteTail
<1>3. doubt' \in BOOLEAN
  BY <1>2, Zenon DEF BusinessWrite, TypeOK
<1>4. Accounted' /\ wire' \in [Attempts -> Nat] /\ startup' \in Nat /\ mem' \in Account
  <2>1. CASE Sent(1) /\ mem' \in {Charged(TRUE), Charged(FALSE)}
    BY <1>1, <2>1, RequestStep
  <2>2. CASE Sent(2) /\ mem' = confirm(dispatch(Charged(FALSE), Block), Block)
    <3>1. PICK first \in Account :
            /\ first = Charged(FALSE)
            /\ OwnLeft(first, attempt) = OwnLeft(mem, attempt) - 1
            /\ first.left = [mem.left EXCEPT ![Block] = @ - 1]
      <4>1. mem.left[Block] > 0
        BY <1>2, BlockIsOwn DEF Account
      <4>2. /\ Charged(FALSE) \in Account
            /\ OwnLeft(Charged(FALSE), attempt) = OwnLeft(mem, attempt) - 1
            /\ Charged(FALSE).left = [mem.left EXCEPT ![Block] = @ - 1]
        BY <1>2, <4>1, ChargeTakesOne
      <4> QED BY <4>2
    <3>8. Block \in BlockIds /\ first.left[Block] = mem.left[Block] - 1
      BY <1>2, <3>1, BlockIsOwn DEF Account
    <3>2. first.left[Block] > 0
      BY <1>2, <3>8, BlockIsOwn DEF Account
    <3>3. /\ dispatch(first, Block) \in Account
          /\ dispatch(first, Block).left = [first.left EXCEPT ![Block] = @ - 1]
          /\ dispatch(first, Block).pending[Block] > 0
      BY <3>2, <3>8, DispatchTakesOne
    <3>4. mem' \in Account /\ mem'.left = [first.left EXCEPT ![Block] = @ - 1]
      BY <1>2, <2>2, <3>1, <3>3, BlockIsOwn, ConfirmKeepsCapacity
    <3>5. OwnLeft(mem', attempt) = OwnLeft(first, attempt) - 1
      <4>1. first.left \in [BlockIds -> Nat]
        BY DEF Account
      <4> QED BY <1>2, <3>4, <4>1, BlockIsOwn DEF OwnLeft
    <3>6. OwnLeft(mem, attempt) \in Nat
      BY <1>2 DEF OwnLeft, Account
    <3>7. OwnLeft(mem', attempt) = OwnLeft(mem, attempt) - (IF active THEN 2 ELSE 0)
      BY <1>2, <3>1, <3>5, <3>6
    <3> QED BY <1>1, <1>2, <2>2, <3>4, <3>7, RequestsAccounted
  <2> QED BY <2>1, <2>2 DEF BusinessWrite
<1>5. TypeOK'
  BY <1>1, <1>2, <1>3, <1>4 DEF TypeOK, github, writing
<1>6. Phases'
  BY <1>1 DEF Inv, Phases, Writing, writing, OwnLeft, Grant
<1> QED BY <1>4, <1>5, <1>6 DEF Inv

\* Steps that only change what the process may do next.
LEMMA DecisionStep ==
  ASSUME Inv, EnterProvider \/ (\E reason \in {"publish", "abort"} : BeginTerminal(reason))
  PROVE  Inv'
<1>1. /\ pc' = pc /\ UNCHANGED <<github, meter, writing, own, aborting, doubt, active, attempt>>
      /\ terminal' \in {terminal, "publish", "abort"} /\ entered' \in {entered, TRUE}
  BY DEF EnterProvider, BeginTerminal
<1>2. TypeOK'
  <2>1. entered' \in BOOLEAN
    BY <1>1, Zenon DEF Inv, TypeOK
  <2> QED BY <1>1, <2>1 DEF Inv, TypeOK, github, meter, writing
<1>3. Phases'
  BY <1>1 DEF Inv, Phases, Writing, writing, OwnLeft, Grant
<1>4. Accounted'
  BY <1>1, NothingAccounted DEF meter
<1> QED BY <1>2, <1>3, <1>4 DEF Inv

LEMMA StutterStep ==
  ASSUME Inv, UNCHANGED vars PROVE Inv'
BY DEF vars, github, meter, writing, review, Inv, TypeOK, Phases, Writing, Accounted, OwnLeft, Grant

LEMMA NextInv == Inv /\ [Next]_vars => Inv'
<1> SUFFICES ASSUME Inv, [Next]_vars PROVE Inv'
  OBVIOUS
<1>1. CASE Start \/ End \/ Land
  BY <1>1, ProcessStep
<1>2. CASE StartupRead \/ Load
  BY <1>2, StartupStep
<1>3. CASE \E k \in Kinds : Begin(k)
  BY <1>3, BeginStep
<1>4. CASE Scan \/ Confirm
  BY <1>4, FenceStep
<1>5. CASE Prepare
  BY <1>5, PrepareStep
<1>6. CASE Abandon \/ AbandonStartup
  BY <1>6, AbandonStep
<1>7. CASE Write
  BY <1>7, WriteStep
<1>8. CASE Echo \/ Reconcile
  BY <1>8, ReadBackStep
<1>9. CASE ReadFreely
  BY <1>9, ReadFreelyStep
<1>10. CASE BusinessWrite
  BY <1>10, BusinessWriteStep
<1>11. CASE EnterProvider \/ (\E reason \in {"publish", "abort"} : BeginTerminal(reason))
  BY <1>11, DecisionStep
<1>12. CASE UNCHANGED vars
  BY <1>12, StutterStep
<1> QED BY <1>1, <1>2, <1>3, <1>4, <1>5, <1>6, <1>7, <1>8, <1>9, <1>10, <1>11, <1>12 DEF Next

-----------------------------------------------------------------------------
(* The theorems *)

\* Every variable keeps its type; in particular no block is ever overdrawn
\* (ApiRunAccounting.dispatch) and no operation either (CallerOperation.consume).
THEOREM RunTypeOK == Spec => []TypeOK
<1>1. Spec => []Inv
  BY InitInv, NextInv, PTL DEF Spec
<1>2. Inv => TypeOK
  BY DEF Inv
<1> QED BY <1>1, <1>2, PTL

\* The processes of a run together send no more requests than its frozen
\* limit, wherever they crash and whatever is lost (ApiRunRequestTransport.open).
THEOREM AllowanceHolds == Spec => []AllowanceNeverExceeded
<1>1. Spec => []Inv
  BY InitInv, NextInv, PTL DEF Spec
<1>2. Inv => AllowanceNeverExceeded
  <2> SUFFICES ASSUME Inv PROVE AllowanceNeverExceeded
    OBVIOUS
  <2>1. /\ wire[1] \in Nat /\ wire[2] \in Nat
        /\ wire[1] <= StartupSlots[1] + Grant(1) /\ wire[2] <= StartupSlots[2] + Grant(2)
    BY DEF Inv, Accounted, TypeOK
  <2>2. Grant(1) \in Nat /\ Grant(2) \in Nat
    BY GrantsShareTheLimit
  <2> QED BY <2>1, <2>2, GrantsShareTheLimit DEF AllowanceNeverExceeded
<1> QED BY <1>1, <1>2, PTL

\* "The 512-request work tranche is preserved as limits increase, including
\* odd limits/startup liabilities" (terminal_requests, api_run_plan.py:61): a
\* larger limit never leaves an owner less ordinary work than the default one.
THEOREM WorkTranchePreserved ==
  ASSUME NEW limit \in Nat, NEW a \in Attempts, limit >= DefaultLimit
  PROVE  work_requests(limit, a) >= work_requests(DefaultLimit, a)
<1>1. /\ DefaultLimit \in Nat /\ TerminalBase \in Nat /\ TerminalExpanded \in Nat
      /\ TerminalBase <= TerminalExpanded /\ StartupSlots[1] \in Nat /\ StartupSlots[2] \in Nat
  BY AllowanceAssumption
<1>2. /\ OwnerTotal(limit, a) \in Int /\ OwnerTotal(DefaultLimit, a) \in Int
      /\ OwnerTotal(limit, a) >= OwnerTotal(DefaultLimit, a)
  <2>1. Liability \in Int
    BY <1>1 DEF Liability
  <2>2. PICK x \in Int : x = limit - Liability
    BY <2>1
  <2>3. PICK y \in Int : y = DefaultLimit - Liability
    BY <1>1, <2>1
  <2>4. x >= y
    BY <1>1, <2>1, <2>2, <2>3
  <2>5. /\ x \div 2 \in Int /\ y \div 2 \in Int
        /\ x \div 2 >= y \div 2 /\ x - x \div 2 >= y - y \div 2
    BY <2>4
  <2> QED BY <2>2, <2>3, <2>5 DEF OwnerTotal
<1> DEFINE t == OwnerTotal(limit, a)
           d == OwnerTotal(DefaultLimit, a)
           room == TerminalExpanded - TerminalBase
<1>3. terminal_requests(DefaultLimit, a) = TerminalBase
  <2>1. d - d = 0
    BY <1>2
  <2>2. terminal_requests(DefaultLimit, a) = TerminalBase + 0
    BY <2>1 DEF terminal_requests
  <2> QED BY <1>1, <2>2
<1>4. CASE t - d <= 0
  <2>1. terminal_requests(limit, a) = TerminalBase + 0
    BY <1>4 DEF terminal_requests
  <2> QED BY <1>2, <1>3, <2>1, <1>1 DEF work_requests
<1>5. CASE ~(t - d <= 0) /\ t - d < room
  <2>1. terminal_requests(limit, a) = TerminalBase + (t - d)
    BY <1>5 DEF terminal_requests
  <2> QED BY <1>2, <1>3, <2>1, <1>1 DEF work_requests
<1>6. CASE ~(t - d <= 0) /\ ~(t - d < room)
  <2>1. terminal_requests(limit, a) = TerminalBase + room
    BY <1>6 DEF terminal_requests
  <2> HIDE DEF t, d
  <2>2. t \in Int /\ d \in Int
    BY <1>2 DEF t, d
  <2>3. t - room >= d
    BY <1>1, <1>6, <2>2
  <2>4. t - (TerminalBase + room) >= d - TerminalBase
    BY <1>1, <2>2, <2>3
  <2> QED BY <1>3, <2>1, <2>4 DEF work_requests, t, d
<1> QED BY <1>4, <1>5, <1>6

-----------------------------------------------------------------------------
(* What a process of a hosted run knows of the session record, and what it *)
(* can still pay for.  The invariant has four parts, each with its own     *)
(* lemmas: the requests a record write has set aside (Funds), who may      *)
(* still have a write under way (Stands), how the accounting in memory     *)
(* continues the stored one (Memory), and over what a run is closed        *)
(* (Closing).                                                              *)

Review   == <<attempt, "review">>
Terminal == <<attempt, "terminal">>

\* The candidate has been prepared.
Prepared == pc \in {"confirm", "write", "echo", "retry"}

-----------------------------------------------------------------------------
(* The parts of the invariant                                              *)

\* An accounting whose owner is this process, with both of its blocks.
Owns(acct) == acct.owner = attempt /\ {Review, Terminal} \subseteq acct.reserved

\* What is set aside for terminal work, for the write and for its reads.
Funds ==
  /\ active => Owns(mem)
  /\ active /\ terminal = "no" => mem.left[Terminal] = TerminalGrant[attempt]
  /\ Prepared /\ ~active =>
       Owns(cand.acct) /\ cand.acct.left[Terminal] = TerminalGrant[attempt]
  /\ Writing /\ active => op.left <= Usable
  /\ pc \in {"find", "confirm", "write"} /\ active => ~op.wrote /\ op.confirmations = 0
  /\ pc = "write" /\ active => op.left >= WriteTail
  /\ pc \in {"echo", "retry"} /\ active =>
       /\ op.wrote
       /\ \/ op.confirmations = 0 /\ op.left >= 2
          \/ pc = "retry" /\ op.confirmations = 1 /\ op.left >= 1
  /\ pc \in {"echo", "retry"} /\ ~active => startup < StartupSlots[attempt]

\* A process goes on only while nothing of its own is under way, and from the
\* stored record unless an earlier attempt's write has replaced it.
Stands ==
  /\ \A r \in flight : r.acct.owner <= attempt
  /\ OneWriteAtLarge
  /\ \A r \in flight : r.acct.owner = attempt =>
       /\ pc \in {"echo", "retry", "stuck", "ended"}
       /\ pc \in {"echo", "retry"} => r = cand /\ durable # cand
  /\ pc \in {"idle", "find", "confirm", "write"} =>
       durable = root \/ durable.acct.owner < attempt
  /\ pc \in {"confirm", "write"} => cand.gen = root.gen + 1 /\ cand.acct.owner = attempt

\* What the constructor accepts, with nothing in a block that is not reserved.
Proper(acct) ==
  ValidAccount(acct) /\ \A b \in BlockIds \ acct.reserved : acct.left[b] = 0

\* The same owner has gone on spending.
Continues(acct, next) ==
  /\ next.owner = acct.owner /\ next.used = acct.used /\ next.reserved = acct.reserved
  /\ acct.closed = "open" \/ next.closed = acct.closed
  /\ next.completed >= acct.completed
  /\ remaining(next) = remaining(acct)
  /\ uncertain(acct) + acct.completed <= uncertain(next) + next.completed
  /\ \A b \in BlockIds : b[1] # acct.owner => next.left[b] = acct.left[b]

\* The records that are stored, under way, or known to the process.
InPlay == {durable, root, cand} \cup flight

Memory ==
  /\ \A r \in InPlay : Proper(r.acct)
  /\ Proper(mem)
  /\ ~active => mem = initial_accounting
  /\ active => Continues(root.acct, mem)
  /\ Prepared /\ active => Continues(root.acct, cand.acct) /\ Continues(cand.acct, mem)
  /\ pc = "find" /\ kind \in {"finish", "close"} => mem.closed = "open"
  /\ pc \in {"find", "confirm", "write"} /\ kind = "recover" => root.acct.closed # "published"
  /\ pc \in {"confirm", "write"} /\ kind = "recover" =>
       /\ remaining(cand.acct) <= remaining(root.acct)
       /\ root.acct.closed = "open"
  /\ pc \in {"confirm", "write"} /\ kind = "enrol" => root = Missing

SettledRecord(r) ==
  /\ r.acct.closed = "published" => r.tx = "published"
  /\ r.acct.closed = "aborted" => r.tx = "none"

\* Over what a run is closed, and what a process that closes it has left open.
Closing ==
  /\ \A r \in InPlay : SettledRecord(r)
  /\ mem.closed = "published" => root.tx = "published" /\ terminal = "publish" /\ ~doubt
  /\ mem.closed = "aborted" => root.tx = "none" /\ terminal = "abort" /\ ~entered
  /\ aborting => active /\ root.tx = "none" /\ terminal = "abort"
  /\ Prepared /\ ~active => cand.acct.closed = "open"
  /\ Writing /\ active => MayBegin(kind)
  /\ Prepared /\ active =>
       cand.tx = Candidate(kind, root, mem).tx /\ cand.acct.closed = mem.closed

-----------------------------------------------------------------------------
(* The accounting values                                                   *)

\* What is sent is taken from the block in use and charged to no other.
Spends(c, n) ==
  /\ c \in Account /\ c.closed = mem.closed
  /\ Continues(mem, c)
  /\ c.left = [mem.left EXCEPT ![Block] = @ - n]
  /\ Proper(mem) => Proper(c)

LEMMA ContinuesItself == ASSUME NEW a \in Account PROVE Continues(a, a)
<1>1. remaining(a) = remaining(a) /\ a.completed \in Nat
  BY DEF Account
<1>2. uncertain(a) \in Nat
  BY DEF uncertain, SumBlocks, Account, BlockIds, Attempts
<1> QED BY <1>1, <1>2 DEF Continues

LEMMA ContinuesOn ==
  ASSUME NEW a \in Account, NEW b \in Account, NEW c \in Account,
         Continues(a, b), Continues(b, c)
  PROVE  Continues(a, c)
<1>1. /\ a.completed \in Nat /\ b.completed \in Nat /\ c.completed \in Nat
      /\ uncertain(a) \in Nat /\ uncertain(b) \in Nat /\ uncertain(c) \in Nat
  BY DEF uncertain, SumBlocks, Account, BlockIds, Attempts
<1>2. /\ b.completed >= a.completed /\ c.completed >= b.completed
      /\ uncertain(a) + a.completed <= uncertain(b) + b.completed
      /\ uncertain(b) + b.completed <= uncertain(c) + c.completed
  BY DEF Continues
<1>3. /\ c.completed >= a.completed
      /\ uncertain(a) + a.completed <= uncertain(c) + c.completed
  BY <1>1, <1>2
<1> QED BY <1>3 DEF Continues

LEMMA DispatchSums ==
  ASSUME NEW a \in Account, NEW b \in BlockIds, a.left[b] > 0
  PROVE  /\ SumBlocks(dispatch(a, b).left) = SumBlocks(a.left) - 1
         /\ SumBlocks(dispatch(a, b).pending) = SumBlocks(a.pending) + 1
<1> DEFINE left    == [a.left EXCEPT ![b] = @ - 1]
           pending == [a.pending EXCEPT ![b] = @ + 1]
<1>1. dispatch(a, b).left = left /\ dispatch(a, b).pending = pending
  BY DEF dispatch, Account
<1>2. a.left \in [BlockIds -> Nat] /\ a.pending \in [BlockIds -> Nat]
  BY DEF Account
<1>3. SumBlocks(left) = SumBlocks(a.left) - 1
  BY <1>2 DEF SumBlocks, BlockIds, Attempts
<1>4. SumBlocks(pending) = SumBlocks(a.pending) + 1
  BY <1>2 DEF SumBlocks, BlockIds, Attempts
<1> QED BY <1>1, <1>3, <1>4

LEMMA ConfirmSums ==
  ASSUME NEW a \in Account, NEW b \in BlockIds, a.pending[b] > 0
  PROVE  SumBlocks(confirm(a, b).pending) = SumBlocks(a.pending) - 1
<1> DEFINE pending == [a.pending EXCEPT ![b] = @ - 1]
<1>1. confirm(a, b).pending = pending
  BY DEF confirm, Account
<1>2. a.pending \in [BlockIds -> Nat]
  BY DEF Account
<1>3. SumBlocks(pending) = SumBlocks(a.pending) - 1
  BY <1>2 DEF SumBlocks, BlockIds, Attempts
<1> QED BY <1>1, <1>3

\* Taking a slot, and answering a request, go on from the same account.
LEMMA DispatchContinues ==
  ASSUME NEW a \in Account, NEW b \in BlockIds, CanDispatch(a, b)
  PROVE  LET c == dispatch(a, b) IN
         /\ c \in Account /\ c.closed = a.closed
         /\ Continues(a, c) /\ c.reserved = a.reserved
         /\ c.left = [a.left EXCEPT ![b] = @ - 1] /\ c.pending[b] > 0
<1> DEFINE c == dispatch(a, b)
<1>1. /\ a.left[b] > 0 /\ b[1] = a.owner
  BY DEF CanDispatch
<1>2. c \in Account /\ c.left = [a.left EXCEPT ![b] = @ - 1] /\ c.pending[b] > 0
  BY <1>1, DispatchTakesOne
<1>3. /\ c.owner = a.owner /\ c.used = a.used /\ c.reserved = a.reserved
      /\ c.closed = a.closed /\ c.completed = a.completed /\ a.completed \in Nat
  BY DEF dispatch, Account
<1>4. /\ SumBlocks(c.left) = SumBlocks(a.left) - 1
      /\ SumBlocks(c.pending) = SumBlocks(a.pending) + 1
  BY <1>1, DispatchSums
<1>5. SumBlocks(a.left) \in Nat /\ SumBlocks(a.pending) \in Nat /\ Limit - Liability \in Int
  BY AllowanceAssumption DEF SumBlocks, Account, BlockIds, Attempts, Liability
<1> HIDE DEF c
<1>6. remaining(c) = remaining(a)
  BY <1>3, <1>4, <1>5 DEF remaining, reserved_undispatched, uncertain
<1>7. uncertain(a) + a.completed <= uncertain(c) + c.completed
  BY <1>3, <1>4, <1>5 DEF uncertain
<1>8. \A x \in BlockIds : x[1] # a.owner => c.left[x] = a.left[x]
  BY <1>1, <1>2 DEF Account
<1>9. Continues(a, c)
  BY <1>3, <1>6, <1>7, <1>8 DEF Continues
<1> QED BY <1>2, <1>3, <1>9 DEF c

LEMMA ConfirmContinues ==
  ASSUME NEW a \in Account, NEW b \in BlockIds, a.pending[b] > 0
  PROVE  LET c == confirm(a, b) IN
         /\ c \in Account /\ c.closed = a.closed
         /\ Continues(a, c) /\ c.reserved = a.reserved
         /\ c.left = a.left
<1> DEFINE c == confirm(a, b)
<1>2. c \in Account /\ c.left = a.left
  BY ConfirmKeepsCapacity
<1>3. /\ c.owner = a.owner /\ c.used = a.used /\ c.reserved = a.reserved
      /\ c.closed = a.closed /\ c.completed = a.completed + 1 /\ a.completed \in Nat
  BY DEF confirm, Account
<1>4. SumBlocks(c.pending) = SumBlocks(a.pending) - 1
  BY ConfirmSums
<1>5. SumBlocks(a.left) \in Nat /\ SumBlocks(a.pending) \in Nat /\ Limit - Liability \in Int
  BY AllowanceAssumption DEF SumBlocks, Account, BlockIds, Attempts, Liability
<1> HIDE DEF c
<1>6. remaining(c) = remaining(a)
  BY <1>2, <1>3, <1>4, <1>5 DEF remaining, reserved_undispatched, uncertain
<1>7. uncertain(a) + a.completed <= uncertain(c) + c.completed
  BY <1>3, <1>4, <1>5 DEF uncertain
<1>9. Continues(a, c)
  BY <1>2, <1>3, <1>6, <1>7 DEF Continues
<1> QED BY <1>2, <1>3, <1>9 DEF c

\* The account of the same owner is as proper as before, unless something
\* appears in a block that is not reserved.
LEMMA ContinuesProper ==
  ASSUME NEW a \in Account, NEW c \in Account, Continues(a, c), Proper(a),
         \A b \in BlockIds \ a.reserved : c.left[b] = a.left[b]
  PROVE  Proper(c)
BY DEF Continues, Proper, ValidAccount

\* One request of an active process, answered or not.
LEMMA ChargeSpends ==
  ASSUME Inv, active, CanDispatch(mem, Block), NEW answered \in BOOLEAN
  PROVE  Spends(Charged(answered), 1)
<1>1. mem \in Account /\ attempt \in Attempts /\ TypeOK
  BY DEF Inv, TypeOK, Phases
<1>2. Block \in BlockIds
  BY <1>1, BlockIsOwn
<1>3. PICK d : d = dispatch(mem, Block)
  OBVIOUS
<1>4. /\ d \in Account /\ d.closed = mem.closed /\ Continues(mem, d)
      /\ d.left = [mem.left EXCEPT ![Block] = @ - 1] /\ d.pending[Block] > 0
  BY <1>1, <1>2, <1>3, DispatchContinues
<1>5. PICK e : e = confirm(d, Block)
  OBVIOUS
<1>6. /\ e \in Account /\ e.closed = d.closed /\ Continues(d, e) /\ e.left = d.left
  BY <1>2, <1>4, <1>5, ConfirmContinues
<1>7. Continues(mem, e)
  BY <1>1, <1>4, <1>6, ContinuesOn
<1>8. Charged(answered) \in {d, e}
  BY <1>3, <1>5 DEF Charged
<1>9. Block \in mem.reserved
  BY DEF CanDispatch
<1>10. \A b \in BlockIds \ mem.reserved : d.left[b] = mem.left[b]
  BY <1>1, <1>4, <1>9 DEF Account
<1>11. Proper(mem) => Proper(d) /\ Proper(e)
  BY <1>1, <1>4, <1>6, <1>7, <1>10, ContinuesProper
<1> QED BY <1>4, <1>6, <1>7, <1>8, <1>11 DEF Spends

\* A publication write settled by a read of its effect.
LEMMA TwoSpend ==
  ASSUME Inv, active, CanDispatch(mem, Block), mem.left[Block] >= 3
  PROVE  Spends(confirm(dispatch(Charged(FALSE), Block), Block), 2)
<1>1. mem \in Account /\ attempt \in Attempts /\ TypeOK
  BY DEF Inv, TypeOK, Phases
<1>2. Block \in BlockIds
  BY <1>1, BlockIsOwn
<1>3. PICK c : c = Charged(FALSE)
  OBVIOUS
<1>4. /\ c \in Account /\ c.closed = mem.closed /\ Continues(mem, c)
      /\ c.left = [mem.left EXCEPT ![Block] = @ - 1]
  BY <1>3, ChargeSpends DEF Spends
<1>5. CanDispatch(c, Block)
  BY <1>1, <1>2, <1>4 DEF CanDispatch, Continues, Account
<1>6. PICK d : d = dispatch(c, Block)
  OBVIOUS
<1>7. /\ d \in Account /\ d.closed = c.closed /\ Continues(c, d)
      /\ d.left = [c.left EXCEPT ![Block] = @ - 1] /\ d.pending[Block] > 0
  BY <1>2, <1>4, <1>5, <1>6, DispatchContinues
<1>8. PICK e : e = confirm(d, Block)
  OBVIOUS
<1>9. /\ e \in Account /\ e.closed = d.closed /\ Continues(d, e) /\ e.left = d.left
  BY <1>2, <1>7, <1>8, ConfirmContinues
<1>10. Continues(mem, e)
  <2>1. Continues(mem, d)
    BY <1>1, <1>4, <1>7, ContinuesOn
  <2> QED BY <1>1, <1>7, <1>9, <2>1, ContinuesOn
<1>11. e.left = [mem.left EXCEPT ![Block] = @ - 2]
  BY <1>1, <1>2, <1>4, <1>7, <1>9 DEF Account
<1>12. \A b \in BlockIds \ mem.reserved : e.left[b] = mem.left[b]
  BY <1>1, <1>11 DEF Account, CanDispatch
<1>13. Proper(mem) => Proper(e)
  BY <1>1, <1>9, <1>10, <1>12, ContinuesProper
<1> QED BY <1>3, <1>4, <1>6, <1>7, <1>8, <1>9, <1>10, <1>11, <1>13 DEF Spends

\* What the two reservations of an owner add to an accounting.
LEMMA ReserveBothIs ==
  ASSUME NEW acct \in Account, NEW a \in Attempts
  PROVE  LET c == ReserveBoth(acct, a) IN
         /\ c \in Account
         /\ c.owner = acct.owner /\ c.used = acct.used /\ c.closed = acct.closed
         /\ c.completed = acct.completed /\ c.pending = acct.pending
         /\ c.reserved = acct.reserved \cup {<<a, "review">>, <<a, "terminal">>}
         /\ c.left[<<a, "review">>] = WorkGrant[a]
         /\ c.left[<<a, "terminal">>] = TerminalGrant[a]
         /\ \A b \in BlockIds : b[1] # a => c.left[b] = acct.left[b]
<1>1. WorkGrant[a] \in Nat /\ TerminalGrant[a] \in Nat
  BY GrantsShareTheLimit
<1> DEFINE r == <<a, "review">>
           t == <<a, "terminal">>
<1>2. r \in BlockIds /\ t \in BlockIds /\ r # t /\ r[1] = a /\ t[1] = a
  BY DEF BlockIds, Attempts
<1> HIDE DEF r, t
<1>3. PICK first : first = reserve(acct, r, WorkGrant[a])
  OBVIOUS
<1>4. /\ first \in Account /\ first.left = [acct.left EXCEPT ![r] = WorkGrant[a]]
      /\ first.reserved = acct.reserved \cup {r}
      /\ first.owner = acct.owner /\ first.used = acct.used /\ first.closed = acct.closed
      /\ first.completed = acct.completed /\ first.pending = acct.pending
  <2>1. first \in Account /\ first.left = [acct.left EXCEPT ![r] = WorkGrant[a]]
    BY <1>1, <1>2, <1>3, ReserveSetsBlock
  <2> QED BY <2>1, <1>3 DEF reserve, Account
<1>5. PICK both : both = reserve(first, t, TerminalGrant[a])
  OBVIOUS
<1>6. /\ both \in Account /\ both.left = [first.left EXCEPT ![t] = TerminalGrant[a]]
      /\ both.reserved = first.reserved \cup {t}
      /\ both.owner = acct.owner /\ both.used = acct.used /\ both.closed = acct.closed
      /\ both.completed = acct.completed /\ both.pending = acct.pending
  <2>1. both \in Account /\ both.left = [first.left EXCEPT ![t] = TerminalGrant[a]]
    BY <1>1, <1>2, <1>4, <1>5, ReserveSetsBlock
  <2> QED BY <2>1, <1>4, <1>5 DEF reserve, Account
<1>7. /\ both.left[r] = WorkGrant[a] /\ both.left[t] = TerminalGrant[a]
      /\ \A b \in BlockIds : b[1] # a => both.left[b] = acct.left[b]
  BY <1>2, <1>4, <1>6 DEF Account
<1>8. ReserveBoth(acct, a) = both
  BY <1>3, <1>5 DEF ReserveBoth, r, t
<1> QED BY <1>4, <1>6, <1>7, <1>8 DEF r, t

\* The mutations of an active process only ever close the account they are given.
LEMMA CandidateIs ==
  ASSUME NEW k \in Kinds, k \notin {"enrol", "recover"}, NEW from \in Records,
         NEW acct \in Account
  PROVE  LET c == Candidate(k, from, acct).acct IN
         /\ Candidate(k, from, acct).gen = from.gen + 1
         /\ c \in Account
         /\ c.owner = acct.owner /\ c.used = acct.used /\ c.reserved = acct.reserved
         /\ c.left = acct.left /\ c.pending = acct.pending /\ c.completed = acct.completed
         /\ c.closed = IF k = "finish" THEN "published"
                       ELSE IF k = "close" THEN "aborted" ELSE acct.closed
<1> DEFINE c == Candidate(k, from, acct).acct
<1>1. Candidate(k, from, acct).gen = from.gen + 1
  BY DEF Candidate
<1>2. CASE k = "finish"
  <2>1. c = [acct EXCEPT !.closed = "published"]
    BY <1>2 DEF Candidate
  <2> QED BY <1>1, <1>2, <2>1 DEF Account
<1>3. CASE k = "close"
  <2>1. c = [acct EXCEPT !.closed = "aborted"]
    BY <1>3 DEF Candidate
  <2> QED BY <1>1, <1>3, <2>1 DEF Account
<1>4. CASE k \notin {"finish", "close"}
  <2>1. c = acct
    BY <1>4 DEF Candidate
  <2> QED BY <1>1, <1>4, <2>1
<1> QED BY <1>2, <1>3, <1>4

\* The two mutations that activate a process grant its blocks.
LEMMA ActivationIs ==
  ASSUME NEW k \in {"enrol", "recover"}, NEW from \in Records, NEW acct \in Account
  PROVE  LET c == Candidate(k, from, acct).acct
             a == IF k = "enrol" THEN 1 ELSE 2
             b == IF k = "enrol" THEN initial_accounting ELSE claim_startup(from.acct, 2) IN
         /\ Candidate(k, from, acct).gen = from.gen + 1
         /\ Candidate(k, from, acct).tx = from.tx
         /\ b \in Account /\ c = ReserveBoth(b, a) /\ c \in Account
         /\ c.owner = a /\ b.owner = a
         /\ c.closed = b.closed
         /\ {<<a, "review">>, <<a, "terminal">>} \subseteq c.reserved
         /\ c.left[<<a, "terminal">>] = TerminalGrant[a]
<1> DEFINE a == IF k = "enrol" THEN 1 ELSE 2
           b == IF k = "enrol" THEN initial_accounting ELSE claim_startup(from.acct, 2)
<1>1. b \in Account /\ b.owner = a
  <2>1. from.acct \in Account
    BY DEF Records
  <2>2. claim_startup(from.acct, 2) \in Account /\ claim_startup(from.acct, 2).owner = 2
    <3>1. PICK x \in Account : x = from.acct
      BY <2>1
    <3>2. x.used \cup {2} \in SUBSET Attempts
      BY DEF Account, Attempts
    <3>3. claim_startup(x, 2) = [x EXCEPT !.owner = 2, !.used = x.used \cup {2}]
      BY DEF claim_startup
    <3> QED BY <3>1, <3>2, <3>3 DEF Account, Attempts
  <2>3. initial_accounting \in Account /\ initial_accounting.owner = 1
    BY InitialAccount DEF initial_accounting
  <2> QED BY <2>2, <2>3
<1>2. /\ Candidate(k, from, acct).gen = from.gen + 1
      /\ Candidate(k, from, acct).tx = from.tx
      /\ Candidate(k, from, acct).acct = ReserveBoth(b, a)
  BY DEF Candidate
<1>3. a \in Attempts
  BY DEF Attempts
<1> HIDE DEF a, b
<1>4. LET c == ReserveBoth(b, a) IN
      /\ c \in Account /\ c.owner = b.owner /\ c.closed = b.closed
      /\ c.reserved = b.reserved \cup {<<a, "review">>, <<a, "terminal">>}
      /\ c.left[<<a, "terminal">>] = TerminalGrant[a]
  BY <1>1, <1>3, ReserveBothIs
<1>5. /\ Candidate(k, from, acct).gen = from.gen + 1
      /\ Candidate(k, from, acct).tx = from.tx
      /\ b \in Account
      /\ Candidate(k, from, acct).acct = ReserveBoth(b, a)
      /\ ReserveBoth(b, a) \in Account
      /\ ReserveBoth(b, a).owner = a /\ b.owner = a
      /\ ReserveBoth(b, a).closed = b.closed
      /\ {<<a, "review">>, <<a, "terminal">>} \subseteq ReserveBoth(b, a).reserved
      /\ ReserveBoth(b, a).left[<<a, "terminal">>] = TerminalGrant[a]
  BY <1>1, <1>2, <1>4
<1> QED BY <1>5 DEF a, b


-----------------------------------------------------------------------------
(* Funds                                                                   *)

\* What an active process has spent, it has spent of the block in use.
LEMMA SpendingKeepsGrants ==
  ASSUME Inv, Funds, active, NEW c, NEW n \in Nat, Spends(c, n)
  PROVE  /\ Owns(c)
         /\ terminal = "no" => c.left[Terminal] = TerminalGrant[attempt]
         /\ c.left[Block] = mem.left[Block] - n
<1>1. mem.left \in [BlockIds -> Nat] /\ attempt \in Attempts
  BY DEF Inv, TypeOK, Phases, Account
<1>2. /\ Review \in BlockIds /\ Terminal \in BlockIds /\ Review # Terminal
      /\ Block = IF terminal = "no" THEN Review ELSE Terminal
  BY <1>1 DEF Review, Terminal, Block, BlockIds
<1>3. c.left = [mem.left EXCEPT ![Block] = @ - n]
  BY DEF Spends
<1>4. Owns(c)
  BY DEF Funds, Owns, Spends, Continues
<1>5. terminal = "no" => c.left[Terminal] = TerminalGrant[attempt]
  BY <1>1, <1>2, <1>3 DEF Funds
<1>6. c.left[Block] = mem.left[Block] - n
  BY <1>1, <1>2, <1>3
<1> QED BY <1>4, <1>5, <1>6

LEMMA FundsInit == Init => Funds
BY DEF Init, Funds, Prepared, Writing

\* Without a process, or before it writes, nothing is set aside.
LEMMA FundsComing ==
  ASSUME Inv, Funds, Start \/ End \/ Land \/ StartupRead \/ AbandonStartup
  PROVE  Funds'
<1>1. CASE Start \/ StartupRead
  <2>1. ~active' /\ pc' = "startup"
    <3>1. pc \in {"ended", "startup"} /\ ~active
      BY <1>1 DEF Inv, Phases, Start, StartupRead
    <3>2. active' = active /\ pc' = "startup"
      BY <1>1 DEF Start, StartupRead
    <3> QED BY <3>1, <3>2
  <2> QED BY <2>1 DEF Funds, Prepared, Writing
<1>2. CASE End \/ AbandonStartup
  <2>1. ~active' /\ pc' = "ended"
    BY <1>2 DEF End, AbandonStartup, Forget
  <2> QED BY <2>1 DEF Funds, Prepared, Writing
<1>3. CASE Land
  BY <1>3 DEF Land, meter, writing, review, Funds, Prepared, Writing, Usable, Block,
              Owns, Review, Terminal
<1> QED BY <1>1, <1>2, <1>3

LEMMA FundsLoad == ASSUME Inv, Funds, Load PROVE Funds'
<1>1. pc = "startup" /\ ~active /\ ~active' /\ attempt' = attempt
  BY DEF Inv, Phases, Load
<1>2. CASE pc' = "confirm"
  <2>1. attempt = 1 /\ cand' = Candidate("enrol", durable, mem)
    BY <1>2 DEF Load
  <2>2. durable \in Records /\ mem \in Account
    BY DEF Inv, TypeOK
  <2>3. /\ cand'.acct.owner = 1
        /\ {<<1, "review">>, <<1, "terminal">>} \subseteq cand'.acct.reserved
        /\ cand'.acct.left[<<1, "terminal">>] = TerminalGrant[1]
    BY <2>1, <2>2, ActivationIs
  <2>4. Owns(cand'.acct) /\ cand'.acct.left[Terminal] = TerminalGrant[attempt]
    BY <2>1, <2>3 DEF Owns, Review, Terminal
  <2> QED BY <1>1, <1>2, <2>4 DEF Funds, Prepared, Writing, Owns, Review, Terminal
<1>3. CASE pc' = "find"
  BY <1>1, <1>3 DEF Funds, Prepared, Writing
<1> QED BY <1>2, <1>3 DEF Load

LEMMA FundsBegin == ASSUME Inv, Funds, NEW k \in Kinds, Begin(k) PROVE Funds'
<1>1. /\ pc = "idle" /\ active /\ active' /\ attempt' = attempt /\ pc' = "find"
      /\ mem' = mem /\ terminal' = terminal
  BY DEF Begin, Inv, Phases, meter, review
<1>2. Usable' = Usable /\ Usable \in Nat
  <2>1. Block' = Block
    BY <1>1 DEF Block
  <2>2. Block \in BlockIds
    BY BlockIsOwn, <1>1 DEF Inv, Phases
  <2> QED BY <1>1, <2>1, <2>2 DEF Usable, Inv, TypeOK, Account
<1>3. ~op'.wrote /\ op'.confirmations = 0 /\ op'.left <= Usable'
  BY <1>2, RunAssumption DEF Begin
<1> QED BY <1>1, <1>3 DEF Funds, Prepared, Writing, Owns, Review, Terminal

\* A funded request of the write in progress, of an active process.
LEMMA OperationSpends ==
  ASSUME Inv, Funds, active, Writing, NEW mutation \in BOOLEAN, OperationFunds(mutation),
         NEW answered \in BOOLEAN
  PROVE  /\ Spends(Charged(answered), 1)
         /\ Owns(Charged(answered))
         /\ terminal = "no" => Charged(answered).left[Terminal] = TerminalGrant[attempt]
         /\ Spent(mutation) = consume(op, mutation)
         /\ op.left \in Nat /\ op.confirmations \in Nat /\ Usable \in Nat
         /\ Charged(answered).left[Block] = Usable - 1
         /\ consume(op, mutation).left = op.left - 1
         /\ consume(op, mutation).left <= Charged(answered).left[Block]
<1>1. CanDispatch(mem, Block)
  BY DEF OperationFunds, Funded
<1>2. Spends(Charged(answered), 1)
  BY <1>1, ChargeSpends
<1>3. op.left \in Nat /\ op.confirmations \in Nat /\ Usable \in Nat
  <2>1. Block \in BlockIds
    BY BlockIsOwn DEF Inv, Phases, Writing
  <2> QED BY <2>1 DEF Inv, TypeOK, Operations, Usable, Account
<1>4. Charged(answered).left[Block] = Usable - 1
  BY <1>2, SpendingKeepsGrants DEF Usable
<1>5. consume(op, mutation).left = op.left - 1
  BY DEF consume
<1>6. op.left <= Usable
  BY DEF Funds
<1> QED BY <1>2, <1>3, <1>4, <1>5, <1>6, SpendingKeepsGrants DEF Spent

\* What one request leaves of an operation.
LEMMA ConsumeIs ==
  ASSUME NEW o \in Operations
  PROVE  /\ ~o.wrote => /\ ~consume(o, FALSE).wrote /\ consume(o, TRUE).wrote
                        /\ consume(o, FALSE).confirmations = o.confirmations
                        /\ consume(o, TRUE).confirmations = o.confirmations
         /\ o.wrote => /\ consume(o, FALSE).wrote
                       /\ consume(o, FALSE).confirmations = o.confirmations + 1
<1>1. ASSUME ~o.wrote PROVE ~consume(o, FALSE).wrote
  BY <1>1 DEF consume, Operations
<1>2. consume(o, TRUE).wrote
  BY DEF consume, Operations
<1>3. ASSUME o.wrote PROVE consume(o, FALSE).wrote
  BY <1>3 DEF consume, Operations
<1>4. ASSUME ~o.wrote
      PROVE  /\ consume(o, FALSE).confirmations = o.confirmations
             /\ consume(o, TRUE).confirmations = o.confirmations
  BY <1>4 DEF consume, Operations
<1>5. ASSUME o.wrote PROVE consume(o, FALSE).confirmations = o.confirmations + 1
  BY <1>5 DEF consume, Operations
<1> QED BY <1>1, <1>2, <1>3, <1>4, <1>5

LEMMA FundsFence == ASSUME Inv, Funds, Scan \/ Confirm PROVE Funds'
<1>1. /\ pc \in {"find", "confirm"} /\ OperationFunds(FALSE)
      /\ active' = active /\ attempt' = attempt /\ terminal' = terminal
      /\ cand' = cand /\ op' = Spent(FALSE) /\ mem' = Charged(TRUE)
      /\ pc' \in {"find", "confirm", "write"} /\ (pc' = "find" => pc = "find")
      /\ (pc' = "confirm" => pc = "confirm") /\ (pc' = "write" => pc = "confirm")
  BY DEF Scan, Confirm, OperationRead, review
<1>2. CASE ~active
  BY <1>1, <1>2 DEF Funds, Prepared, Writing, Owns, Review, Terminal
<1>3. CASE active
  <2>1. /\ Owns(mem') /\ (terminal = "no" => mem'.left[Terminal] = TerminalGrant[attempt])
        /\ op' = consume(op, FALSE) /\ op.left \in Nat
        /\ op'.left = op.left - 1 /\ op'.left <= mem'.left[Block]
    BY <1>1, <1>3, OperationSpends DEF Writing
  <2>2. ~op.wrote /\ op.confirmations = 0 /\ op.left > 3
    BY <1>1, <1>3 DEF Funds, OperationFunds, CanRead, WriteTail
  <2>3. ~op'.wrote /\ op'.confirmations = 0 /\ op'.left >= WriteTail
    <3>1. ~op'.wrote /\ op'.confirmations = 0
      BY <2>1, <2>2, ConsumeIs DEF Inv, TypeOK
    <3>2. op.left \in Nat /\ op'.left = op.left - 1 /\ op.left > 3
      BY <2>1, <2>2
    <3>3. op'.left >= WriteTail
      BY <3>2 DEF WriteTail
    <3> QED BY <3>1, <3>3
  <2>4. Block' = Block
    BY <1>1 DEF Block
  <2> QED BY <1>1, <1>3, <2>1, <2>3, <2>4 DEF Funds, Prepared, Writing, Owns, Review, Terminal, Usable
<1> QED BY <1>2, <1>3 DEF Inv, TypeOK

LEMMA FundsPrepare == ASSUME Inv, Funds, Prepare PROVE Funds'
<1>1. /\ pc = "find" /\ OperationFunds(FALSE) /\ pc' = "confirm"
      /\ active' = active /\ attempt' = attempt /\ terminal' = terminal
      /\ cand' = Candidate(kind, root, Charged(TRUE)) /\ op' = Spent(FALSE)
      /\ mem' = IF active THEN cand'.acct ELSE mem
  BY DEF Prepare, OperationRead, review
<1>2. root \in Records /\ kind \in Kinds /\ mem \in Account
  BY DEF Inv, TypeOK
<1>3. CASE ~active
  <2>1. kind = "recover" /\ attempt = 2
    BY <1>1, <1>3 DEF Inv, Phases, Writing
  <2>2. Charged(TRUE) = mem
    BY <1>3 DEF Charged
  <2>3. /\ cand'.acct.owner = 2
        /\ {<<2, "review">>, <<2, "terminal">>} \subseteq cand'.acct.reserved
        /\ cand'.acct.left[<<2, "terminal">>] = TerminalGrant[2]
    BY <1>1, <1>2, <2>1, <2>2, ActivationIs
  <2>4. Owns(cand'.acct) /\ cand'.acct.left[Terminal] = TerminalGrant[attempt]
    BY <2>1, <2>3 DEF Owns, Review, Terminal
  <2> QED BY <1>1, <1>3, <2>4 DEF Funds, Prepared, Writing, Owns, Review, Terminal
<1>4. CASE active
  <2>1. kind \notin {"enrol", "recover"}
    BY <1>1, <1>4 DEF Inv, Phases, Writing
  <2>2. /\ Spends(Charged(TRUE), 1)
        /\ Owns(Charged(TRUE))
        /\ (terminal = "no" => Charged(TRUE).left[Terminal] = TerminalGrant[attempt])
        /\ op' = consume(op, FALSE) /\ op.left \in Nat
        /\ op'.left = op.left - 1 /\ op'.left <= Charged(TRUE).left[Block]
    BY <1>1, <1>4, OperationSpends DEF Writing
  <2>3. /\ cand'.acct.owner = Charged(TRUE).owner /\ cand'.acct.reserved = Charged(TRUE).reserved
        /\ cand'.acct.left = Charged(TRUE).left
    <3>1. Charged(TRUE) \in Account
      BY <2>2 DEF Spends
    <3> QED BY <1>1, <1>2, <2>1, <3>1, CandidateIs
  <2>4. ~op.wrote /\ op.confirmations = 0
    BY <1>1, <1>4 DEF Funds
  <2>5. ~op'.wrote /\ op'.confirmations = 0
    BY <2>2, <2>4, ConsumeIs DEF Inv, TypeOK
  <2>6. Block' = Block
    BY <1>1 DEF Block
  <2> QED BY <1>1, <1>4, <2>2, <2>3, <2>5, <2>6
      DEF Funds, Prepared, Writing, Owns, Review, Terminal, Usable
<1> QED BY <1>3, <1>4 DEF Inv, TypeOK

LEMMA FundsAbandon == ASSUME Inv, Funds, Abandon PROVE Funds'
<1>1. /\ pc \in {"find", "confirm"} /\ active /\ active' = active /\ attempt' = attempt
      /\ terminal' = terminal /\ pc' = "idle"
  BY DEF Abandon, Settle, review
<1>2. Owns(mem') /\ (terminal = "no" => mem'.left[Terminal] = TerminalGrant[attempt])
  <2>1. CASE OperationFunds(FALSE) /\ mem' \in {Charged(TRUE), Charged(FALSE)}
    BY <1>1, <2>1, OperationSpends DEF Writing
  <2>2. CASE UNCHANGED meter
    BY <1>1, <2>2 DEF Funds, meter
  <2> QED BY <2>1, <2>2 DEF Abandon
<1> QED BY <1>1, <1>2 DEF Funds, Prepared, Writing, Owns, Review, Terminal

LEMMA FundsWrite == ASSUME Inv, Funds, Write PROVE Funds'
<1>1. /\ pc = "write" /\ OperationFunds(TRUE) /\ Sent(1)
      /\ active' = active /\ attempt' = attempt /\ terminal' = terminal
      /\ mem' \in {Charged(TRUE), Charged(FALSE)}
      /\ pc' \in {"echo", "retry", "stuck"}
      /\ pc' # "stuck" => cand' = cand /\ op' = Spent(TRUE)
  BY DEF Write, Settle, review
<1>2. CASE ~active
  <2>1. startup' = startup + 1 /\ startup + 3 <= StartupSlots[attempt]
    <3>1. StartupSlots[attempt] \in Nat /\ startup \in Nat
      BY <1>1, GrantsShareTheLimit DEF Inv, TypeOK, Phases, Attempts
    <3> QED BY <1>1, <1>2, <3>1 DEF Sent, OperationFunds, Funded, WriteTail
  <2>2. startup' < StartupSlots[attempt]
    <3>1. StartupSlots[attempt] \in Nat /\ startup \in Nat
      BY <1>1, GrantsShareTheLimit DEF Inv, TypeOK, Phases, Attempts
    <3> QED BY <2>1, <3>1
  <2> QED BY <1>1, <1>2, <2>2 DEF Funds, Prepared, Writing, Owns, Review, Terminal
<1>3. CASE active
  <2>1. /\ Owns(mem') /\ (terminal = "no" => mem'.left[Terminal] = TerminalGrant[attempt])
        /\ Spent(TRUE) = consume(op, TRUE) /\ op.left \in Nat
        /\ consume(op, TRUE).left = op.left - 1 /\ consume(op, TRUE).left <= mem'.left[Block]
    BY <1>1, <1>3, OperationSpends DEF Writing
  <2>2. ~op.wrote /\ op.confirmations = 0 /\ op.left >= 3
    BY <1>1, <1>3 DEF Funds, WriteTail
  <2>3. LET o == consume(op, TRUE) IN
        o.wrote /\ o.confirmations = 0 /\ o.left >= 2
    <3>1. consume(op, TRUE).wrote /\ consume(op, TRUE).confirmations = 0
      BY <2>2, ConsumeIs DEF Inv, TypeOK
    <3>2. op.left \in Nat /\ consume(op, TRUE).left = op.left - 1 /\ op.left >= 3
      BY <2>1, <2>2
    <3>3. PICK n \in Nat : n = op.left
      BY <3>2
    <3>4. PICK m : m = consume(op, TRUE).left
      OBVIOUS
    <3>5. m = n - 1 /\ n >= 3
      BY <3>2, <3>3, <3>4
    <3>6. m >= 2
      BY <3>5
    <3> QED BY <3>1, <3>4, <3>6
  <2>4. Block' = Block
    BY <1>1 DEF Block
  <2> QED BY <1>1, <1>3, <2>1, <2>3, <2>4 DEF Funds, Prepared, Writing, Owns, Review, Terminal, Usable
<1> QED BY <1>2, <1>3 DEF Inv, TypeOK

LEMMA FundsReadBack == ASSUME Inv, Funds, Echo \/ Reconcile PROVE Funds'
<1>1. /\ pc \in {"echo", "retry"} /\ OperationFunds(FALSE) /\ attempt' = attempt
      /\ terminal' = terminal
  BY DEF Echo, Reconcile, Accept, Refuse, review
<1>2. active => \A answered \in BOOLEAN :
        /\ Owns(Charged(answered))
        /\ terminal = "no" => Charged(answered).left[Terminal] = TerminalGrant[attempt]
        /\ Spent(FALSE) = consume(op, FALSE) /\ op.left \in Nat /\ op.confirmations \in Nat
        /\ consume(op, FALSE).left = op.left - 1
        /\ consume(op, FALSE).left <= Charged(answered).left[Block]
  BY <1>1, OperationSpends DEF Writing
<1>3. CASE Accept
  <2>1. active' /\ pc' \in {"idle", "stuck"}
    BY <1>3 DEF Accept, Settle
  <2>2. Owns(mem') /\ (terminal = "no" => mem'.left[Terminal] = TerminalGrant[attempt])
    <3>1. CASE active
      BY <1>2, <1>3, <3>1 DEF Accept
    <3>2. CASE ~active
      BY <1>1, <1>3, <3>2 DEF Accept, Funds, Prepared
    <3> QED BY <3>1, <3>2
  <2> QED BY <1>1, <2>1, <2>2 DEF Funds, Prepared, Writing, Owns, Review, Terminal
<1>4. CASE ~Accept
  <2>1. /\ active' = active /\ mem' \in {Charged(TRUE), Charged(FALSE)}
        /\ pc' \in {"retry", "stuck"}
        /\ pc' = "retry" => /\ pc = "echo" /\ active
                            /\ op' = Spent(FALSE) /\ cand' = cand
    BY <1>4 DEF Echo, Reconcile, Refuse, Settle
  <2>2. active => Owns(mem') /\ (terminal = "no" => mem'.left[Terminal] = TerminalGrant[attempt])
    BY <1>2, <2>1
  <2>3. CASE pc' = "stuck"
    BY <1>1, <2>1, <2>2, <2>3 DEF Funds, Prepared, Writing, Owns, Review, Terminal
  <2>4. CASE pc' = "retry"
    <3>1. op.wrote /\ op.confirmations = 0 /\ op.left >= 2
      BY <2>1, <2>4 DEF Funds
    <3>2. /\ op'.wrote /\ op'.confirmations = 1 /\ op'.left >= 1
          /\ op'.left <= mem'.left[Block]
      <4>1. /\ op' = consume(op, FALSE) /\ op.left \in Nat
            /\ op'.left = op.left - 1 /\ op'.left <= mem'.left[Block]
        BY <1>2, <2>1, <2>4
      <4>2. op'.wrote /\ op'.confirmations = op.confirmations + 1
        BY <3>1, <4>1, ConsumeIs DEF Inv, TypeOK
      <4>3. op.left >= 2 /\ op.confirmations = 0
        BY <3>1
      <4>4. PICK n \in Nat : n = op.left
        BY <4>1
      <4>5. op'.left = n - 1 /\ n >= 2
        BY <4>1, <4>3, <4>4
      <4>6. op'.left >= 1
        BY <4>5
      <4>7. op'.wrote /\ op'.confirmations = 1
        BY <4>2, <4>3
      <4> QED BY <4>1, <4>6, <4>7
    <3>3. Block' = Block
      BY <1>1 DEF Block
    <3> QED BY <1>1, <2>1, <2>2, <2>4, <3>2, <3>3
        DEF Funds, Prepared, Writing, Owns, Review, Terminal, Usable
  <2> QED BY <2>1, <2>3, <2>4
<1> QED BY <1>3, <1>4

LEMMA FundsFree == ASSUME Inv, Funds, ReadFreely \/ BusinessWrite PROVE Funds'
<1>1. /\ pc \in {"idle", "stuck"} /\ active /\ pc' = pc /\ active' = active
      /\ attempt' = attempt /\ terminal' = terminal
      /\ CanDispatch(mem, Block)
  BY DEF ReadFreely, BusinessWrite, Inv, Phases, review, Funded
<1>2. \E n \in Nat : Spends(mem', n)
  <2>1. CASE mem' \in {Charged(TRUE), Charged(FALSE)}
    BY <1>1, <2>1, ChargeSpends
  <2>2. CASE mem' = confirm(dispatch(Charged(FALSE), Block), Block) /\ BusinessWrite
    BY <1>1, <2>2, TwoSpend DEF BusinessWrite, Funded, Usable, WriteTail
  <2> QED BY <2>1, <2>2 DEF ReadFreely, BusinessWrite
<1>3. Owns(mem') /\ (terminal = "no" => mem'.left[Terminal] = TerminalGrant[attempt])
  BY <1>1, <1>2, SpendingKeepsGrants
<1> QED BY <1>1, <1>3 DEF Funds, Prepared, Writing, Owns, Review, Terminal

LEMMA FundsDecision ==
  ASSUME Inv, Funds, EnterProvider \/ (\E reason \in {"publish", "abort"} : BeginTerminal(reason))
  PROVE  Funds'
<1>1. /\ pc = "idle" /\ pc' = pc /\ UNCHANGED <<mem, active, attempt>>
      /\ terminal' = "no" => terminal = "no"
  BY DEF EnterProvider, BeginTerminal, meter
<1> QED BY <1>1 DEF Funds, Prepared, Writing, Owns, Review, Terminal

LEMMA FundsNext == Inv /\ Funds /\ [Next]_vars => Funds'
<1> SUFFICES ASSUME Inv, Funds, [Next]_vars PROVE Funds'
  OBVIOUS
<1>1. CASE Start \/ End \/ Land \/ StartupRead \/ AbandonStartup
  BY <1>1, FundsComing
<1>2. CASE Load
  BY <1>2, FundsLoad
<1>3. CASE \E k \in Kinds : Begin(k)
  BY <1>3, FundsBegin
<1>4. CASE Scan \/ Confirm
  BY <1>4, FundsFence
<1>5. CASE Prepare
  BY <1>5, FundsPrepare
<1>6. CASE Abandon
  BY <1>6, FundsAbandon
<1>7. CASE Write
  BY <1>7, FundsWrite
<1>8. CASE Echo \/ Reconcile
  BY <1>8, FundsReadBack
<1>9. CASE ReadFreely \/ BusinessWrite
  BY <1>9, FundsFree
<1>10. CASE EnterProvider \/ (\E reason \in {"publish", "abort"} : BeginTerminal(reason))
  BY <1>10, FundsDecision
<1>11. CASE UNCHANGED vars
  BY <1>11 DEF vars, github, meter, writing, review, Funds, Prepared, Writing, Owns,
               Review, Terminal, Usable, Block
<1> QED BY <1>1, <1>2, <1>3, <1>4, <1>5, <1>6, <1>7, <1>8, <1>9, <1>10, <1>11 DEF Next

-----------------------------------------------------------------------------
(* Stands                                                                  *)

LEMMA StandsInit == Init => Stands
BY DEF Init, Stands, OneWriteAtLarge

LEMMA OwnersAreAttempts ==
  ASSUME Inv
  PROVE  /\ \A r \in flight : r.acct.owner \in Attempts
         /\ durable.acct.owner \in Attempts /\ attempt \in 0 .. 2
BY DEF Inv, TypeOK, Records, Account

\* A new process has nothing under way, and one that has gone writes no more.
LEMMA StandsComing ==
  ASSUME Inv, Stands, Start \/ End \/ AbandonStartup
  PROVE  Stands'
<1>1. CASE Start
  <2>1. attempt' = attempt + 1 /\ pc' = "startup" /\ UNCHANGED <<durable, flight>>
    BY <1>1 DEF Start, github
  <2>2. \A r \in flight : r.acct.owner < attempt'
    BY <2>1, OwnersAreAttempts DEF Stands, Attempts
  <2>3. \A r \in flight : r.acct.owner <= attempt' /\ r.acct.owner # attempt'
    BY <2>1, <2>2, OwnersAreAttempts DEF Attempts
  <2> QED BY <2>1, <2>3 DEF Stands, OneWriteAtLarge
<1>2. CASE End \/ AbandonStartup
  <2>1. attempt' = attempt /\ pc' = "ended" /\ UNCHANGED <<durable, flight>>
    BY <1>2 DEF End, AbandonStartup, github
  <2> QED BY <2>1 DEF Stands, OneWriteAtLarge
<1> QED BY <1>1, <1>2

\* A write that lands is the process's own only while it is looking for it.
LEMMA StandsLand == ASSUME Inv, Stands, Land PROVE Stands'
<1>1. PICK r \in flight : durable' = r /\ flight' = flight \ {r}
  BY DEF Land
<1>2. UNCHANGED <<root, cand, pc, attempt>>
  BY DEF Land, writing
<1>3. \A s \in flight' : s \in flight /\ s # r
  BY <1>1
<1>4. (\A s \in flight : s.acct.owner <= attempt)' /\ OneWriteAtLarge'
  BY <1>2, <1>3 DEF Stands, OneWriteAtLarge
<1>5. ASSUME NEW s \in flight', s.acct.owner = attempt
      PROVE  /\ pc \in {"echo", "retry", "stuck", "ended"}
             /\ pc \in {"echo", "retry"} => s = cand /\ durable' # cand
  <2>1. /\ pc \in {"echo", "retry", "stuck", "ended"}
        /\ pc \in {"echo", "retry"} => s = cand
    BY <1>3, <1>5 DEF Stands
  <2> QED BY <1>1, <1>3, <2>1
<1>6. pc \in {"idle", "find", "confirm", "write"} => durable'.acct.owner < attempt
  <2>1. r.acct.owner <= attempt /\ r.acct.owner \in Attempts /\ attempt \in 0 .. 2
    BY OwnersAreAttempts DEF Stands
  <2>2. pc \in {"idle", "find", "confirm", "write"} => r.acct.owner # attempt
    BY DEF Stands
  <2>3. r.acct.owner # attempt => r.acct.owner < attempt
    BY <2>1 DEF Attempts
  <2> QED BY <1>1, <2>2, <2>3
<1> QED BY <1>2, <1>4, <1>5, <1>6 DEF Stands

\* Where nothing of the process is under way, nothing becomes so by reading.
LEMMA StandsStays ==
  ASSUME Inv, Stands, UNCHANGED <<durable, flight, attempt, root>>,
         \/ pc' = pc /\ UNCHANGED cand
         \/ pc \in {"idle", "find", "confirm"} /\ pc' \in {"idle", "find"}
         \/ pc = "confirm" /\ pc' = "write" /\ UNCHANGED cand
         \/ /\ pc = "find" /\ pc' = "confirm"
            /\ cand'.gen = root.gen + 1 /\ cand'.acct.owner = attempt
         \/ pc \in {"echo", "retry"} /\ pc' = "stuck"
         \/ pc = "echo" /\ pc' = "retry" /\ UNCHANGED cand
  PROVE  Stands'
<1>1. (\A r \in flight : r.acct.owner <= attempt)' /\ OneWriteAtLarge'
  BY DEF Stands, OneWriteAtLarge
<1>2. (\A r \in flight : r.acct.owner = attempt =>
         /\ pc \in {"echo", "retry", "stuck", "ended"}
         /\ pc \in {"echo", "retry"} => r = cand /\ durable # cand)'
  BY DEF Stands
<1>3. (pc \in {"idle", "find", "confirm", "write"} =>
         durable = root \/ durable.acct.owner < attempt)'
  BY DEF Stands
<1>4. (pc \in {"confirm", "write"} => cand.gen = root.gen + 1 /\ cand.acct.owner = attempt)'
  BY DEF Stands
<1> QED BY <1>1, <1>2, <1>3, <1>4 DEF Stands

LEMMA StandsLoad == ASSUME Inv, Stands, Load PROVE Stands'
<1>1. /\ pc = "startup" /\ pc' \in {"find", "confirm"}
      /\ UNCHANGED <<durable, flight, attempt>> /\ root' = durable
  BY DEF Load, github
<1>2. pc' = "confirm" => cand'.gen = root'.gen + 1 /\ cand'.acct.owner = attempt
  <2> SUFFICES ASSUME pc' = "confirm"
               PROVE  cand'.gen = root'.gen + 1 /\ cand'.acct.owner = attempt
    OBVIOUS
  <2>1. attempt = 1 /\ cand' = Candidate("enrol", durable, mem)
    BY DEF Load
  <2>2. durable \in Records /\ mem \in Account
    BY DEF Inv, TypeOK
  <2>3. cand'.gen = durable.gen + 1 /\ cand'.acct.owner = 1
    BY <2>1, <2>2, ActivationIs
  <2> QED BY <1>1, <2>1, <2>3
<1>3. \A r \in flight : r.acct.owner # attempt
  BY <1>1 DEF Stands
<1> QED BY <1>1, <1>2, <1>3 DEF Stands, OneWriteAtLarge

LEMMA StandsPrepare == ASSUME Inv, Funds, Stands, Prepare PROVE Stands'
<1>1. /\ pc = "find" /\ pc' = "confirm" /\ OperationFunds(FALSE)
      /\ UNCHANGED <<durable, flight, attempt, root>>
      /\ cand' = Candidate(kind, root, Charged(TRUE))
  BY DEF Prepare, OperationRead, github
<1>2. root \in Records /\ kind \in Kinds /\ mem \in Account
  BY DEF Inv, TypeOK
<1>3. cand'.gen = root.gen + 1 /\ cand'.acct.owner = attempt
  <2>1. CASE ~active
    <3>1. kind = "recover" /\ attempt = 2 /\ Charged(TRUE) = mem
      BY <1>1, <2>1 DEF Inv, Phases, Writing, Charged
    <3> QED BY <1>1, <1>2, <3>1, ActivationIs
  <2>2. CASE active
    <3>1. kind \notin {"enrol", "recover"}
      BY <1>1, <2>2 DEF Inv, Phases, Writing
    <3>2. Charged(TRUE) \in Account /\ Charged(TRUE).owner = attempt
      BY <1>1, <2>2, OperationSpends DEF Writing, Spends, Owns
    <3>3. cand'.gen = root.gen + 1 /\ cand'.acct.owner = Charged(TRUE).owner
      BY <1>1, <1>2, <3>1, <3>2, CandidateIs
    <3> QED BY <3>2, <3>3
  <2> QED BY <2>1, <2>2 DEF Inv, TypeOK
<1> QED BY <1>1, <1>3, StandsStays

\* The write is the only one of its process, and differs from what is stored.
LEMMA StandsWrite == ASSUME Inv, Stands, Write PROVE Stands'
<1>1. /\ pc = "write" /\ pc' \in {"echo", "retry", "stuck"}
      /\ UNCHANGED <<root, attempt>> /\ (pc' # "stuck" => cand' = cand)
      /\ \/ flight' = flight
         \/ flight' = flight \cup {cand} /\ durable' = durable /\ pc' # "stuck"
  BY DEF Write, Settle, github
<1>2. /\ cand.acct.owner = attempt /\ cand.gen = root.gen + 1
      /\ \A r \in flight : r.acct.owner # attempt
  BY <1>1 DEF Stands
<1>3. durable # cand
  <2>1. root.gen \in Nat /\ durable.acct.owner \in Attempts
    BY OwnersAreAttempts DEF Inv, TypeOK, Records
  <2>2. CASE durable = root
    <3>1. root.gen # root.gen + 1
      BY <2>1
    <3> QED BY <1>2, <2>2, <3>1
  <2>3. CASE durable.acct.owner < attempt
    <3>1. durable.acct.owner # attempt
      BY <2>1, <2>3, OwnersAreAttempts DEF Attempts
    <3> QED BY <1>2, <3>1
  <2> QED BY <1>1, <2>2, <2>3 DEF Stands
<1>4. (\A r \in flight : r.acct.owner <= attempt)'
  BY <1>1, <1>2, OwnersAreAttempts DEF Stands
<1>5. OneWriteAtLarge'
  BY <1>1, <1>2 DEF Stands, OneWriteAtLarge
<1>6. (\A r \in flight : r.acct.owner = attempt =>
         /\ pc \in {"echo", "retry", "stuck", "ended"}
         /\ pc \in {"echo", "retry"} => r = cand /\ durable # cand)'
  BY <1>1, <1>2, <1>3
<1> QED BY <1>1, <1>4, <1>5, <1>6 DEF Stands

LEMMA StandsReadBack == ASSUME Inv, Stands, Echo \/ Reconcile PROVE Stands'
<1>1. pc \in {"echo", "retry"} /\ UNCHANGED <<durable, flight, attempt>>
  BY DEF Echo, Reconcile, github
<1>2. CASE Accept
  <2>1. durable = cand /\ root' = cand /\ pc' \in {"idle", "stuck"}
    BY <1>2 DEF Accept, Settle
  <2>2. \A r \in flight : r.acct.owner # attempt
    BY <1>1, <2>1 DEF Stands
  <2> QED BY <1>1, <2>1, <2>2 DEF Stands, OneWriteAtLarge
<1>3. CASE ~Accept
  <2>1. /\ root' = root
        /\ \/ pc' = "stuck"
           \/ pc = "echo" /\ pc' = "retry" /\ cand' = cand
    BY <1>3 DEF Echo, Reconcile, Refuse, Settle
  <2> QED BY <1>1, <2>1, StandsStays
<1> QED BY <1>2, <1>3

\* The actions that leave the record and what is under way alone.
LEMMA StandsRest ==
  ASSUME Inv, Stands,
         \/ StartupRead \/ (\E k \in Kinds : Begin(k)) \/ Scan \/ Confirm \/ Abandon
         \/ ReadFreely \/ BusinessWrite \/ EnterProvider
         \/ (\E reason \in {"publish", "abort"} : BeginTerminal(reason))
  PROVE  Stands'
<1>1. UNCHANGED <<durable, flight, attempt, root>>
  BY DEF StartupRead, Begin, Scan, Confirm, Abandon, ReadFreely, BusinessWrite, EnterProvider,
         BeginTerminal, github, writing
<1>2. CASE StartupRead \/ ReadFreely \/ BusinessWrite \/ EnterProvider \/ Scan
           \/ (\E reason \in {"publish", "abort"} : BeginTerminal(reason))
  <2>1. pc' = pc /\ cand' = cand
    BY <1>2 DEF StartupRead, ReadFreely, BusinessWrite, EnterProvider, Scan, BeginTerminal, writing
  <2> QED BY <1>1, <2>1, StandsStays
<1>3. CASE (\E k \in Kinds : Begin(k)) \/ Abandon
  <2>1. pc \in {"idle", "find", "confirm"} /\ pc' \in {"idle", "find"}
    BY <1>3 DEF Begin, Abandon, Settle
  <2> QED BY <1>1, <2>1, StandsStays
<1>4. CASE Confirm
  <2>1. pc = "confirm" /\ pc' = "write" /\ cand' = cand
    BY <1>4 DEF Confirm
  <2> QED BY <1>1, <2>1, StandsStays
<1> QED BY <1>2, <1>3, <1>4

LEMMA StandsNext == Inv /\ Funds /\ Stands /\ [Next]_vars => Stands'
<1> SUFFICES ASSUME Inv, Funds, Stands, [Next]_vars PROVE Stands'
  OBVIOUS
<1>1. CASE Start \/ End \/ AbandonStartup
  BY <1>1, StandsComing
<1>2. CASE Land
  BY <1>2, StandsLand
<1>3. CASE Load
  BY <1>3, StandsLoad
<1>4. CASE Prepare
  BY <1>4, StandsPrepare
<1>5. CASE Write
  BY <1>5, StandsWrite
<1>6. CASE Echo \/ Reconcile
  BY <1>6, StandsReadBack
<1>7. CASE \/ StartupRead \/ (\E k \in Kinds : Begin(k)) \/ Scan \/ Confirm \/ Abandon
           \/ ReadFreely \/ BusinessWrite \/ EnterProvider
           \/ (\E reason \in {"publish", "abort"} : BeginTerminal(reason))
  BY <1>7, StandsRest
<1>8. CASE UNCHANGED vars
  BY <1>8, StandsStays DEF vars, github, writing
<1> QED BY <1>1, <1>2, <1>3, <1>4, <1>5, <1>6, <1>7, <1>8 DEF Next

-----------------------------------------------------------------------------
(* Memory                                                                  *)

LEMMA InitialIsProper == Proper(initial_accounting)
<1>1. SumBlocks(initial_accounting.left) = 0 /\ SumBlocks(initial_accounting.pending) = 0
  BY DEF initial_accounting, SumBlocks, BlockIds, Attempts
<1>2. Limit - Liability >= 0 /\ Limit \in Nat /\ Liability \in Nat
  BY AllowanceAssumption DEF Liability, Attempts
<1>3. initial_accounting.completed = 0
  BY DEF initial_accounting
<1>4. remaining(initial_accounting) >= 0
  BY <1>1, <1>2, <1>3 DEF remaining, reserved_undispatched, uncertain
<1>5. /\ initial_accounting.owner \in initial_accounting.used
      /\ initial_accounting.reserved = {}
      /\ \A b \in BlockIds : initial_accounting.left[b] = 0
  BY DEF initial_accounting
<1> QED BY <1>4, <1>5 DEF Proper, ValidAccount

LEMMA MissingIsProper == Proper(Missing.acct)
BY InitialIsProper, InitialAccount

LEMMA MemoryInit == Init => Memory
<1> SUFFICES ASSUME Init PROVE Memory
  OBVIOUS
<1>1. durable = Missing /\ root = Missing /\ cand = Missing /\ flight = {}
      /\ mem = initial_accounting /\ ~active /\ pc = "ended"
  BY DEF Init
<1>2. \A r \in InPlay : Proper(r.acct)
  BY <1>1, MissingIsProper DEF InPlay
<1> QED BY <1>1, <1>2, InitialIsProper DEF Memory, Prepared

\* A mutation of an active process keeps its account as proper as it was.
LEMMA CandidateContinues ==
  ASSUME NEW k \in Kinds, k \notin {"enrol", "recover"}, NEW from \in Records,
         NEW base \in Account, NEW acct \in Account, Continues(base, acct), Proper(acct),
         k \in {"finish", "close"} => acct.closed = "open",
         ValidAccount(Candidate(k, from, acct).acct)
  PROVE  LET c == Candidate(k, from, acct).acct IN
         c \in Account /\ Continues(base, c) /\ Proper(c)
<1>1. PICK c : c = Candidate(k, from, acct).acct
  OBVIOUS
<1>2. /\ c \in Account
      /\ c.owner = acct.owner /\ c.used = acct.used /\ c.reserved = acct.reserved
      /\ c.left = acct.left /\ c.pending = acct.pending /\ c.completed = acct.completed
      /\ k \notin {"finish", "close"} => c.closed = acct.closed
  BY <1>1, CandidateIs
<1>3. remaining(c) = remaining(acct) /\ uncertain(c) = uncertain(acct)
  BY <1>2 DEF remaining, reserved_undispatched, uncertain
<1>4. base.closed = "open" \/ c.closed = base.closed
  BY <1>2 DEF Continues
<1>5. Continues(base, c)
  BY <1>2, <1>3, <1>4 DEF Continues
<1>6. Proper(c)
  BY <1>1, <1>2 DEF Proper
<1> QED BY <1>1, <1>2, <1>5, <1>6

\* So do the two activating ones, and a recovery gives nothing back.
LEMMA ActivationIsProper ==
  ASSUME NEW k \in {"enrol", "recover"}, NEW from \in Records, NEW acct \in Account,
         Proper(from.acct), ValidAccount(Candidate(k, from, acct).acct)
  PROVE  Proper(Candidate(k, from, acct).acct)
<1> DEFINE a == IF k = "enrol" THEN 1 ELSE 2
           b == IF k = "enrol" THEN initial_accounting ELSE claim_startup(from.acct, 2)
<1>1. b \in Account /\ Candidate(k, from, acct).acct = ReserveBoth(b, a)
  BY ActivationIs
<1>2. \A x \in BlockIds \ b.reserved : b.left[x] = 0
  <2>1. claim_startup(from.acct, 2).left = from.acct.left
        /\ claim_startup(from.acct, 2).reserved = from.acct.reserved
    <3>1. PICK x \in Account : x = from.acct
      BY DEF Records
    <3> QED BY <3>1 DEF claim_startup, Account
  <2> QED BY <2>1, InitialIsProper DEF Proper
<1>3. a \in Attempts
  BY DEF Attempts
<1> HIDE DEF a, b
<1>4. PICK c : c = ReserveBoth(b, a)
  OBVIOUS
<1>5. /\ c.reserved = b.reserved \cup {<<a, "review">>, <<a, "terminal">>}
      /\ \A x \in BlockIds : x[1] # a => c.left[x] = b.left[x]
  BY <1>1, <1>3, <1>4, ReserveBothIs
<1>6. ASSUME NEW x \in BlockIds \ c.reserved PROVE c.left[x] = 0
  <2>1. x[1] # a
    BY <1>3, <1>5, <1>6 DEF BlockIds
  <2> QED BY <1>2, <1>5, <1>6, <2>1
<1> QED BY <1>1, <1>4, <1>6 DEF Proper

LEMMA RecoveryTakes ==
  ASSUME NEW from \in Records, NEW acct \in Account, Proper(from.acct), CanClaim(from.acct, 2)
  PROVE  remaining(Candidate("recover", from, acct).acct) <= remaining(from.acct)
<1>1. PICK f \in Account : f = from.acct
  BY DEF Records
<1>2. PICK b : b = claim_startup(f, 2)
  OBVIOUS
<1>3. PICK c : c = ReserveBoth(b, 2)
  OBVIOUS
<1>4. Candidate("recover", from, acct).acct = c /\ b \in Account
  <2>1. LET b2 == claim_startup(from.acct, 2) IN
        b2 \in Account /\ Candidate("recover", from, acct).acct = ReserveBoth(b2, 2)
    BY ActivationIs
  <2> QED BY <1>1, <1>2, <1>3, <2>1
<1>5. b.left = f.left /\ b.pending = f.pending /\ b.completed = f.completed
  BY <1>2 DEF claim_startup, Account
<1>6. /\ c.completed = b.completed /\ c.pending = b.pending /\ c \in Account
      /\ \A x \in BlockIds : x[1] # 2 => c.left[x] = b.left[x]
  BY <1>3, <1>4, ReserveBothIs DEF Attempts
<1>7. /\ f.left[<<2, "review">>] = 0 /\ f.left[<<2, "terminal">>] = 0
      /\ <<2, "review">> \in BlockIds /\ <<2, "terminal">> \in BlockIds
      /\ <<1, "review">> \in BlockIds /\ <<1, "terminal">> \in BlockIds
  <2>1. f.owner = 1
    BY <1>1 DEF CanClaim, Account, Attempts
  <2>2. /\ <<2, "review">> \in BlockIds /\ <<2, "terminal">> \in BlockIds
        /\ <<1, "review">> \in BlockIds /\ <<1, "terminal">> \in BlockIds
    BY DEF BlockIds, Attempts
  <2>3. <<2, "review">> \notin f.reserved /\ <<2, "terminal">> \notin f.reserved
    BY <1>1, <2>1 DEF Proper, ValidAccount
  <2> QED BY <1>1, <2>2, <2>3 DEF Proper
<1>8. /\ c.left[<<1, "review">>] = f.left[<<1, "review">>]
      /\ c.left[<<1, "terminal">>] = f.left[<<1, "terminal">>]
  BY <1>5, <1>6, <1>7
<1>9. /\ c.left[<<1, "review">>] \in Nat /\ c.left[<<1, "terminal">>] \in Nat
      /\ c.left[<<2, "review">>] \in Nat /\ c.left[<<2, "terminal">>] \in Nat
  BY <1>6, <1>7 DEF Account
<1>10. SumBlocks(f.left) <= SumBlocks(c.left) /\ SumBlocks(f.left) \in Nat /\ SumBlocks(c.left) \in Nat
  BY <1>7, <1>8, <1>9 DEF SumBlocks
<1>11. Limit - Liability \in Int /\ f.completed \in Nat /\ SumBlocks(f.pending) \in Nat
  BY AllowanceAssumption DEF Liability, Attempts, Account, SumBlocks, BlockIds
<1>12. remaining(c) <= remaining(f)
  BY <1>5, <1>6, <1>10, <1>11 DEF remaining, reserved_undispatched, uncertain
<1> QED BY <1>1, <1>4, <1>12

LEMMA RecordsStayProper ==
  ASSUME Memory, InPlay' \subseteq InPlay \cup {Missing}
  PROVE  (\A r \in InPlay : Proper(r.acct))'
<1>1. \A r \in InPlay' : Proper(r.acct)
  BY MissingIsProper DEF Memory
<1> QED BY <1>1

\* A request keeps what the process remembers a continuation.
LEMMA SpendingKeepsMemory ==
  ASSUME Inv, Memory, NEW c, NEW n, Spends(c, n)
  PROVE  /\ c \in Account /\ Proper(c) /\ c.closed = mem.closed
         /\ active => Continues(root.acct, c)
         /\ Prepared /\ active => Continues(cand.acct, c)
<1>1. /\ mem \in Account /\ c \in Account /\ root.acct \in Account /\ cand.acct \in Account
      /\ Continues(mem, c) /\ Proper(c) /\ c.closed = mem.closed
  BY DEF Spends, Memory, Inv, TypeOK, Records
<1>2. active => Continues(root.acct, c)
  BY <1>1, ContinuesOn DEF Memory
<1>3. Prepared /\ active => Continues(cand.acct, c)
  BY <1>1, ContinuesOn DEF Memory
<1> QED BY <1>1, <1>2, <1>3

\* Without a process there is nothing to remember.
LEMMA MemoryComing ==
  ASSUME Inv, Memory, Start \/ End \/ AbandonStartup \/ StartupRead
  PROVE  Memory'
<1>1. CASE Start \/ StartupRead
  <2>1. /\ pc \in {"ended", "startup"} /\ ~active
        /\ active' = active /\ pc' = "startup" /\ UNCHANGED <<durable, flight, root, cand, mem>>
    BY <1>1 DEF Start, StartupRead, github, meter, writing, Inv, Phases
  <2>2. InPlay' = InPlay
    BY <2>1 DEF InPlay
  <2> QED BY <2>1, <2>2, RecordsStayProper DEF Memory, Prepared
<1>2. CASE End \/ AbandonStartup
  <2>1. /\ ~active' /\ pc' = "ended" /\ UNCHANGED <<durable, flight>>
        /\ root' = Missing /\ cand' = Missing /\ mem' = initial_accounting
    BY <1>2 DEF End, AbandonStartup, Forget, github
  <2>2. InPlay' \subseteq InPlay \cup {Missing}
    BY <2>1 DEF InPlay
  <2> QED BY <2>1, <2>2, RecordsStayProper, InitialIsProper DEF Memory, Prepared
<1> QED BY <1>1, <1>2

LEMMA MemoryLand == ASSUME Inv, Memory, Land PROVE Memory'
<1>1. UNCHANGED <<root, cand, kind, mem, pc, active>>
  BY DEF Land, meter, writing
<1>2. InPlay' \subseteq InPlay
  BY <1>1 DEF Land, InPlay
<1> QED BY <1>1, <1>2, RecordsStayProper DEF Memory, Prepared

LEMMA MemoryLoad == ASSUME Inv, Memory, Load PROVE Memory'
<1>1. /\ pc = "startup" /\ ~active /\ active' = active /\ pc' \in {"find", "confirm"}
      /\ UNCHANGED <<durable, flight, mem>> /\ root' = durable /\ durable \in Records
      /\ mem \in Account
  BY DEF Load, github, Inv, Phases, TypeOK
<1>2. CASE pc' = "confirm"
  <2>1. /\ durable = Missing /\ kind' = "enrol" /\ cand' = Candidate("enrol", durable, mem)
        /\ ValidAccount(cand'.acct)
    BY <1>2 DEF Load
  <2>2. Proper(durable.acct)
    BY DEF Memory, InPlay
  <2>3. Proper(cand'.acct)
    BY <1>1, <2>1, <2>2, ActivationIsProper
  <2>4. (\A r \in InPlay : Proper(r.acct))'
    BY <1>1, <2>3 DEF InPlay, Memory
  <2> QED BY <1>1, <1>2, <2>1, <2>4 DEF Memory, Prepared
<1>3. CASE pc' = "find"
  <2>1. kind' = "recover" /\ cand' = cand /\ durable.acct.closed # "published"
    BY <1>3 DEF Load
  <2>2. InPlay' \subseteq InPlay
    BY <1>1, <2>1 DEF InPlay
  <2> QED BY <1>1, <1>3, <2>1, <2>2, RecordsStayProper DEF Memory, Prepared
<1> QED BY <1>1, <1>2, <1>3

LEMMA MemoryBegin == ASSUME Inv, Memory, NEW k \in Kinds, Begin(k) PROVE Memory'
<1>1. /\ pc = "idle" /\ pc' = "find" /\ kind' = k /\ k \notin {"enrol", "recover"}
      /\ UNCHANGED <<durable, flight, root, cand, mem, active>>
      /\ k \in {"finish", "close"} => mem.closed = "open"
  BY DEF Begin, MayBegin, github, meter
<1>2. InPlay' = InPlay
  BY <1>1 DEF InPlay
<1> QED BY <1>1, <1>2, RecordsStayProper DEF Memory, Prepared

\* A request of a write in progress, of a process of either kind.
LEMMA OperationMemory ==
  ASSUME Inv, Memory, Writing, OperationFunds(TRUE) \/ OperationFunds(FALSE),
         NEW answered \in BOOLEAN
  PROVE  LET c == Charged(answered) IN
         /\ c \in Account /\ Proper(c) /\ c.closed = mem.closed
         /\ ~active => c = mem
         /\ active => Continues(root.acct, c)
         /\ Prepared /\ active => Continues(cand.acct, c)
<1>1. CASE active
  <2>1. CanDispatch(mem, Block)
    BY <1>1 DEF OperationFunds, Funded
  <2>2. Spends(Charged(answered), 1)
    BY <1>1, <2>1, ChargeSpends
  <2> QED BY <1>1, <2>2, SpendingKeepsMemory
<1>2. CASE ~active
  BY <1>2 DEF Charged, Memory, Inv, TypeOK
<1> QED BY <1>1, <1>2 DEF Inv, TypeOK

LEMMA MemoryFence == ASSUME Inv, Memory, Scan \/ Confirm PROVE Memory'
<1>1. /\ pc \in {"find", "confirm"} /\ OperationFunds(FALSE) /\ mem' = Charged(TRUE)
      /\ pc' \in {"find", "confirm", "write"} /\ (pc' = "find" <=> pc = "find")
      /\ UNCHANGED <<durable, flight, root, cand, kind, active>>
  BY DEF Scan, Confirm, OperationRead, github
<1>2. /\ Proper(mem') /\ mem'.closed = mem.closed
      /\ ~active => mem' = mem
      /\ active => Continues(root.acct, mem')
      /\ Prepared /\ active => Continues(cand.acct, mem')
  BY <1>1, OperationMemory DEF Writing
<1>3. InPlay' = InPlay
  BY <1>1 DEF InPlay
<1>4. (\A r \in InPlay : Proper(r.acct))'
  BY <1>3, RecordsStayProper
<1>5. Prepared' <=> Prepared
  BY <1>1 DEF Prepared
<1> QED BY <1>1, <1>2, <1>4, <1>5 DEF Memory, Prepared

LEMMA MemoryPrepare == ASSUME Inv, Memory, Prepare PROVE Memory'
<1>1. /\ pc = "find" /\ pc' = "confirm" /\ OperationFunds(FALSE)
      /\ UNCHANGED <<durable, flight, root, kind, active>>
      /\ cand' = Candidate(kind, root, Charged(TRUE)) /\ ValidAccount(cand'.acct)
      /\ mem' = IF active THEN cand'.acct ELSE mem
      /\ kind = "recover" => CanClaim(root.acct, attempt)
  BY DEF Prepare, OperationRead, github
<1>2. /\ root \in Records /\ kind \in Kinds /\ mem \in Account /\ root.acct \in Account
      /\ Proper(root.acct)
  BY DEF Inv, TypeOK, Records, Memory, InPlay
<1>3. /\ Charged(TRUE) \in Account /\ Proper(Charged(TRUE)) /\ Charged(TRUE).closed = mem.closed
      /\ active => Continues(root.acct, Charged(TRUE))
  BY <1>1, OperationMemory DEF Writing
<1>4. CASE ~active
  <2>1. kind = "recover" /\ attempt = 2
    BY <1>1, <1>4 DEF Inv, Phases, Writing
  <2>2. Proper(cand'.acct)
    BY <1>1, <1>2, <1>3, <2>1, ActivationIsProper
  <2>3. remaining(cand'.acct) <= remaining(root.acct)
    BY <1>1, <1>2, <1>3, <2>1, RecoveryTakes
  <2>4. root.acct.closed = "open"
    <3>1. root.acct.closed # "published"
      BY <1>1, <2>1 DEF Memory
    <3>2. root.acct.closed # "aborted"
      BY <1>1, <2>1 DEF CanClaim
    <3> QED BY <1>2, <3>1, <3>2 DEF Account
  <2>5. (\A r \in InPlay : Proper(r.acct))'
    BY <1>1, <2>2 DEF InPlay, Memory
  <2> QED BY <1>1, <1>4, <2>1, <2>3, <2>4, <2>5 DEF Memory, Prepared
<1>5. CASE active
  <2>1. kind \notin {"enrol", "recover"}
    BY <1>1, <1>5 DEF Inv, Phases, Writing
  <2>2. kind \in {"finish", "close"} => Charged(TRUE).closed = "open"
    BY <1>1, <1>3 DEF Memory
  <2>3. cand'.acct \in Account /\ Continues(root.acct, cand'.acct) /\ Proper(cand'.acct)
    BY <1>1, <1>2, <1>3, <1>5, <2>1, <2>2, CandidateContinues
  <2>4. Continues(cand'.acct, mem')
    BY <1>1, <1>5, <2>3, ContinuesItself
  <2>5. (\A r \in InPlay : Proper(r.acct))'
    BY <1>1, <2>3 DEF InPlay, Memory
  <2> QED BY <1>1, <1>5, <2>1, <2>3, <2>4, <2>5 DEF Memory, Prepared
<1> QED BY <1>4, <1>5 DEF Inv, TypeOK

LEMMA MemoryAbandon == ASSUME Inv, Memory, Abandon PROVE Memory'
<1>1. /\ pc \in {"find", "confirm"} /\ active /\ active' = active /\ pc' = "idle"
      /\ UNCHANGED <<durable, flight, root>> /\ cand' = Missing
  BY DEF Abandon, Settle, github
<1>2. Proper(mem') /\ Continues(root.acct, mem')
  <2>1. CASE OperationFunds(FALSE) /\ mem' \in {Charged(TRUE), Charged(FALSE)}
    BY <1>1, <2>1, OperationMemory DEF Writing
  <2>2. CASE UNCHANGED meter
    BY <1>1, <2>2 DEF Memory, meter
  <2> QED BY <2>1, <2>2 DEF Abandon
<1>3. InPlay' \subseteq InPlay \cup {Missing}
  BY <1>1 DEF InPlay
<1> QED BY <1>1, <1>2, <1>3, RecordsStayProper DEF Memory, Prepared

LEMMA MemoryWrite == ASSUME Inv, Memory, Write PROVE Memory'
<1>1. /\ pc = "write" /\ OperationFunds(TRUE) /\ mem' \in {Charged(TRUE), Charged(FALSE)}
      /\ pc' \in {"echo", "retry", "stuck"} /\ UNCHANGED <<root, active>>
      /\ pc' # "stuck" => cand' = cand
      /\ cand' \in {cand, Missing} /\ durable' \in {durable, cand}
      /\ flight' \subseteq flight \cup {cand}
  BY DEF Write, Settle, github
<1>2. /\ Proper(mem') /\ (~active => mem' = mem)
      /\ active => Continues(root.acct, mem') /\ Continues(cand.acct, mem')
  BY <1>1, OperationMemory DEF Writing, Prepared
<1>3. InPlay' \subseteq InPlay \cup {Missing}
  BY <1>1 DEF InPlay
<1>4. active => Continues(root.acct, cand.acct)
  BY <1>1 DEF Memory, Prepared
<1> QED BY <1>1, <1>2, <1>3, <1>4, RecordsStayProper DEF Memory, Prepared

LEMMA MemoryReadBack == ASSUME Inv, Memory, Echo \/ Reconcile PROVE Memory'
<1>1. /\ pc \in {"echo", "retry"} /\ OperationFunds(FALSE) /\ UNCHANGED <<durable, flight>>
      /\ cand.acct \in Account
  BY DEF Echo, Reconcile, github, Inv, TypeOK, Records
<1>2. \A answered \in BOOLEAN :
        /\ Proper(Charged(answered)) /\ (~active => Charged(answered) = mem)
        /\ active => /\ Continues(root.acct, Charged(answered))
                     /\ Continues(cand.acct, Charged(answered))
  BY <1>1, OperationMemory DEF Writing, Prepared
<1>3. CASE Accept
  <2>1. /\ root' = cand /\ active' /\ cand' = Missing /\ pc' \in {"idle", "stuck"}
        /\ mem' = IF active THEN Charged(TRUE) ELSE cand.acct
    BY <1>3 DEF Accept, Settle
  <2>2. Proper(mem') /\ Continues(root'.acct, mem')
    <3>1. CASE active
      BY <1>2, <2>1, <3>1
    <3>2. CASE ~active
      BY <1>1, <2>1, <3>2, ContinuesItself DEF Memory, InPlay
    <3> QED BY <3>1, <3>2
  <2>3. InPlay' \subseteq InPlay \cup {Missing}
    BY <1>1, <2>1 DEF InPlay
  <2> QED BY <2>1, <2>2, <2>3, RecordsStayProper DEF Memory, Prepared
<1>4. CASE ~Accept
  <2>1. /\ root' = root /\ active' = active /\ mem' \in {Charged(TRUE), Charged(FALSE)}
        /\ pc' \in {"retry", "stuck"} /\ cand' \in {cand, Missing}
        /\ pc' = "retry" => cand' = cand
    BY <1>4 DEF Echo, Reconcile, Refuse, Settle
  <2>2. InPlay' \subseteq InPlay \cup {Missing}
    BY <1>1, <2>1 DEF InPlay
  <2>3. /\ Proper(mem') /\ (~active => mem' = mem)
        /\ active => Continues(root.acct, mem') /\ Continues(cand.acct, mem')
    BY <1>2, <2>1
  <2>4. active => Continues(root.acct, cand.acct)
    BY <1>1 DEF Memory, Prepared
  <2> QED BY <2>1, <2>2, <2>3, <2>4, RecordsStayProper DEF Memory, Prepared
<1> QED BY <1>3, <1>4

LEMMA MemoryFree == ASSUME Inv, Memory, ReadFreely \/ BusinessWrite PROVE Memory'
<1>1. /\ pc \in {"idle", "stuck"} /\ active /\ pc' = pc
      /\ UNCHANGED <<durable, flight, root, cand, active>> /\ CanDispatch(mem, Block)
  BY DEF ReadFreely, BusinessWrite, Inv, Phases, github, writing, Funded
<1>2. \E n \in Nat : Spends(mem', n)
  <2>1. CASE mem' \in {Charged(TRUE), Charged(FALSE)}
    BY <1>1, <2>1, ChargeSpends
  <2>2. CASE mem' = confirm(dispatch(Charged(FALSE), Block), Block) /\ BusinessWrite
    BY <1>1, <2>2, TwoSpend DEF BusinessWrite, Funded, Usable, WriteTail
  <2> QED BY <2>1, <2>2 DEF ReadFreely, BusinessWrite
<1>3. Proper(mem') /\ Continues(root.acct, mem')
  BY <1>1, <1>2, SpendingKeepsMemory
<1>4. InPlay' = InPlay
  BY <1>1 DEF InPlay
<1> QED BY <1>1, <1>3, <1>4, RecordsStayProper DEF Memory, Prepared

LEMMA MemoryDecision ==
  ASSUME Inv, Memory,
         EnterProvider \/ (\E reason \in {"publish", "abort"} : BeginTerminal(reason))
  PROVE  Memory'
<1>1. pc' = pc /\ UNCHANGED <<durable, flight, root, cand, kind, mem, active>>
  BY DEF EnterProvider, BeginTerminal, github, meter, writing
<1>2. InPlay' = InPlay
  BY <1>1 DEF InPlay
<1> QED BY <1>1, <1>2, RecordsStayProper DEF Memory, Prepared

LEMMA MemoryNext == Inv /\ Memory /\ [Next]_vars => Memory'
<1> SUFFICES ASSUME Inv, Memory, [Next]_vars PROVE Memory'
  OBVIOUS
<1>1. CASE Start \/ End \/ AbandonStartup \/ StartupRead
  BY <1>1, MemoryComing
<1>2. CASE Land
  BY <1>2, MemoryLand
<1>3. CASE Load
  BY <1>3, MemoryLoad
<1>4. CASE \E k \in Kinds : Begin(k)
  BY <1>4, MemoryBegin
<1>5. CASE Scan \/ Confirm
  BY <1>5, MemoryFence
<1>6. CASE Prepare
  BY <1>6, MemoryPrepare
<1>7. CASE Abandon
  BY <1>7, MemoryAbandon
<1>8. CASE Write
  BY <1>8, MemoryWrite
<1>9. CASE Echo \/ Reconcile
  BY <1>9, MemoryReadBack
<1>10. CASE ReadFreely \/ BusinessWrite
  BY <1>10, MemoryFree
<1>11. CASE EnterProvider \/ (\E reason \in {"publish", "abort"} : BeginTerminal(reason))
  BY <1>11, MemoryDecision
<1>12. CASE UNCHANGED vars
  <2>1. UNCHANGED <<durable, flight, root, cand, kind, mem, active, pc>>
    BY <1>12 DEF vars, github, meter, writing
  <2>2. InPlay' = InPlay
    BY <2>1 DEF InPlay
  <2> QED BY <2>1, <2>2, RecordsStayProper DEF Memory, Prepared
<1> QED BY <1>1, <1>2, <1>3, <1>4, <1>5, <1>6, <1>7, <1>8, <1>9, <1>10, <1>11, <1>12 DEF Next

-----------------------------------------------------------------------------
(* Closing                                                                 *)

LEMMA MissingIsSettled == SettledRecord(Missing)
BY DEF SettledRecord, Missing, initial_accounting

LEMMA RecordsStaySettled ==
  ASSUME Closing, InPlay' \subseteq InPlay \cup {Missing}
  PROVE  (\A r \in InPlay : SettledRecord(r))'
<1>1. \A r \in InPlay' : SettledRecord(r)
  BY MissingIsSettled DEF Closing
<1> QED BY <1>1

\* What a request does not change.
LEMMA ChargeKeepsClosure ==
  ASSUME Inv, active => CanDispatch(mem, Block), NEW answered \in BOOLEAN
  PROVE  Charged(answered).closed = mem.closed
<1>1. CASE active
  BY <1>1, ChargeSpends DEF Spends
<1>2. CASE ~active
  BY <1>2 DEF Charged
<1> QED BY <1>1, <1>2 DEF Inv, TypeOK

LEMMA ChargesKeepClosure ==
  ASSUME Inv, active => CanDispatch(mem, Block), mem' \in {Charged(TRUE), Charged(FALSE)}
  PROVE  mem'.closed = mem.closed
<1>1. Charged(TRUE).closed = mem.closed
  BY ChargeKeepsClosure
<1>2. Charged(FALSE).closed = mem.closed
  BY ChargeKeepsClosure
<1> QED BY <1>1, <1>2

\* The mutation a process is at keeps its condition until it is over, and its
\* candidate's transaction does not depend on the accounting.
LEMMA MutationStands ==
  ASSUME UNCHANGED <<root, terminal, own, entered, aborting, doubt>>, NEW k
  PROVE  (MayBegin(k) <=> MayBegin(k)')
BY DEF MayBegin

LEMMA TransactionOf ==
  ASSUME NEW k, NEW from, NEW a, NEW b
  PROVE  Candidate(k, from, a).tx = Candidate(k, from, b).tx
BY DEF Candidate

LEMMA ClosingInit == Init => Closing
<1> SUFFICES ASSUME Init PROVE Closing
  OBVIOUS
<1>1. /\ durable = Missing /\ root = Missing /\ cand = Missing /\ flight = {}
      /\ mem = initial_accounting /\ ~active /\ pc = "ended" /\ ~aborting
  BY DEF Init
<1>2. \A r \in InPlay : SettledRecord(r)
  BY <1>1, MissingIsSettled DEF InPlay
<1>3. mem.closed = "open"
  BY <1>1 DEF initial_accounting
<1> QED BY <1>1, <1>2, <1>3 DEF Closing, Prepared, Writing

\* Steps after which no write is in progress, and of which none of what has
\* been closed or left open is the subject.
LEMMA ClosingQuiet ==
  ASSUME Closing, InPlay' \subseteq InPlay \cup {Missing}, ~Writing',
         mem'.closed = mem.closed,
         UNCHANGED <<active, root, terminal, entered, aborting, doubt>>
  PROVE  Closing'
<1>1. (\A r \in InPlay : SettledRecord(r))'
  BY RecordsStaySettled
<1> QED BY <1>1 DEF Closing, Prepared, Writing

LEMMA ClosingComing ==
  ASSUME Inv, Closing, Start \/ End \/ AbandonStartup \/ StartupRead
  PROVE  Closing'
<1>1. CASE Start \/ StartupRead
  <2>1. /\ pc' = "startup"
        /\ UNCHANGED <<active, durable, flight, root, cand, mem, terminal, entered, aborting, doubt>>
    BY <1>1 DEF Start, StartupRead, github, meter, writing, review
  <2>2. InPlay' \subseteq InPlay \cup {Missing}
    BY <2>1 DEF InPlay
  <2> QED BY <2>1, <2>2, ClosingQuiet DEF Writing
<1>2. CASE End \/ AbandonStartup
  <2>1. /\ ~active' /\ pc' = "ended" /\ UNCHANGED <<durable, flight>> /\ ~aborting'
        /\ root' = Missing /\ cand' = Missing /\ mem' = initial_accounting
    BY <1>2 DEF End, AbandonStartup, Forget, github
  <2>2. InPlay' \subseteq InPlay \cup {Missing}
    BY <2>1 DEF InPlay
  <2>3. mem'.closed = "open"
    BY <2>1 DEF initial_accounting
  <2>4. (\A r \in InPlay : SettledRecord(r))'
    BY <2>2, RecordsStaySettled
  <2> QED BY <2>1, <2>3, <2>4 DEF Closing, Prepared, Writing
<1> QED BY <1>1, <1>2

LEMMA ClosingLand == ASSUME Inv, Closing, Land PROVE Closing'
<1>1. UNCHANGED <<root, cand, kind, mem, pc, active, terminal, own, entered, aborting, doubt>>
  BY DEF Land, meter, writing, review
<1>2. InPlay' \subseteq InPlay \cup {Missing}
  BY <1>1 DEF Land, InPlay
<1>3. (\A r \in InPlay : SettledRecord(r))'
  BY <1>2, RecordsStaySettled
<1> QED BY <1>1, <1>3, MutationStands DEF Closing, Prepared, Writing

LEMMA ClosingLoad == ASSUME Inv, Memory, Closing, Load PROVE Closing'
<1>1. /\ pc = "startup" /\ ~active /\ active' = active /\ pc' \in {"find", "confirm"}
      /\ UNCHANGED <<durable, flight, mem, aborting, terminal, entered, doubt>>
      /\ root' = durable /\ durable \in Records /\ mem \in Account
      /\ mem = initial_accounting
  BY DEF Load, github, Inv, Phases, TypeOK, review, Memory
<1>2. mem.closed = "open" /\ initial_accounting.closed = "open"
  BY <1>1 DEF initial_accounting
<1>3. ~aborting
  BY <1>1 DEF Closing
<1>4. CASE pc' = "confirm"
  <2>1. cand' = Candidate("enrol", durable, mem)
    BY <1>4 DEF Load
  <2>2. cand'.acct.closed = "open"
    BY <1>1, <1>2, <2>1, ActivationIs
  <2>3. (\A r \in InPlay : SettledRecord(r))'
    BY <1>1, <2>2 DEF InPlay, Closing, SettledRecord
  <2> QED BY <1>1, <1>2, <1>3, <1>4, <2>2, <2>3 DEF Closing, Prepared, Writing
<1>5. CASE pc' = "find"
  <2>1. cand' = cand
    BY <1>5 DEF Load
  <2>2. InPlay' \subseteq InPlay \cup {Missing}
    BY <1>1, <2>1 DEF InPlay
  <2>3. (\A r \in InPlay : SettledRecord(r))'
    BY <2>2, RecordsStaySettled
  <2> QED BY <1>1, <1>2, <1>3, <1>5, <2>3 DEF Closing, Prepared, Writing
<1> QED BY <1>1, <1>4, <1>5

LEMMA ClosingBegin == ASSUME Inv, Closing, NEW k \in Kinds, Begin(k) PROVE Closing'
<1>1. /\ pc = "idle" /\ pc' = "find" /\ kind' = k /\ MayBegin(k)
      /\ UNCHANGED <<durable, flight, root, cand, mem, active, terminal, own, entered, aborting, doubt>>
  BY DEF Begin, github, meter, review
<1>2. MayBegin(k)'
  BY <1>1, MutationStands
<1>3. InPlay' \subseteq InPlay \cup {Missing}
  BY <1>1 DEF InPlay
<1>4. (\A r \in InPlay : SettledRecord(r))'
  BY <1>3, RecordsStaySettled
<1>5. MayBegin(kind)'
  BY <1>1, <1>2
<1> QED BY <1>1, <1>4, <1>5 DEF Closing, Prepared, Writing

LEMMA ClosingFence == ASSUME Inv, Closing, Scan \/ Confirm PROVE Closing'
<1>1. /\ pc \in {"find", "confirm"} /\ OperationFunds(FALSE) /\ mem' = Charged(TRUE)
      /\ pc' \in {"find", "confirm", "write"} /\ (pc' = "find" <=> pc = "find")
      /\ UNCHANGED <<durable, flight, root, cand, kind, active, terminal, own, entered,
                     aborting, doubt>>
  BY DEF Scan, Confirm, OperationRead, github, review
<1>2. mem'.closed = mem.closed
  BY <1>1, ChargeKeepsClosure DEF OperationFunds, Funded
<1>3. InPlay' \subseteq InPlay \cup {Missing}
  BY <1>1 DEF InPlay
<1>4. (\A r \in InPlay : SettledRecord(r))'
  BY <1>3, RecordsStaySettled
<1>5. active => MayBegin(kind)'
  BY <1>1, MutationStands DEF Closing, Writing
<1>6. (Candidate(kind, root, mem).tx)' = Candidate(kind, root, mem).tx
  BY <1>1, TransactionOf
<1>7. (Prepared' <=> Prepared) /\ Writing
  BY <1>1 DEF Prepared, Writing
<1>8. (Prepared /\ active =>
         cand.tx = Candidate(kind, root, mem).tx /\ cand.acct.closed = mem.closed)'
  BY <1>1, <1>2, <1>6, <1>7 DEF Closing
<1>9. (Prepared /\ ~active => cand.acct.closed = "open")'
  BY <1>1, <1>7 DEF Closing
<1>10. (Writing /\ active => MayBegin(kind))'
  BY <1>1, <1>5
<1> QED BY <1>1, <1>2, <1>4, <1>8, <1>9, <1>10 DEF Closing

\* Once the accounting in memory is closed, only what keeps the transaction
\* may still be written.
LEMMA ClosedMutations ==
  ASSUME Closing, NEW k \in Kinds, MayBegin(k)
  PROVE  /\ terminal = "publish" /\ root.tx = "published" => k = "finish"
         /\ terminal = "abort" /\ root.tx = "none" => k \in {"close", "charge"}
BY DEF Closing, MayBegin, Kinds

LEMMA ClosingPrepare == ASSUME Inv, Memory, Memory', Closing, Prepare PROVE Closing'
<1>1. /\ pc = "find" /\ pc' = "confirm" /\ OperationFunds(FALSE)
      /\ UNCHANGED <<durable, flight, root, kind, active, terminal, own, entered, aborting, doubt>>
      /\ cand' = Candidate(kind, root, Charged(TRUE))
      /\ mem' = IF active THEN cand'.acct ELSE mem
  BY DEF Prepare, OperationRead, github, review
<1>2. /\ root \in Records /\ kind \in Kinds /\ mem \in Account
  BY DEF Inv, TypeOK
<1>3. Charged(TRUE) \in Account /\ Charged(TRUE).closed = mem.closed
  BY <1>1, OperationMemory DEF Writing
<1>4. CASE ~active
  <2>1. kind = "recover" /\ attempt = 2
    BY <1>1, <1>4 DEF Inv, Phases, Writing
  <2>2. root.acct.closed = "open"
    BY <1>1, <2>1 DEF Memory
  <2>3. cand'.acct.closed = claim_startup(root.acct, 2).closed
    BY <1>1, <1>2, <1>3, <2>1, ActivationIs
  <2>4. claim_startup(root.acct, 2).closed = root.acct.closed
    <3>1. PICK x \in Account : x = root.acct
      BY <1>2 DEF Records
    <3> QED BY <3>1 DEF claim_startup, Account
  <2>5. cand'.acct.closed = "open"
    BY <2>2, <2>3, <2>4
  <2>6. (\A r \in InPlay : SettledRecord(r))'
    BY <1>1, <2>5 DEF InPlay, Closing, SettledRecord
  <2> QED BY <1>1, <1>4, <2>5, <2>6 DEF Closing, Prepared, Writing
<1>5. CASE active
  <2>1. kind \notin {"enrol", "recover"}
    BY <1>1, <1>5 DEF Inv, Phases, Writing
  <2>2. MayBegin(kind)
    BY <1>1, <1>5 DEF Closing, Writing
  <2>3. cand'.acct.closed = IF kind = "finish" THEN "published"
                            ELSE IF kind = "close" THEN "aborted" ELSE mem.closed
    BY <1>1, <1>2, <1>3, <2>1, CandidateIs
  <2>4. cand'.tx = Candidate(kind, root, mem).tx
    BY <1>1, TransactionOf
  <2>5. mem'.closed = cand'.acct.closed
    BY <1>1, <1>5
  <2>6. ASSUME mem'.closed = "published"
        PROVE  root.tx = "published" /\ terminal = "publish" /\ ~doubt
    <3>1. CASE kind = "finish"
      BY <2>2, <3>1 DEF MayBegin
    <3>2. CASE kind # "finish"
      BY <2>3, <2>5, <2>6, <3>2 DEF Closing
    <3> QED BY <3>1, <3>2
  <2>7. ASSUME mem'.closed = "aborted"
        PROVE  root.tx = "none" /\ terminal = "abort" /\ ~entered
    <3>1. CASE kind = "close"
      BY <2>2, <3>1 DEF MayBegin, Closing
    <3>2. CASE kind # "close"
      BY <2>3, <2>5, <2>7, <3>2 DEF Closing
    <3> QED BY <3>1, <3>2
  <2>8. SettledRecord(cand')
    <3>1. ASSUME mem'.closed = "published" PROVE cand'.tx = "published"
      <4>1. kind = "finish" /\ root.tx = "published"
        BY <1>2, <2>2, <2>6, <3>1, ClosedMutations
      <4> QED BY <2>4, <4>1 DEF Candidate
    <3>2. ASSUME mem'.closed = "aborted" PROVE cand'.tx = "none"
      <4>1. kind \in {"close", "charge"} /\ root.tx = "none"
        BY <1>2, <2>2, <2>7, <3>2, ClosedMutations
      <4> QED BY <2>4, <4>1 DEF Candidate
    <3> QED BY <2>5, <3>1, <3>2 DEF SettledRecord
  <2>9. (\A r \in InPlay : SettledRecord(r))'
    BY <1>1, <2>8 DEF InPlay, Closing
  <2>10. MayBegin(kind)'
    BY <1>1, <2>2, MutationStands
  <2>11. (Candidate(kind, root, mem).tx)' = Candidate(kind, root, mem).tx
    <3>1. kind' = kind /\ root' = root
      BY <1>1
    <3> QED BY <3>1, TransactionOf
  <2>12. (aborting => active /\ root.tx = "none" /\ terminal = "abort")'
    BY <1>1 DEF Closing
  <2> QED BY <1>1, <1>5, <2>4, <2>5, <2>6, <2>7, <2>9, <2>10, <2>11, <2>12
      DEF Closing, Prepared, Writing
<1> QED BY <1>4, <1>5 DEF Inv, TypeOK

LEMMA ClosingAbandon == ASSUME Inv, Closing, Abandon PROVE Closing'
<1>1. /\ pc \in {"find", "confirm"} /\ active /\ active' = active /\ pc' = "idle"
      /\ UNCHANGED <<durable, flight, root, terminal, entered, aborting, doubt>> /\ cand' = Missing
  BY DEF Abandon, Settle, github, review
<1>2. mem'.closed = mem.closed
  <2>1. CASE OperationFunds(FALSE) /\ mem' \in {Charged(TRUE), Charged(FALSE)}
    BY <2>1, ChargesKeepClosure DEF OperationFunds, Funded
  <2>2. CASE UNCHANGED meter
    BY <2>2 DEF meter
  <2> QED BY <2>1, <2>2 DEF Abandon
<1>3. InPlay' \subseteq InPlay \cup {Missing} /\ ~Writing'
  BY <1>1 DEF InPlay, Writing
<1> QED BY <1>1, <1>2, <1>3, ClosingQuiet

LEMMA ClosingWrite == ASSUME Inv, Closing, Write PROVE Closing'
<1>1. /\ pc = "write" /\ OperationFunds(TRUE) /\ mem' \in {Charged(TRUE), Charged(FALSE)}
      /\ pc' \in {"echo", "retry", "stuck"}
      /\ UNCHANGED <<root, active, terminal, own, entered, aborting, doubt>>
      /\ pc' # "stuck" => cand' = cand /\ kind' = kind
      /\ cand' \in {cand, Missing} /\ durable' \in {durable, cand}
      /\ flight' \subseteq flight \cup {cand}
  BY DEF Write, Settle, github, review
<1>2. mem'.closed = mem.closed
  BY <1>1, ChargesKeepClosure DEF OperationFunds, Funded
<1>3. InPlay' \subseteq InPlay \cup {Missing}
  BY <1>1 DEF InPlay
<1>4. CASE pc' = "stuck"
  BY <1>1, <1>2, <1>3, <1>4, ClosingQuiet DEF Writing
<1>5. CASE pc' \in {"echo", "retry"}
  <2>1. (\A r \in InPlay : SettledRecord(r))'
    BY <1>3, RecordsStaySettled
  <2>2. active => MayBegin(kind)'
    BY <1>1, <1>5, MutationStands DEF Closing, Writing
  <2>3. (Candidate(kind, root, mem).tx)' = Candidate(kind, root, mem).tx
    BY <1>1, <1>5, TransactionOf
  <2>4. Prepared
    BY <1>1 DEF Prepared
  <2>5. (Prepared /\ active =>
           cand.tx = Candidate(kind, root, mem).tx /\ cand.acct.closed = mem.closed)'
    BY <1>1, <1>2, <1>5, <2>3, <2>4 DEF Closing
  <2>6. (Prepared /\ ~active => cand.acct.closed = "open")'
    BY <1>1, <1>5, <2>4 DEF Closing
  <2> QED BY <1>1, <1>2, <1>5, <2>1, <2>2, <2>5, <2>6 DEF Closing
<1> QED BY <1>1, <1>4, <1>5

\* The record a process goes on from is the one it has just written.
LEMMA ClosingAccept ==
  ASSUME Inv, Closing, pc \in {"echo", "retry"}, OperationFunds(FALSE), Accept,
         UNCHANGED <<durable, flight>>
  PROVE  Closing'
<1>1. /\ root' = cand /\ active' = TRUE /\ cand' = Missing /\ pc' \in {"idle", "stuck"}
      /\ mem' = IF active THEN Charged(TRUE) ELSE cand.acct
      /\ UNCHANGED <<terminal, entered, doubt>>
      /\ aborting' = (kind = "cleanup" /\ root.tx = "analysis")
      /\ kind \in Kinds
  BY DEF Accept, Settle, Inv, TypeOK
<1>2. (\A r \in InPlay : SettledRecord(r))'
  <2>1. InPlay' \subseteq InPlay \cup {Missing}
    BY <1>1 DEF InPlay
  <2> QED BY <2>1, RecordsStaySettled
<1>3. ~Writing' /\ ~Prepared' /\ pc' # "find"
  BY <1>1 DEF Writing, Prepared
<1>4. CASE ~active
  <2>1. mem'.closed = "open"
    BY <1>1, <1>4 DEF Closing, Prepared
  <2>2. kind \in {"enrol", "recover"}
    BY <1>4 DEF Inv, Phases, Writing
  <2>3. ~aborting'
    BY <1>1, <2>2
  <2> QED BY <1>1, <1>2, <1>3, <2>1, <2>3 DEF Closing
<1>5. CASE active
  <2>1. /\ MayBegin(kind) /\ cand.tx = Candidate(kind, root, mem).tx
        /\ mem'.closed = mem.closed
    <3>1. mem'.closed = mem.closed
      BY <1>1, <1>5, ChargeKeepsClosure DEF OperationFunds, Funded
    <3> QED BY <1>5, <3>1 DEF Closing, Writing, Prepared
  <2>2. ASSUME mem'.closed = "published"
        PROVE  root'.tx = "published" /\ terminal' = "publish" /\ ~doubt'
    <3>1. root.tx = "published" /\ terminal = "publish" /\ ~doubt
      BY <2>1, <2>2 DEF Closing
    <3>2. kind = "finish"
      BY <1>1, <2>1, <3>1, ClosedMutations
    <3>3. cand.tx = root.tx
      BY <2>1, <3>2 DEF Candidate
    <3> QED BY <1>1, <3>1, <3>3
  <2>3. ASSUME mem'.closed = "aborted"
        PROVE  root'.tx = "none" /\ terminal' = "abort" /\ ~entered'
    <3>1. root.tx = "none" /\ terminal = "abort" /\ ~entered
      BY <2>1, <2>3 DEF Closing
    <3>2. kind \in {"close", "charge"}
      BY <1>1, <2>1, <3>1, ClosedMutations
    <3>3. cand.tx = root.tx
      BY <2>1, <3>2 DEF Candidate
    <3> QED BY <1>1, <3>1, <3>3
  <2>4. ASSUME aborting' PROVE root'.tx = "none" /\ terminal' = "abort"
    <3>1. kind = "cleanup"
      BY <1>1, <2>4
    <3>2. cand.tx = "none"
      BY <2>1, <3>1 DEF Candidate
    <3>3. terminal = "abort"
      BY <2>1, <3>1 DEF MayBegin
    <3> QED BY <1>1, <3>2, <3>3
  <2> QED BY <1>1, <1>2, <1>3, <2>2, <2>3, <2>4 DEF Closing
<1> QED BY <1>4, <1>5 DEF Inv, TypeOK

LEMMA ClosingReadBack == ASSUME Inv, Closing, Echo \/ Reconcile PROVE Closing'
<1>1. pc \in {"echo", "retry"} /\ OperationFunds(FALSE) /\ UNCHANGED <<durable, flight>>
  BY DEF Echo, Reconcile, github
<1>2. CASE Accept
  BY <1>1, <1>2, ClosingAccept
<1>3. CASE ~Accept
  <2>1. /\ UNCHANGED <<root, active, terminal, own, entered, aborting, doubt>>
        /\ mem' \in {Charged(TRUE), Charged(FALSE)}
        /\ pc' \in {"retry", "stuck"} /\ cand' \in {cand, Missing}
        /\ pc' = "retry" => cand' = cand /\ kind' = kind
    BY <1>3 DEF Echo, Reconcile, Refuse, Settle, review
  <2>2. InPlay' \subseteq InPlay \cup {Missing}
    BY <1>1, <2>1 DEF InPlay
  <2>3. mem'.closed = mem.closed
    BY <1>1, <2>1, ChargesKeepClosure DEF OperationFunds, Funded
  <2>4. CASE pc' = "stuck"
    BY <2>1, <2>2, <2>3, <2>4, ClosingQuiet DEF Writing
  <2>5. CASE pc' = "retry"
    <3>1. (\A r \in InPlay : SettledRecord(r))'
      BY <2>2, RecordsStaySettled
    <3>2. active => MayBegin(kind)'
      BY <1>1, <2>1, <2>5, MutationStands DEF Closing, Writing
    <3>3. (Candidate(kind, root, mem).tx)' = Candidate(kind, root, mem).tx
      BY <2>1, <2>5, TransactionOf
    <3>4. Prepared
      BY <1>1 DEF Prepared
    <3>5. (Prepared /\ active =>
             cand.tx = Candidate(kind, root, mem).tx /\ cand.acct.closed = mem.closed)'
      BY <2>1, <2>3, <2>5, <3>3, <3>4 DEF Closing
    <3>6. (Prepared /\ ~active => cand.acct.closed = "open")'
      BY <2>1, <2>5, <3>4 DEF Closing
    <3> QED BY <2>1, <2>3, <2>5, <3>1, <3>2, <3>5, <3>6 DEF Closing
  <2> QED BY <2>1, <2>4, <2>5
<1> QED BY <1>2, <1>3

LEMMA ClosingFree == ASSUME Inv, Closing, ReadFreely PROVE Closing'
<1>1. /\ pc \in {"idle", "stuck"} /\ pc' = pc /\ active /\ CanDispatch(mem, Block)
      /\ mem' \in {Charged(TRUE), Charged(FALSE)}
      /\ UNCHANGED <<durable, flight, root, cand, active, terminal, entered, aborting, doubt>>
  BY DEF ReadFreely, Funded, github, writing, review
<1>2. mem'.closed = mem.closed
  BY <1>1, ChargesKeepClosure
<1>3. InPlay' \subseteq InPlay \cup {Missing} /\ ~Writing'
  BY <1>1 DEF InPlay, Writing
<1> QED BY <1>1, <1>2, <1>3, ClosingQuiet

\* What may be left in doubt is left so before the run is closed.
LEMMA ClosingDoubt == ASSUME Inv, Closing, BusinessWrite PROVE Closing'
<1>1. /\ pc = "idle" /\ pc' = pc /\ active /\ Funded(TRUE) /\ mem.closed = "open"
      /\ UNCHANGED <<durable, flight, root, cand, active, terminal, entered, aborting>>
  BY DEF BusinessWrite, Inv, Phases, github, writing
<1>2. mem'.closed = "open"
  <2>1. CASE mem' \in {Charged(TRUE), Charged(FALSE)}
    BY <1>1, <2>1, ChargeKeepsClosure DEF Funded
  <2>2. CASE mem' = confirm(dispatch(Charged(FALSE), Block), Block)
    BY <1>1, <2>2, TwoSpend DEF Funded, Usable, WriteTail, Spends
  <2> QED BY <2>1, <2>2 DEF BusinessWrite
<1>3. (\A r \in InPlay : SettledRecord(r))'
  <2>1. InPlay' \subseteq InPlay \cup {Missing}
    BY <1>1 DEF InPlay
  <2> QED BY <2>1, RecordsStaySettled
<1> QED BY <1>1, <1>2, <1>3 DEF Closing, Prepared, Writing

\* The provider is entered over a running analysis, never over a closed one.
LEMMA ClosingDecision ==
  ASSUME Inv, Closing,
         EnterProvider \/ (\E reason \in {"publish", "abort"} : BeginTerminal(reason))
  PROVE  Closing'
<1>1. /\ pc = "idle" /\ pc' = pc
      /\ UNCHANGED <<durable, flight, root, cand, mem, active, aborting, doubt>>
  BY DEF EnterProvider, BeginTerminal, github, meter, writing
<1>2. (\A r \in InPlay : SettledRecord(r))'
  <2>1. InPlay' \subseteq InPlay \cup {Missing}
    BY <1>1 DEF InPlay
  <2> QED BY <2>1, RecordsStaySettled
<1>3. CASE EnterProvider
  <2>1. root.tx = "analysis" /\ terminal' = terminal
    BY <1>3 DEF EnterProvider
  <2> QED BY <1>1, <1>2, <2>1 DEF Closing, Prepared, Writing
<1>4. CASE \E reason \in {"publish", "abort"} : BeginTerminal(reason)
  <2>1. terminal = "no" /\ entered' = entered
    BY <1>4 DEF BeginTerminal
  <2>2. mem.closed # "published" /\ mem.closed # "aborted" /\ ~aborting
    BY <2>1 DEF Closing
  <2> QED BY <1>1, <1>2, <2>1, <2>2 DEF Closing, Prepared, Writing
<1> QED BY <1>3, <1>4

LEMMA ClosingNext == Inv /\ Memory /\ Memory' /\ Closing /\ [Next]_vars => Closing'
<1> SUFFICES ASSUME Inv, Memory, Memory', Closing, [Next]_vars PROVE Closing'
  OBVIOUS
<1>1. CASE Start \/ End \/ AbandonStartup \/ StartupRead
  BY <1>1, ClosingComing
<1>2. CASE Land
  BY <1>2, ClosingLand
<1>3. CASE Load
  BY <1>3, ClosingLoad
<1>4. CASE \E k \in Kinds : Begin(k)
  BY <1>4, ClosingBegin
<1>5. CASE Scan \/ Confirm
  BY <1>5, ClosingFence
<1>6. CASE Prepare
  BY <1>6, ClosingPrepare
<1>7. CASE Abandon
  BY <1>7, ClosingAbandon
<1>8. CASE Write
  BY <1>8, ClosingWrite
<1>9. CASE Echo \/ Reconcile
  BY <1>9, ClosingReadBack
<1>10. CASE ReadFreely
  BY <1>10, ClosingFree
<1>11. CASE BusinessWrite
  BY <1>11, ClosingDoubt
<1>12. CASE EnterProvider \/ (\E reason \in {"publish", "abort"} : BeginTerminal(reason))
  BY <1>12, ClosingDecision
<1>13. CASE UNCHANGED vars
  <2>1. UNCHANGED <<durable, flight, root, cand, kind, mem, active, pc, terminal, own, entered,
                    aborting, doubt>>
    BY <1>13 DEF vars, github, meter, writing, review
  <2>2. InPlay' \subseteq InPlay \cup {Missing}
    BY <2>1 DEF InPlay
  <2>3. (\A r \in InPlay : SettledRecord(r))'
    BY <2>2, RecordsStaySettled
  <2> QED BY <2>1, <2>3, MutationStands DEF Closing, Prepared, Writing
<1> QED BY <1>1, <1>2, <1>3, <1>4, <1>5, <1>6, <1>7, <1>8, <1>9, <1>10, <1>11, <1>12, <1>13 DEF Next

LEMMA RecordInv == Spec => [](Inv /\ Funds /\ Stands /\ Memory /\ Closing)
<1>1. Init => Inv /\ Funds /\ Stands /\ Memory /\ Closing
  BY InitInv, FundsInit, StandsInit, MemoryInit, ClosingInit
<1>2. Inv /\ Funds /\ Stands /\ Memory /\ Closing /\ [Next]_vars
        => Inv' /\ Funds' /\ Stands' /\ Memory' /\ Closing'
  BY NextInv, FundsNext, StandsNext, MemoryNext, ClosingNext
<1> QED BY <1>1, <1>2, PTL DEF Spec

-----------------------------------------------------------------------------
(* The properties                                                          *)

\* The tail of three requests that CallerOperation keeps back is there when
\* the write is sent, and what is left of it pays for the read that confirms
\* and for the one that reconciles (CallerOperation.consume, WRITE_CONFIRMATION_TAIL).
THEOREM ConfirmationIsFunded == Spec => []ConfirmationFunded
<1>1. ASSUME Inv, Funds PROVE ConfirmationFunded
  <2>1. ASSUME pc = "write", active PROVE OperationFunds(TRUE)
    <3>1. /\ Owns(mem) /\ op.left <= Usable /\ op.left >= WriteTail /\ ~op.wrote
          /\ mem \in Account /\ op \in Operations /\ attempt \in Attempts
      BY <1>1, <2>1 DEF Funds, Writing, Inv, TypeOK, Phases
    <3>2. Block \in mem.reserved /\ Block[1] = mem.owner /\ Block \in BlockIds
      BY <3>1 DEF Owns, Review, Terminal, Block, BlockIds
    <3>3. Usable >= WriteTail /\ mem.left[Block] > 0
      <4>1. PICK n \in Nat : n = op.left
        BY <3>1 DEF Operations
      <4>2. PICK u \in Nat : u = Usable
        BY <3>1, <3>2 DEF Account, Usable
      <4> QED BY <3>1, <4>1, <4>2 DEF WriteTail, Usable
    <3> QED BY <2>1, <3>1, <3>2, <3>3 DEF OperationFunds, Funded, CanDispatch, CanWrite
  <2>2. ASSUME pc \in {"echo", "retry"} PROVE OperationFunds(FALSE)
    <3>1. CASE active
      <4>1. /\ Owns(mem) /\ op.left <= Usable /\ op.wrote
            /\ op.confirmations < WriteTail - 1 /\ op.left > 0
            /\ mem \in Account /\ op \in Operations /\ attempt \in Attempts
        <5>1. /\ \/ op.confirmations = 0 /\ op.left >= 2
                 \/ op.confirmations = 1 /\ op.left >= 1
              /\ op \in Operations
          BY <1>1, <2>2, <3>1 DEF Funds, Inv, TypeOK
        <5>2. op.confirmations < WriteTail - 1 /\ op.left > 0
          BY <5>1 DEF WriteTail, Operations
        <5> QED BY <1>1, <2>2, <3>1, <5>2 DEF Funds, Writing, Inv, TypeOK, Phases
      <4>2. Block \in mem.reserved /\ Block[1] = mem.owner /\ Block \in BlockIds
        BY <4>1 DEF Owns, Review, Terminal, Block, BlockIds
      <4>3. mem.left[Block] > 0
        <5>1. PICK n \in Nat : n = op.left
          BY <4>1 DEF Operations
        <5>2. PICK u \in Nat : u = Usable
          BY <4>1, <4>2 DEF Account, Usable
        <5> QED BY <4>1, <5>1, <5>2 DEF Usable
      <4> QED BY <3>1, <4>1, <4>2, <4>3 DEF OperationFunds, Funded, CanDispatch, CanRead
    <3>2. CASE ~active
      BY <1>1, <2>2, <3>2 DEF Funds, OperationFunds, Funded
    <3> QED BY <1>1, <3>1, <3>2 DEF Inv, TypeOK
  <2> QED BY <2>1, <2>2 DEF ConfirmationFunded
<1> QED BY <1>1, RecordInv, PTL

\* Ordinary work is paid from the review block alone until begin_terminal, so
\* an owner's cleanup and completion keep their whole grant (terminal_requests,
\* ApiRunRequestTransport.open).
THEOREM TerminalWorkIsSafe == Spec => []TerminalWorkProtected
<1>1. Funds => TerminalWorkProtected
  BY DEF Funds, TerminalWorkProtected, Terminal
<1> QED BY <1>1, RecordInv, PTL

\* A process whose write is unresolved never writes again, so GitHub holds at
\* most one late write of each attempt (ReviewRunLedger.replace).
THEOREM OneWriteIsAtLarge == Spec => []OneWriteAtLarge
<1>1. Stands => OneWriteAtLarge
  BY DEF Stands
<1> QED BY <1>1, RecordInv, PTL

\* The record a process goes on from is the stored one, or one an earlier
\* attempt's late write has put in its place (_accept_checkpoint).
THEOREM RecordStands == Spec => []ConfirmedRecordStands
<1>1. Stands => ConfirmedRecordStands
  BY DEF Stands, ConfirmedRecordStands
<1> QED BY <1>1, RecordInv, PTL

LEMMA ContinuesIsSuccessor ==
  ASSUME NEW a \in Account, NEW b \in Account, Continues(a, b)
  PROVE  require_successor(a, b)
<1>1. remaining(a) \in Int /\ remaining(b) = remaining(a)
  <2>1. /\ Limit - Liability \in Int /\ a.completed \in Int
        /\ reserved_undispatched(a) \in Int /\ uncertain(a) \in Int
    BY AllowanceAssumption DEF reserved_undispatched, uncertain, SumBlocks, Account, BlockIds,
       Attempts, Liability
  <2> QED BY <2>1 DEF remaining, Continues
<1>2. \A x \in a.reserved : x[1] # b.owner => b.left[x] = a.left[x]
  BY DEF Continues, Account
<1> QED BY <1>1, <1>2 DEF Continues, require_successor

\* Every accounting in memory passes require_successor against the record the
\* process confirmed, and the constructor (ApiRunAccounting.__post_init__): no
\* checkpoint of a running review is refused for its accounting.
THEOREM MemoryContinues == Spec => []MemoryContinuesRecord
<1>1. ASSUME Inv, Memory PROVE MemoryContinuesRecord
  <2>1. root.acct \in Account /\ mem \in Account
    BY <1>1 DEF Inv, TypeOK, Records
  <2> QED BY <1>1, <2>1, ContinuesIsSuccessor DEF Memory, MemoryContinuesRecord, Proper
<1> QED BY <1>1, RecordInv, PTL

\* A write of the record replaces the record its process confirmed, and goes on
\* from it: the allowance and a closure stand (replace_checkpoint,
\* claim_startup, require_successor).
THEOREM NeverRefunds == Spec => RecordNeverRefunds
<1> DEFINE IInv == Inv /\ Funds /\ Stands /\ Memory /\ Closing
           Keeps == /\ remaining(durable'.acct) <= remaining(durable.acct)
                    /\ durable.acct.closed # "open" =>
                         durable'.acct.closed = durable.acct.closed
           Own == /\ durable # Missing /\ durable' # durable /\ flight' = flight
                  /\ durable'.acct.owner = durable.acct.owner \/ durable = root
<1>1. ASSUME IInv, Next, Own PROVE Keeps
  <2>1. CASE Write
    <3>1. /\ pc = "write" /\ durable' = cand
          /\ durable = root \/ durable.acct.owner < attempt
          /\ cand.acct.owner = attempt
      <4>1. pc = "write" /\ durable' \in {durable, cand}
        BY <2>1 DEF Write, github
      <4> QED BY <1>1, <4>1 DEF Stands
    <3>2. durable = root
      <4>1. PICK n \in Nat : n = attempt
        BY <1>1 DEF Inv, TypeOK
      <4>2. attempt = attempt /\ ~(attempt < attempt)
        BY <4>1
      <4> QED BY <1>1, <3>1, <4>2
    <3>3. root.acct \in Account /\ cand.acct \in Account /\ remaining(root.acct) \in Int
      <4>1. root.acct \in Account /\ cand.acct \in Account
        BY <1>1 DEF Inv, TypeOK, Records
      <4>2. PICK x \in Account : x = root.acct
        BY <4>1
      <4>3. /\ Limit - Liability \in Int /\ x.completed \in Int
            /\ reserved_undispatched(x) \in Int /\ uncertain(x) \in Int
        BY AllowanceAssumption DEF reserved_undispatched, uncertain, SumBlocks, Account, BlockIds,
           Attempts, Liability
      <4>4. remaining(x) \in Int
        BY <4>3 DEF remaining
      <4> QED BY <4>1, <4>2, <4>4
    <3>4. CASE active
      <4>1. Continues(root.acct, cand.acct)
        BY <1>1, <3>1, <3>4 DEF Memory, Prepared
      <4> QED BY <3>1, <3>2, <3>3, <4>1 DEF Continues
    <3>5. CASE ~active
      <4>1. kind \in {"enrol", "recover"}
        BY <1>1, <3>1, <3>5 DEF Inv, Phases, Writing
      <4>2. kind # "enrol"
        BY <1>1, <3>1, <3>2 DEF Memory
      <4> QED BY <1>1, <3>1, <3>2, <4>1, <4>2 DEF Memory
    <3> QED BY <1>1, <3>4, <3>5 DEF Inv, TypeOK
  <2>2. CASE ~Write
    <3>1. durable' = durable \/ flight' # flight
      <4>1. ASSUME Land PROVE flight' # flight
        BY <4>1 DEF Land
      <4>2. ASSUME ~Land PROVE durable' = durable
        BY <1>1, <2>2, <4>2 DEF Next, Start, End, StartupRead, Load, Begin, Scan, Prepare, Confirm,
           Abandon, AbandonStartup, Echo, Reconcile, ReadFreely, EnterProvider, BusinessWrite,
           BeginTerminal, github
      <4> QED BY <4>1, <4>2
    <3> QED BY <1>1, <3>1
  <2> QED BY <2>1, <2>2
<1>2. IInv /\ [Next]_vars => [Own => Keeps]_vars
  BY <1>1
<1>3. Spec => [][Own => Keeps]_vars
  BY <1>2, RecordInv, PTL DEF Spec
<1> QED BY <1>3 DEF RecordNeverRefunds

\* terminal_transaction is set over a published transaction with no mutation
\* in doubt, analysis_abort by a process that never entered the provider, and
\* no record that is stored or may still be applied says otherwise.
THEOREM ClosureSettled == Spec => []ClosureIsSettled
<1>1. Closing => ClosureIsSettled
  BY DEF Closing, InPlay, SettledRecord, ClosureIsSettled
<1> QED BY <1>1, RecordInv, PTL
=============================================================================

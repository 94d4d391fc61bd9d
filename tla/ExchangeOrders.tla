---------------------------- MODULE ExchangeOrders ----------------------------
(***************************************************************************)
(* The spot exchange's order path for one market: durable admission        *)
(* (order-command-service.ts), the leased workers that execute admitted    *)
(* commands, the matching engine's transaction (engine.ts), the market     *)
(* execution lock, the evidence triggers in PostgreSQL and cancellation    *)
(* (order-cancel-authority.ts).                                            *)
(*                                                                         *)
(* A database transaction is one action.  A worker is a claim of one       *)
(* command by an API request or a recovery lane; its local variables live  *)
(* between its transactions, so every read that is used after an await is  *)
(* used here after the other actors have moved.                            *)
(***************************************************************************)
EXTENDS Settlement, FiniteSets

CONSTANTS
    Requests,      \* the requests clients may send
    Workers,       \* the worker ids that may be claiming at one time
    NoWorker,      \* "nobody": a null locked_by, a free market lock
    Deposit,       \* the wallets' opening balances
    MaxOrders,     \* bound: orders admitted in a behaviour
    MaxAttempts,   \* exchange_order_commands.max_attempts
    MaxCancelling  \* bound: cancellations under way at one time

Sides == {"buy", "sell"}
(* "gtc" stands for the types gtc, ioc and fok, which the engine treats    *)
(* as priced orders and the book recovery leaves out of the book.          *)
Types == {"limit", "market", "gtc"}
TIFs == {"GTC", "IOC", "FOK"}

RequestType == [user : Users, side : Sides, type : Types, tif : TIFs,
                price : Nat, qty : Nat \ {0}, budget : Nat]

ASSUME OrdersAssumption ==
    /\ IsFiniteSet(Users)
    /\ Requests # {}
    /\ Requests \subseteq RequestType
    /\ \A r \in Requests : HoldIsExact(r)
    /\ NoWorker \notin Workers \cup 1..MaxOrders
    /\ Workers \cap (1..MaxOrders) = {}
    /\ Deposit \in [Users -> [Assets -> Nat]]
    /\ MaxOrders \in Nat
    /\ MaxAttempts \in Nat \ {0}
    /\ MaxCancelling \in Nat

OrderIds == 1..MaxOrders

VARIABLES
    orders,      \* orders rows, with the unreleased hold the ledger shows
    commands,    \* exchange_order_commands rows, one per order
    evidence,    \* per order, its processed events and the audit rows their trigger writes
    traded,      \* trades: quantity by taker and maker order
    wallet,      \* wallet_balances
    fees,        \* the exchange fee wallet
    marketLock,  \* the session advisory lock of the market: a worker, the
                 \* cancellation of an order (its id), or nobody
    cancelling,  \* orders whose cancellation is between its lock and its end
    pc,          \* per worker: where processExchangeOrderCommand stands
    job,         \* per worker: the order of the claimed command
    attempt,     \* per worker: the claim's copy of the command's attempt count
    seen,        \* per worker: the remaining quantity read by getOrder
    plan,        \* per worker: the engine's decision under the market lock
    proposal     \* per worker: the engine result handed to finalizeCommand

(* What a worker's steps outside the engine's transaction leave alone.     *)
bookVars == <<orders, evidence, traded, wallet, fees, cancelling>>
workerVars == <<pc, job, attempt, seen, plan, proposal>>
vars == <<orders, commands, evidence, traded, wallet, fees, marketLock,
          cancelling, pc, job, attempt, seen, plan, proposal>>

Open == {"NEW", "PARTIALLY_FILLED"}
Terminal == {"FILLED", "CANCELLED", "EXPIRED", "REJECTED"}
CommandStates == {"none", "admitted", "processing", "retryable", "final",
                  "failed_terminal"}
Reasons == {"none", "fok_insufficient_liquidity", "fok_partial",
            "market_price_protection", "no_liquidity"}
Evidence == [accepted : BOOLEAN, status : Open \cup Terminal, reason : Reasons]
Results == [accepted : BOOLEAN, status : Open \cup Terminal \cup {"none"},
            reason : Reasons]
NoResult == [accepted |-> FALSE, status |-> "none", reason |-> "none"]
NoProposal == [known |-> FALSE, accepted |-> FALSE, reason |-> "none"]
NoPlan == [reject |-> "none", fills |-> {}]

Admitted == {o \in OrderIds : orders[o].status # "none"}
IsGTC(r) == r.type # "market" /\ r.tif = "GTC"
HasTraded(o) == \E p \in OrderIds : traded[o][p] + traded[p][o] > 0
-------------------------------------------------------------------------------
Init ==
    /\ orders = [o \in OrderIds |-> [req |-> CHOOSE r \in Requests : TRUE,
                                     status |-> "none", remaining |-> 0,
                                     filled |-> 0, hold |-> 0]]
    /\ commands = [o \in OrderIds |-> [state |-> "none", attempts |-> 0,
                                       lockedBy |-> NoWorker,
                                       result |-> NoResult]]
    /\ evidence = [o \in OrderIds |-> << >>]
    /\ traded = [t \in OrderIds |-> [m \in OrderIds |-> 0]]
    /\ wallet = [u \in Users |-> [a \in Assets |->
                    [available |-> Deposit[u][a], held |-> 0]]]
    /\ fees = 0
    /\ marketLock = NoWorker
    /\ cancelling = {}
    /\ pc = [w \in Workers |-> "idle"]
    /\ job = [w \in Workers |-> 0]
    /\ attempt = [w \in Workers |-> 0]
    /\ seen = [w \in Workers |-> 0]
    /\ plan = [w \in Workers |-> NoPlan]
    /\ proposal = [w \in Workers |-> NoProposal]

(* admitExchangeOrderCommand: order, hold and command in one transaction.  *)
(* Short of available balance, the transaction rolls back.                 *)
Admit(o, r) ==
    LET hold == OrderHold(r)
        now == wallet[r.user][HoldAsset(r)]
    IN  /\ o \notin Admitted
        /\ \A p \in OrderIds : p < o => p \in Admitted
        /\ now.available >= hold
        /\ orders' = [orders EXCEPT ![o] = [req |-> r, status |-> "NEW",
                                            remaining |-> r.qty, filled |-> 0,
                                            hold |-> hold]]
        /\ wallet' = [wallet EXCEPT ![r.user][HoldAsset(r)] =
                        [available |-> now.available - hold,
                         held |-> now.held + hold]]
        /\ commands' = [commands EXCEPT ![o].state = "admitted"]
        /\ UNCHANGED <<evidence, traded, fees, marketLock, cancelling, workerVars>>
-------------------------------------------------------------------------------
(* placeOrder's locals go out of scope.                                    *)
ForgetRead(w) ==
    /\ seen' = [seen EXCEPT ![w] = 0]
    /\ plan' = [plan EXCEPT ![w] = NoPlan]

(* A worker's local state returns to that of no claim.                     *)
Park(w) ==
    /\ pc' = [pc EXCEPT ![w] = "idle"]
    /\ job' = [job EXCEPT ![w] = 0]
    /\ attempt' = [attempt EXCEPT ![w] = 0]
    /\ ForgetRead(w)
    /\ proposal' = [proposal EXCEPT ![w] = NoProposal]

Step(w, from, to) ==
    /\ pc[w] = from
    /\ pc' = [pc EXCEPT ![w] = to]

ReleaseLock(h) == marketLock' = IF marketLock = h THEN NoWorker ELSE marketLock

(* Mutant: an expired lease is reclaimed past the last attempt.            *)
ClaimableForEver(o) ==
    commands[o].state \in {"admitted", "retryable", "processing"}

(* A "processing" row is claimable once its lease has run out, which it    *)
(* may do under a live worker, at any time.                                *)
Claimable(o) ==
    \/ commands[o].state \in {"admitted", "retryable"}
    \/ commands[o].state = "processing" /\ commands[o].attempts < MaxAttempts

(* Mutant: a claim is not counted.                                         *)
UncountedClaim(row, w) == [row EXCEPT !.state = "processing", !.lockedBy = w]

ClaimedRow(row, w) ==
    [row EXCEPT !.state = "processing", !.attempts = @ + 1, !.lockedBy = w]

(* claimCommand: recoverExpiredCommandLease and the claim are one          *)
(* transaction.                                                            *)
Claim(w, o) ==
    /\ Step(w, "idle", "claimed")
    /\ Claimable(o)
    /\ commands' = [commands EXCEPT ![o] = ClaimedRow(@, w)]
    /\ job' = [job EXCEPT ![w] = o]
    /\ attempt' = [attempt EXCEPT ![w] = commands'[o].attempts]
    /\ UNCHANGED <<bookVars, marketLock, seen, plan, proposal>>

(* The same transaction over an expired lease with no attempt left: the    *)
(* command is failed_terminal and the claimer goes away with "busy".       *)
ExpireForGood(w, o) ==
    /\ pc[w] = "idle"
    /\ commands[o].state = "processing"
    /\ commands[o].attempts >= MaxAttempts
    /\ commands' = [commands EXCEPT ![o] =
                      [@ EXCEPT !.state = "failed_terminal",
                                !.lockedBy = NoWorker]]
    /\ UNCHANGED <<bookVars, marketLock, workerVars>>

(* The first read of processExchangeOrderCommand: a committed outcome goes *)
(* straight to finalization, with nothing proposed.                        *)
Reconstruct(w) ==
    /\ Step(w, "claimed",
            IF evidence[job[w]] = << >> THEN "unexecuted" ELSE "executed")
    /\ UNCHANGED <<bookVars, commands, marketLock, job, attempt, seen, plan, proposal>>

(* getOrder: the row placeOrder works from.                                *)
ReadOrder(w) ==
    /\ Step(w, "unexecuted", "ready")
    /\ seen' = [seen EXCEPT ![w] = orders[job[w]].remaining]
    /\ UNCHANGED <<bookVars, commands, marketLock, job, attempt, plan, proposal>>
-------------------------------------------------------------------------------
(* rebuildMarketBookFromAuthority: only published limit orders rest.       *)
Published(o) == commands[o].state = "final" /\ commands[o].result.accepted

(* Mutant: the rebuild forgets to join the admission commands.             *)
RestsUnpublished(o) ==
    orders[o].status \in Open /\ orders[o].req.type = "limit"

Rests(o) ==
    /\ orders[o].status \in Open
    /\ orders[o].req.type = "limit"
    /\ Published(o)

RebuiltBook ==
    {[id |-> o, user |-> orders[o].req.user, side |-> orders[o].req.side,
      price |-> orders[o].req.price, remaining |-> orders[o].remaining] :
        o \in {p \in OrderIds : Rests(p)}}

(* The book holds too little for a fill-or-kill order.                     *)
FOKShort(t, want) ==
    /\ orders[t].req.tif = "FOK"
    /\ FOKVolume(RebuiltBook, orders[t].req) < want

(* Mutants: no check that the plan fills a fill-or-kill order; no check    *)
(* that a market purchase keeps to its hold.                               *)
TakerRejectByVolume(t, want, fills) ==
    IF FOKShort(t, want) THEN "fok_insufficient_liquidity" ELSE "none"

TakerRejectFOKOnly(t, want, fills) ==
    LET r == orders[t].req
    IN  IF FOKShort(t, want) THEN "fok_insufficient_liquidity"
        ELSE IF r.tif = "FOK" /\ TotalFilled(fills) < want
        THEN "fok_partial"
        ELSE "none"

(* placeOrderLocked before its transaction: why the engine turns the taker *)
(* away, or "none".  Checked in this order.                                *)
TakerReject(t, want, fills) ==
    LET r == orders[t].req
    IN  IF FOKShort(t, want) THEN "fok_insufficient_liquidity"
        ELSE IF r.tif = "FOK" /\ TotalFilled(fills) < want
        THEN "fok_partial"
        ELSE IF /\ r.type = "market" /\ r.side = "buy" /\ fills # {}
                /\ orders[t].hold < PlannedSpend(fills, "sell")
        THEN "market_price_protection"
        ELSE "none"

(* computeFills, which the engine does not reach when the volume already   *)
(* refuses the order.                                                      *)
PlannedFills(t, want) ==
    IF FOKShort(t, want)
    THEN {} ELSE ComputeFills(RebuiltBook, t, orders[t].req, want)

(* placeOrder up to its transaction: the try-only market lock, the book    *)
(* rebuilt from PostgreSQL, the fills and the decision.  A fill below the  *)
(* settlement scale throws out of computeFills (StepFails).                *)
Plan(w) ==
    LET t == job[w]
        fills == PlannedFills(t, seen[w])
    IN  /\ Step(w, "ready", "planned")
        /\ marketLock = NoWorker
        /\ \A f \in fills : Settleable(f.qty, f.price)
        /\ marketLock' = w
        /\ plan' = [plan EXCEPT ![w] =
                      [reject |-> TakerReject(t, seen[w], fills),
                       fills |-> fills]]
        /\ UNCHANGED <<bookVars, commands, job, attempt, seen, proposal>>

(* The deferred trigger on order_events, at COMMIT: a processed event      *)
(* leaves one audit row, unique per order and verdict, or the transaction  *)
(* fails.  A terminal order's hold must be closed.                         *)
VerdictOf(status, hasTrades) == status \in Open \cup {"FILLED"} \/ hasTrades

EvidenceRow(status, hasTrades, reason) ==
    LET accepted == VerdictOf(status, hasTrades)
    IN  [accepted |-> accepted, status |-> status,
         reason |-> IF accepted THEN "none" ELSE reason]

(* Mutant: no unique key on the audit rows.                                *)
EvidenceUnchecked(o, row) == TRUE

EvidenceIsNew(o, row) ==
    \A i \in DOMAIN evidence[o] : evidence[o][i].accepted # row.accepted

Rows == [wallet |-> wallet, fees |-> fees, ok |-> TRUE,
         hold |-> [o \in OrderIds |-> orders[o].hold]]

(* No guarded UPDATE came short, the CHECKs of wallet_balances pass and    *)
(* getOrderHoldResidualTx found no hold released beyond its amount.        *)
RowsPass(s) ==
    /\ s.ok
    /\ s.wallet \in Wallets
    /\ s.fees \in Nat
    /\ s.hold \in [OrderIds -> Nat]

(* assertOrderHoldClosedTx for the moved orders that are over, and the     *)
(* trigger's check of the same.                                            *)
HoldsClosed(row, moved) ==
    \A o \in moved : row[o].status \in Terminal => row[o].hold = 0

(* What placeOrder returns.  The lock's connection must still hold the     *)
(* lock when it is released, and the COMMIT's answer must arrive; else     *)
(* the worker sees a failure although the transaction is committed.        *)
Return(w, accepted, reason, answered) ==
    /\ ReleaseLock(w)
    /\ IF answered /\ marketLock = w
       THEN /\ pc' = [pc EXCEPT ![w] = "executed"]
            /\ proposal' = [proposal EXCEPT ![w] =
                 [known |-> TRUE, accepted |-> accepted, reason |-> reason]]
       ELSE /\ pc' = [pc EXCEPT ![w] = "failing"]
            /\ UNCHANGED proposal
    /\ ForgetRead(w)
    /\ UNCHANGED <<commands, job, attempt, cancelling>>

(* commitTerminalOrder.  An order found terminal keeps its status and gets *)
(* no second event; its residual hold is released in either case.          *)
CommitTerminal(w) ==
    LET t == job[w]
        r == orders[t].req
        row == EvidenceRow("EXPIRED", HasTraded(t), plan[w].reject)
        fresh == orders[t].status \in Open
        s == ReleaseResidual(Rows, r, t)
    IN  /\ pc[w] = "planned"
        /\ plan[w].reject # "none"
        /\ RowsPass(s)
        /\ s.hold[t] = 0
        /\ fresh => EvidenceIsNew(t, row)
        /\ orders' = [orders EXCEPT ![t] =
                        [@ EXCEPT !.status = IF fresh THEN "EXPIRED"
                                             ELSE orders[t].status,
                                  !.hold = s.hold[t]]]
        /\ wallet' = s.wallet
        /\ evidence' = IF fresh THEN [evidence EXCEPT ![t] = Append(@, row)]
                                ELSE evidence
        /\ \E answered \in BOOLEAN : Return(w, FALSE, plan[w].reject, answered)
        /\ UNCHANGED <<traded, fees>>
-------------------------------------------------------------------------------
(* validateLockedOrdersTx and the guards of applyExactOrderFillTx.         *)
Validated(t, want, fills) ==
    /\ orders[t].status = "NEW"
    /\ orders[t].remaining = want
    /\ TotalFilled(fills) \in 0..want
    /\ \A f \in fills :
         LET m == orders[f.maker]
         IN  /\ m.status \in Open
             /\ m.req.type = "limit"
             /\ m.remaining = f.remaining
             /\ f.qty \in 1..m.remaining

TakerStatus(r, want, total) ==
    CASE total = want -> "FILLED"
      [] total > 0 /\ total # want -> IF IsGTC(r) THEN "PARTIALLY_FILLED"
                                                  ELSE "CANCELLED"
      [] OTHER -> IF IsGTC(r) THEN "NEW" ELSE "EXPIRED"

MakerStatus(o, qty) ==
    IF qty = orders[o].remaining THEN "FILLED" ELSE "PARTIALLY_FILLED"

(* Mutant: the second fill of an order overwrites the first.               *)
OverwriteFill(row, qty, status, hold) ==
    [row EXCEPT !.status = status, !.remaining = @ - qty, !.filled = qty,
                !.hold = hold]

(* applyExactOrderFillTx.                                                  *)
ApplyFill(row, qty, status, hold) ==
    [row EXCEPT !.status = status, !.remaining = @ - qty, !.filled = @ + qty,
                !.hold = hold]

(* The plan's trades settled one by one, then, when the taker is over,     *)
(* what is left of its hold.                                               *)
MatchedRows(t, want, fills) ==
    LET r == orders[t].req
        settled == SettleFills(Rows, orders, t, fills)
    IN  IF TakerStatus(r, want, TotalFilled(fills)) \in Terminal
        THEN ReleaseResidual(settled, r, t)
        ELSE settled

(* The makers and the taker moved by their fills.                          *)
MatchedOrders(t, want, fills, hold) ==
    LET total == TotalFilled(fills)
        qty(o) == FillOf(fills, o)
    IN  [o \in OrderIds |->
           IF o = t
           THEN ApplyFill(orders[o], total,
                          TakerStatus(orders[o].req, want, total), hold[o])
           ELSE IF qty(o) > 0
           THEN ApplyFill(orders[o], qty(o), MakerStatus(o, qty(o)), hold[o])
           ELSE orders[o]]

(* The engine's transaction: trades, order rows, terminal holds closed and *)
(* the taker's processed event.                                            *)
CommitMatch(w) ==
    LET t == job[w]
        fills == plan[w].fills
        status == TakerStatus(orders[t].req, seen[w], TotalFilled(fills))
        row == EvidenceRow(status, HasTraded(t) \/ fills # {}, "no_liquidity")
        s == MatchedRows(t, seen[w], fills)
        after == MatchedOrders(t, seen[w], fills, s.hold)
    IN  /\ pc[w] = "planned"
        /\ plan[w].reject = "none"
        /\ Validated(t, seen[w], fills)
        /\ RowsPass(s)
        /\ HoldsClosed(after, {t} \cup {f.maker : f \in fills})
        /\ EvidenceIsNew(t, row)
        /\ orders' = after
        /\ traded' = [traded EXCEPT ![t] =
                         [m \in OrderIds |-> @[m] + FillOf(fills, m)]]
        /\ wallet' = s.wallet
        /\ fees' = s.fees
        /\ evidence' = [evidence EXCEPT ![t] = Append(@, row)]
        /\ \E answered \in BOOLEAN :
             Return(w, status # "EXPIRED",
                    IF status = "EXPIRED" THEN "no_liquidity" ELSE "none",
                    answered)
-------------------------------------------------------------------------------
(* reconstructCommittedOutcome: the verdict the committed rows show.       *)
Reconstructed(o) ==
    LET accepted == VerdictOf(orders[o].status, HasTraded(o))
    IN  [accepted |-> accepted,
         reason |-> IF accepted THEN "none" ELSE Last(evidence[o]).reason]

(* Mutant: any worker may write the outcome of a command.                  *)
AnyoneHoldsLease(w, o) == TRUE

HoldsLease(w, o) == commands[o].state = "processing" /\ commands[o].lockedBy = w

(* Mutant: no evidence gate.                                               *)
GateOpen(o, accepted) == TRUE

(* tecpey_require_exchange_order_final_evidence: a final result needs an   *)
(* audit row of its verdict and of the order's present status.             *)
GatePasses(o, accepted) ==
    \E i \in DOMAIN evidence[o] :
        /\ evidence[o][i].accepted = accepted
        /\ evidence[o][i].status = orders[o].status

(* finalizeCommand, the transaction that publishes an outcome: the lease   *)
(* is still this worker's, the outcome is the engine's result or, without  *)
(* one, the reconstruction; a rejection needs a terminal order, a terminal *)
(* order a closed hold, and the evidence gate must pass.                   *)
Finalize(w) ==
    LET o == job[w]
        outcome == IF proposal[w].known
                   THEN [accepted |-> proposal[w].accepted,
                         reason |-> proposal[w].reason]
                   ELSE Reconstructed(o)
    IN  /\ pc[w] = "executed"
        /\ HoldsLease(w, o)
        /\ proposal[w].known \/ evidence[o] # << >>
        /\ outcome.accepted \/ orders[o].status \in Terminal
        /\ orders[o].status \in Terminal => orders[o].hold = 0
        /\ GatePasses(o, outcome.accepted)
        /\ commands' = [commands EXCEPT ![o] =
                          [@ EXCEPT !.state = "final", !.lockedBy = NoWorker,
                                    !.result = [accepted |-> outcome.accepted,
                                                status |-> orders[o].status,
                                                reason |-> outcome.reason]]]
        /\ Park(w)
        /\ UNCHANGED <<bookVars, marketLock>>

(* Another worker has finalized the command: its stored result is returned *)
(* unchanged.                                                              *)
FinalizeReplays(w) ==
    /\ pc[w] = "executed"
    /\ commands[job[w]].state = "final"
    /\ Park(w)
    /\ UNCHANGED <<bookVars, commands, marketLock>>

(* An exception, a busy lock, an unavailable database or a transaction     *)
(* whose guards fail: the worker goes to failCommand, its lock released.   *)
StepFails(w) ==
    /\ pc[w] \notin {"idle", "failing"}
    /\ pc' = [pc EXCEPT ![w] = "failing"]
    /\ proposal' = [proposal EXCEPT ![w] = NoProposal]
    /\ ReleaseLock(w)
    /\ ForgetRead(w)
    /\ UNCHANGED <<bookVars, commands, job, attempt>>

(* failCommand: back to retryable, or failed_terminal on the last attempt, *)
(* if the lease is still this worker's.  The claim's copy of the attempt   *)
(* count decides, the row's own is what claims and expiry go by.           *)
Fail(w) ==
    LET o == job[w]
    IN  /\ pc[w] = "failing"
        /\ commands' =
             IF HoldsLease(w, o)
             THEN [commands EXCEPT ![o] =
                     [@ EXCEPT !.state = IF attempt[w] >= MaxAttempts
                                         THEN "failed_terminal" ELSE "retryable",
                               !.lockedBy = NoWorker]]
             ELSE commands
        /\ Park(w)
        /\ UNCHANGED <<bookVars, marketLock>>

(* The process dies, or failCommand's own transaction cannot be written:   *)
(* the claim is left to its lease.                                         *)
Crash(w) ==
    /\ pc[w] # "idle"
    /\ ReleaseLock(w)
    /\ Park(w)
    /\ UNCHANGED <<bookVars, commands>>

(* The connection holding the lock drops: PostgreSQL frees the session     *)
(* lock while the handler of holder h goes on with other connections.      *)
LockLost(h) ==
    /\ marketLock = h
    /\ marketLock' = NoWorker
    /\ UNCHANGED <<bookVars, commands, workerVars>>

(* The owner asks for a cancellation, which waits for the market lock.     *)
CancelBegin(o) ==
    /\ o \in Admitted \ cancelling
    /\ Cardinality(cancelling) < MaxCancelling
    /\ marketLock = NoWorker
    /\ marketLock' = o
    /\ cancelling' = cancelling \cup {o}
    /\ UNCHANGED <<orders, evidence, traded, wallet, fees, commands, workerVars>>

(* Mutants: an order that is over is cancelled; an order whose command is  *)
(* still being processed is cancelled.                                     *)
CancellableInAnyStatus(o) == commands[o].state = "final"
CancellableUnpublished(o) == orders[o].status \in Open

Cancellable(o) == orders[o].status \in Open /\ commands[o].state = "final"

(* The lock is released and the request answered.                          *)
CancelOver(o) ==
    /\ o \in cancelling
    /\ cancelling' = cancelling \ {o}
    /\ ReleaseLock(o)
    /\ UNCHANGED <<evidence, traded, fees, commands, workerVars>>

(* Mutant: a cancellation that leaves the order's funds held.              *)
CancelKeepingHold(o) ==
    /\ Cancellable(o)
    /\ orders' = [orders EXCEPT ![o].status = "CANCELLED"]
    /\ CancelOver(o)
    /\ UNCHANGED wallet

(* The transaction of cancelOrderIdempotently.                             *)
Cancel(o) ==
    LET s == ReleaseResidual(Rows, orders[o].req, o)
    IN  /\ Cancellable(o)
        /\ RowsPass(s)
        /\ s.hold[o] = 0
        /\ orders' = [orders EXCEPT ![o] =
                        [@ EXCEPT !.status = "CANCELLED", !.hold = s.hold[o]]]
        /\ wallet' = s.wallet
        /\ CancelOver(o)

(* The order is over or still being processed, or the transaction fails.   *)
CancelRefused(o) ==
    /\ CancelOver(o)
    /\ UNCHANGED <<orders, wallet>>
-------------------------------------------------------------------------------
WorkerStep(w) ==
    \/ \E o \in OrderIds : Claim(w, o) \/ ExpireForGood(w, o)
    \/ Reconstruct(w)
    \/ ReadOrder(w)
    \/ Plan(w)
    \/ CommitTerminal(w)
    \/ CommitMatch(w)
    \/ Finalize(w)
    \/ FinalizeReplays(w)
    \/ StepFails(w)
    \/ Fail(w)

Next ==
    \/ \E o \in OrderIds, r \in Requests : Admit(o, r)
    \/ \E w \in Workers : WorkerStep(w) \/ Crash(w) \/ LockLost(w)
    \/ \E o \in OrderIds :
          CancelBegin(o) \/ Cancel(o) \/ CancelRefused(o) \/ LockLost(o)

(* The recovery lanes run continuously under a supervised service, as      *)
(* EXCHANGE_ORDER_ADMISSION_AUTHORITY.md has run-exchange-order-worker.ts   *)
(* run, so each worker keeps taking steps.  Nothing makes a client admit   *)
(* or cancel, and crashes and lost connections are not owed.               *)
Fairness == \A w \in Workers : WF_vars(WorkerStep(w))

Spec == Init /\ [][Next]_vars /\ Fairness
-------------------------------------------------------------------------------
OrderRows == [req : Requests, status : Open \cup Terminal \cup {"none"},
            remaining : Nat, filled : Nat, hold : Nat]

CommandRows == [state : CommandStates, attempts : 0..MaxAttempts,
                lockedBy : Workers \cup {NoWorker}, result : Results]

Fills == [maker : OrderIds, remaining : Nat, price : Nat, qty : Nat]

Plans == [reject : Reasons, fills : SUBSET Fills]

Proposals == [known : BOOLEAN, accepted : BOOLEAN, reason : Reasons]

PCs == {"idle", "claimed", "unexecuted", "ready", "planned", "executed",
        "failing"}

(* Every row has its columns' types and passes its CHECK constraints, and  *)
(* a worker's locals are what its program counter says.                    *)
TypeOK ==
    /\ orders \in [OrderIds -> OrderRows]
    /\ commands \in [OrderIds -> CommandRows]
    /\ evidence \in [OrderIds -> Seq(Evidence)]
    /\ traded \in [OrderIds -> [OrderIds -> Nat]]
    /\ wallet \in Wallets
    /\ fees \in Nat
    /\ marketLock \in Workers \cup OrderIds \cup {NoWorker}
    /\ cancelling \subseteq OrderIds
    /\ pc \in [Workers -> PCs]
    /\ job \in [Workers -> 0..MaxOrders]
    /\ \A w \in Workers : pc[w] # "idle" => job[w] \in OrderIds
    /\ attempt \in [Workers -> 0..MaxAttempts]
    /\ seen \in [Workers -> Nat]
    /\ plan \in [Workers -> Plans]
    /\ proposal \in [Workers -> Proposals]

-------------------------------------------------------------------------------
(* Safety. *)

(* What an order has traded with each other one, as taker and as maker.    *)
TradesOf(o) == [p \in OrderIds |-> traded[o][p] + traded[p][o]]

(* What every fill must add up to: an order's fills and what remains of it *)
(* make its quantity, and its filled quantity is the sum of its trades, as *)
(* taker and as maker, whatever workers raced for it.                      *)
FillsAddUp ==
    \A o \in Admitted :
        /\ orders[o].filled + orders[o].remaining = orders[o].req.qty
        /\ orders[o].filled = SumFunctionOnSet(TradesOf(o), OrderIds)

(* What each order still holds of a wallet.                                *)
HoldsOn(u, a) ==
    [o \in OrderIds |->
        IF /\ o \in Admitted
           /\ orders[o].req.user = u
           /\ HoldAsset(orders[o].req) = a
        THEN orders[o].hold ELSE 0]

(* The held balance of a wallet is exactly the holds its orders have left: *)
(* no order can consume the reservation of another one.                    *)
HeldEqualsResiduals ==
    \A u \in Users, a \in Assets :
        wallet[u][a].held = SumFunctionOnSet(HoldsOn(u, a), OrderIds)

(* What each user has of an asset, and has deposited.                      *)
Owned(a) == [u \in Users |-> wallet[u][a].available + wallet[u][a].held]
Deposited(a) == [u \in Users |-> Deposit[u][a]]

(* Trades move value and never make or lose any: per asset the wallets     *)
(* (and for quote the fee wallet) hold what was deposited.                 *)
ValueConserved ==
    \A a \in Assets :
        SumFunctionOnSet(Owned(a), Users) + (IF a = "quote" THEN fees ELSE 0)
            = SumFunctionOnSet(Deposited(a), Users)

(* No path into a terminal status (fill, expiry, cancellation, a second    *)
(* worker over a finished order) leaves funds reserved.                    *)
TerminalHoldClosed ==
    \A o \in OrderIds : orders[o].status \in Terminal => orders[o].hold = 0

(* An open order is still covered.  A sale holds all it has left to        *)
(* deliver.  A resting purchase holds the exact cost of what it still      *)
(* wants at its limit and the worst fee, less at most one settlement unit  *)
(* for each fill it has had: the rounding-up of every matched release      *)
(* drifts by no more than that.                                            *)
OpenOrdersCovered ==
    \A o \in Admitted :
        LET r == orders[o].req
            fills == Cardinality({p \in OrderIds : traded[o][p] + traded[p][o] > 0})
        IN  orders[o].status \in Open =>
              CASE r.side = "sell" -> orders[o].hold = orders[o].remaining
                [] r.side = "buy" /\ r.type = "market" -> orders[o].hold = r.budget
                [] OTHER -> (orders[o].hold + fills) * PriceScale * FeeDen
                              >= orders[o].remaining * r.price
                                   * (FeeDen + MaximumBuyFeeRate)

(* An admitted order is executed at most once, however many workers take   *)
(* its command, lose their lease, or retry after a lost answer: it has one *)
(* processed event, and has traded as a taker only if it has that one.     *)
ExecutedOnce ==
    \A o \in OrderIds :
        /\ Len(evidence[o]) <= 1
        /\ (\E m \in OrderIds : traded[o][m] > 0) => Len(evidence[o]) = 1

(* Until its command is published nobody else touches an order: its status *)
(* is NEW before execution and what its evidence says after.               *)
UnpublishedUntouched ==
    \A o \in Admitted :
        commands[o].state # "final" =>
            IF evidence[o] = << >>
            THEN /\ orders[o].status = "NEW"
                 /\ orders[o].filled = 0
                 /\ orders[o].hold = OrderHold(orders[o].req)
            ELSE \E i \in DOMAIN evidence[o] :
                    evidence[o][i].status = orders[o].status

(* The published result is the truth: it carries the verdict of the        *)
(* committed execution, and a rejected order never traded and is EXPIRED   *)
(* with its hold closed.                                                   *)
FinalOutcomeTruthful ==
    \A o \in OrderIds :
        commands[o].state = "final" =>
            LET result == commands[o].result
            IN  /\ \E i \in DOMAIN evidence[o] :
                     /\ evidence[o][i].accepted = result.accepted
                     /\ evidence[o][i].status = result.status
                /\ ~result.accepted =>
                     /\ ~HasTraded(o)
                     /\ orders[o].status = "EXPIRED"
                     /\ orders[o].hold = 0

(* Liquidity is taken only from published orders: an order that has traded *)
(* as a maker has a final, accepted command and is a limit order.          *)
MakersPublished ==
    \A t, m \in OrderIds :
        traded[t][m] > 0 => Published(m) /\ orders[m].req.type = "limit"

(* No trade between orders of one user, none outside the taker's limit.    *)
TradesRespectLimits ==
    \A t, m \in OrderIds :
        traded[t][m] > 0 =>
            LET taker == orders[t].req
                maker == orders[m].req
            IN  /\ taker.user # maker.user
                /\ maker.side = Opposite(taker.side)
                /\ Crosses(taker, maker.price)

(* A fill-or-kill order fills whole or not at all, and once published an   *)
(* order that may not rest (IOC, FOK, market) is terminal.                 *)
ImmediateOrdersNeverRest ==
    \A o \in Admitted :
        LET r == orders[o].req
        IN  /\ r.tif = "FOK" => orders[o].filled \in {0, r.qty}
            /\ (commands[o].state = "final" /\ ~IsGTC(r)) =>
                   orders[o].status \in Terminal

(* What order b has paid in quote for the fills it has had with each other *)
(* order, fees included.                                                   *)
Payments(b) ==
    [p \in OrderIds |->
        (IF traded[b][p] > 0
         THEN LET a == TradeAmounts(traded[b][p], orders[p].req.price, "sell")
              IN  a.quoteGross + a.buyerFee
         ELSE 0)
        + (IF traded[p][b] > 0
           THEN LET a == TradeAmounts(traded[p][b], orders[b].req.price, "buy")
                IN  a.quoteGross + a.buyerFee
           ELSE 0)]

PaidBy(b) == SumFunctionOnSet(Payments(b), OrderIds)

(* A purchase never costs more than the amount reserved when it was        *)
(* admitted, rounding and fees of every partial fill included.             *)
NeverOverpays ==
    \A o \in Admitted :
        orders[o].req.side = "buy" => PaidBy(o) <= OrderHold(orders[o].req)

-------------------------------------------------------------------------------
(* Action properties. *)

(* A final or failed command and its stored result never change, so every  *)
(* replay returns the first answer.                                        *)
OutcomeImmutable ==
    [][\A o \in OrderIds :
          commands[o].state \in {"final", "failed_terminal"} =>
              /\ commands'[o].state = commands[o].state
              /\ commands'[o].result = commands[o].result]_vars

(* A terminal order is never reopened, fills are never taken back, and a   *)
(* hold only shrinks once it is taken.                                     *)
OrdersOnlyProgress ==
    [][\A o \in Admitted :
          /\ orders[o].status \in Terminal => orders'[o].status = orders[o].status
          /\ orders'[o].filled >= orders[o].filled
          /\ orders'[o].hold <= orders[o].hold]_vars

-------------------------------------------------------------------------------
(* Liveness. *)

(* Every admitted command ends, in final or in failed_terminal.            *)
EveryCommandEnds ==
    \A o \in OrderIds :
        commands[o].state = "admitted"
            ~> commands[o].state \in {"final", "failed_terminal"}

(* An order that may not rest gets its funds back, or its command is       *)
(* handed to reconciliation: no retry loop keeps the hold for ever.        *)
ImmediateOrdersSettle ==
    \A o \in OrderIds :
        (o \in Admitted /\ ~IsGTC(orders[o].req))
            ~> (orders[o].hold = 0 \/ commands[o].state = "failed_terminal")

-------------------------------------------------------------------------------
(* Refinement: what the exchange promises for each order.                  *)
StageFor(state) ==
    CASE state = "none" -> "none"
      [] state = "final" -> "published"
      [] state = "failed_terminal" -> "abandoned"
      [] OTHER -> "pending"

Verdict(accepted) == IF accepted THEN "accepted" ELSE "rejected"

Stage == [o \in OrderIds |-> StageFor(commands[o].state)]

Decided ==
    [o \in OrderIds |->
        IF evidence[o] = << >> THEN "none" ELSE Verdict(evidence[o][1].accepted)]

Answered ==
    [o \in OrderIds |->
        IF commands[o].state = "final" THEN Verdict(commands[o].result.accepted)
                                       ELSE "none"]

Live == [o \in OrderIds |-> orders[o].status \in Open]

Filled == [o \in OrderIds |-> orders[o].filled]

Promise == INSTANCE OrderPromise WITH
    stage <- Stage, verdict <- Decided, answer <- Answered, live <- Live,
    filled <- Filled

(* Every behaviour of the workers, with their races, lost answers, retries *)
(* and crashes, is one of the promise: an order is executed once, its      *)
(* verdict published unchanged, and only published orders are filled.      *)
KeepsPromise == Promise!Spec
===============================================================================

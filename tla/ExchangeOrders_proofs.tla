------------------------ MODULE ExchangeOrders_proofs ------------------------
(***************************************************************************)
(* Theorems about ExchangeOrders, for every set of users, requests and     *)
(* workers, every deposit, fee and price scale and every bound.            *)
(***************************************************************************)
EXTENDS ExchangeOrders, SumTheorems, TLAPS

(* The hold of a request is a natural number: HoldIsExact says it is       *)
(* positive, and it is a quantity, a budget or a rounded-down product.     *)
LEMMA HoldIsNat ==
    ASSUME NEW r \in Requests
    PROVE  OrderHold(r) \in Nat
<1>1. r \in RequestType /\ HoldIsExact(r)
  BY OrdersAssumption
<1>2. CASE r.side = "sell" \/ r.type = "market"
  BY <1>1, <1>2, SMT DEF RequestType, Sides, OrderHold
<1>3. CASE r.side # "sell" /\ r.type # "market"
  <2> DEFINE amount == r.qty * r.price * (FeeDen + MaximumBuyFeeRate)
             unit == PriceScale * FeeDen
  <2>1. OrderHold(r) = amount \div unit
    BY <1>1, <1>3, SMT DEF RequestType, Sides, OrderHold, Floor
  <2>2. MaximumBuyFeeRate \in Nat
    BY FinancialsAssumption, SMT DEF MaximumBuyFeeRate, Greatest
  <2>3. r.qty * r.price \in Nat
    BY <1>1, SMT DEF RequestType
  <2>4. amount \in Nat
    BY <2>2, <2>3, FinancialsAssumption, SMT
  <2>5. unit \in Nat \ {0}
    BY FinancialsAssumption, SMT
  <2>6. amount \div unit \in Nat
    <3> HIDE DEF amount, unit
    <3> QED BY <2>4, <2>5, SMT
  <2> QED BY <2>1, <2>6
<1> QED BY <1>2, <1>3

(* What computeFills takes from a maker is positive and within its rest.   *)
LEMMA FillsAreOffers ==
    ASSUME NEW book, NEW id, NEW taker, NEW want,
           NEW f \in ComputeFills(book, id, taker, want)
    PROVE  \E e \in Candidates(book, id, taker) :
              /\ f.maker = e.id /\ f.price = e.price
              /\ f.remaining = e.remaining
              /\ f.qty \in 1..e.remaining
              /\ f = [maker |-> f.maker, remaining |-> f.remaining,
                      price |-> f.price, qty |-> f.qty]
BY DEF ComputeFills

LEMMA PlannedAreComputed ==
    ASSUME NEW t, NEW want
    PROVE  PlannedFills(t, want)
             \in {{}, ComputeFills(RebuiltBook, t, orders[t].req, want)}
BY Zenon DEF PlannedFills

(* The fields of well-typed rows, and the locals of a worker at rest.      *)
LEMMA CommandTypes ==
    ASSUME TypeOK, NEW o \in OrderIds
    PROVE  /\ commands[o] \in CommandRows
           /\ commands[o].state \in CommandStates
           /\ commands[o].attempts \in Nat
           /\ commands[o].attempts <= MaxAttempts
           /\ commands[o].lockedBy \in Workers \cup {NoWorker}
           /\ commands[o].result \in Results
<1>1. commands[o] \in CommandRows
  BY DEF TypeOK
<1>2. commands[o].attempts \in 0..MaxAttempts
  BY <1>1 DEF CommandRows
<1>3. MaxAttempts \in Nat
  BY OrdersAssumption
<1> QED BY <1>1, <1>2, <1>3, SMT DEF CommandRows

LEMMA OrderTypes ==
    ASSUME TypeOK, NEW o \in OrderIds
    PROVE  /\ orders[o] \in OrderRows
           /\ orders[o].req \in Requests
           /\ orders[o].req \in RequestType
           /\ orders[o].status \in Open \cup Terminal \cup {"none"}
           /\ orders[o].remaining \in Nat
           /\ orders[o].filled \in Nat
           /\ orders[o].hold \in Nat
           /\ evidence[o] \in Seq(Evidence)
           /\ traded[o] \in [OrderIds -> Nat]
<1>1. /\ orders[o] \in OrderRows /\ evidence[o] \in Seq(Evidence)
      /\ traded[o] \in [OrderIds -> Nat]
  BY DEF TypeOK
<1> QED BY <1>1, OrdersAssumption DEF OrderRows

LEMMA RestLocals ==
    /\ NoPlan \in Plans
    /\ NoProposal \in Proposals
    /\ 0 \in 0..MaxOrders
    /\ 0 \in 0..MaxAttempts
    /\ OrderIds \subseteq 0..MaxOrders
    /\ OrderIds \subseteq Nat
<1>1. MaxOrders \in Nat /\ MaxAttempts \in Nat
  BY OrdersAssumption
<1>2. /\ 0 \in 0..MaxOrders /\ 0 \in 0..MaxAttempts /\ OrderIds \subseteq 0..MaxOrders
      /\ OrderIds \subseteq Nat
  BY <1>1, SMT DEF OrderIds
<1> QED BY <1>2 DEF NoPlan, NoProposal, Plans, Proposals, Reasons

-------------------------------------------------------------------------------
(* The types.  TypeOK bounds the attempts of a command, and a claim adds   *)
(* one to them, so it is inductive only together with AttemptsLeft, which  *)
(* an admission keeps because order and command are inserted as a pair,    *)
(* and a failed claim because its copy of the count is the row's as long   *)
(* as it has the lease.                                                    *)
AttemptsLeft ==
    \A o \in OrderIds :
        commands[o].state \in {"none", "admitted", "retryable"}
            => commands[o].attempts < MaxAttempts

InsertedAsPair ==
    \A o \in OrderIds : commands[o].state = "none" <=> orders[o].status = "none"

ClaimsCounted ==
    \A w \in Workers :
        pc[w] # "idle" /\ HoldsLease(w, job[w])
            => attempt[w] = commands[job[w]].attempts

RowsTyped == TypeOK /\ AttemptsLeft /\ InsertedAsPair

Typed == TypeOK /\ AttemptsLeft /\ InsertedAsPair /\ ClaimsCounted

LEMMA InitTyped == Init => Typed
<1> SUFFICES ASSUME Init PROVE Typed
  OBVIOUS
<1>1. orders \in [OrderIds -> OrderRows]
  BY OrdersAssumption DEF Init, OrderRows, Open, Terminal
<1>2. commands \in [OrderIds -> CommandRows]
  BY OrdersAssumption, SMT
  DEF Init, CommandRows, CommandStates, Results, NoResult, Reasons, Open, Terminal
<1>3. wallet \in Wallets
  BY OrdersAssumption DEF Init, Wallets
<1>4. evidence \in [OrderIds -> Seq(Evidence)]
  BY DEF Init
<1>5. plan \in [Workers -> Plans]
  BY RestLocals DEF Init
<1>6. proposal \in [Workers -> Proposals]
  BY RestLocals DEF Init
<1>7. /\ traded \in [OrderIds -> [OrderIds -> Nat]]
      /\ fees \in Nat
      /\ marketLock \in Workers \cup OrderIds \cup {NoWorker}
      /\ cancelling \subseteq OrderIds
      /\ pc \in [Workers -> PCs]
      /\ job \in [Workers -> 0..MaxOrders]
      /\ \A w \in Workers : pc[w] # "idle" => job[w] \in OrderIds
      /\ attempt \in [Workers -> 0..MaxAttempts]
      /\ seen \in [Workers -> Nat]
  BY OrdersAssumption, SMT DEF Init, PCs
<1>8. AttemptsLeft /\ InsertedAsPair /\ ClaimsCounted
  BY OrdersAssumption, SMT DEF Init, AttemptsLeft, InsertedAsPair, ClaimsCounted
<1> QED BY <1>1, <1>2, <1>3, <1>4, <1>5, <1>6, <1>7, <1>8 DEF TypeOK, Typed

LEMMA AdmitTyped ==
    ASSUME Typed, NEW o \in OrderIds, NEW r \in Requests, Admit(o, r)
    PROVE  RowsTyped'
<1> USE DEF Typed, RowsTyped
<1>1. /\ OrderHold(r) \in Nat
      /\ r.user \in Users /\ r.qty \in Nat /\ HoldAsset(r) \in Assets
  BY HoldIsNat, OrdersAssumption DEF RequestType, HoldAsset, Assets
<1>2. orders' \in [OrderIds -> OrderRows]
  BY <1>1 DEF TypeOK, Admit, OrderRows, Open
<1>3. commands' \in [OrderIds -> CommandRows]
  BY DEF TypeOK, Admit, CommandRows, CommandStates
<1>4. wallet' \in Wallets
  <2> DEFINE now == wallet[r.user][HoldAsset(r)]
             after == [available |-> now.available - OrderHold(r),
                       held |-> now.held + OrderHold(r)]
  <2>1. wallet \in [Users -> [Assets -> [available : Nat, held : Nat]]]
    BY DEF TypeOK, Wallets
  <2>2. now \in [available : Nat, held : Nat]
    BY <1>1, <2>1
  <2>3. now.available >= OrderHold(r)
    BY DEF Admit
  <2>4. after \in [available : Nat, held : Nat]
    <3> HIDE DEF now
    <3> QED BY <1>1, <2>2, <2>3, SMT
  <2>5. wallet' = [wallet EXCEPT ![r.user][HoldAsset(r)] = after]
    BY DEF Admit
  <2> QED BY <1>1, <2>1, <2>4, <2>5 DEF Wallets
<1>5. AttemptsLeft' /\ InsertedAsPair'
  <2>1. commands[o].state = "none"
    BY DEF Admit, Admitted, InsertedAsPair
  <2>2. commands[o].attempts < MaxAttempts
    BY <2>1 DEF AttemptsLeft
  <2>3. commands' = [commands EXCEPT ![o] = [commands[o] EXCEPT !.state = "admitted"]]
    BY DEF Admit
  <2>4. orders'[o].status = "NEW" /\ \A p \in OrderIds \ {o} : orders'[p] = orders[p]
    BY DEF Admit, TypeOK
  <2> QED BY <2>2, <2>3, <2>4, CommandTypes
          DEF AttemptsLeft, InsertedAsPair, TypeOK, CommandRows
<1> QED BY <1>2, <1>3, <1>4, <1>5 DEF TypeOK, Admit, workerVars

(* The commands table and the worker's locals, after a step of a worker.   *)
LEMMA ClaimTyped ==
    ASSUME Typed, NEW w \in Workers, NEW o \in OrderIds, Claim(w, o)
    PROVE  RowsTyped'
<1> USE DEF Typed, RowsTyped
<1>1. commands[o].attempts < MaxAttempts
  BY DEF Claim, Claimable, AttemptsLeft
<1>2. ClaimedRow(commands[o], w) \in CommandRows
  <2>1. commands[o].attempts + 1 \in 0..MaxAttempts
    BY <1>1, CommandTypes, OrdersAssumption, SMT
  <2> QED BY <2>1, CommandTypes DEF ClaimedRow, CommandRows, CommandStates
<1>3. commands' = [commands EXCEPT ![o] = ClaimedRow(commands[o], w)]
  BY DEF Claim
<1>4. commands' \in [OrderIds -> CommandRows]
  BY <1>2, <1>3 DEF TypeOK
<1>5. AttemptsLeft' /\ InsertedAsPair'
  <2>1. commands[o].state # "none" /\ ClaimedRow(commands[o], w).state = "processing"
    BY CommandTypes DEF Claim, Claimable, ClaimedRow, CommandRows
  <2> QED BY <1>3, <2>1 DEF AttemptsLeft, InsertedAsPair, TypeOK, Claim, bookVars
<1>6. job' \in [Workers -> 0..MaxOrders] /\ job'[w] = o
  BY RestLocals DEF TypeOK, Claim
<1>7. pc' = [pc EXCEPT ![w] = "claimed"] /\ job' = [job EXCEPT ![w] = o]
  BY DEF Claim, Step
<1>8. /\ pc' \in [Workers -> PCs]
      /\ \A v \in Workers : pc'[v] # "idle" => job'[v] \in OrderIds
  BY <1>7 DEF TypeOK, PCs
<1>9. UNCHANGED <<bookVars, marketLock, seen, plan, proposal>>
  BY DEF Claim
<1>10. attempt' \in [Workers -> 0..MaxAttempts]
  <2>1. commands'[o].attempts \in 0..MaxAttempts
    BY <1>4 DEF CommandRows
  <2>2. attempt' = [attempt EXCEPT ![w] = commands'[o].attempts]
    BY DEF Claim
  <2> QED BY <2>1, <2>2 DEF TypeOK
<1> QED BY <1>4, <1>5, <1>6, <1>8, <1>9, <1>10 DEF TypeOK, bookVars

LEMMA ExpireTyped ==
    ASSUME Typed, NEW w \in Workers, NEW o \in OrderIds, ExpireForGood(w, o)
    PROVE  RowsTyped'
<1> USE DEF Typed, RowsTyped
<1> DEFINE row == [commands[o] EXCEPT !.state = "failed_terminal",
                                      !.lockedBy = NoWorker]
<1>1. row \in CommandRows
  BY CommandTypes DEF CommandRows, CommandStates
<1>2. row.state = "failed_terminal"
  BY CommandTypes DEF CommandRows
<1>3. commands' = [commands EXCEPT ![o] = row]
  BY DEF ExpireForGood
<1>4. /\ commands[o].state = "processing"
      /\ UNCHANGED <<bookVars, marketLock, workerVars>>
  BY DEF ExpireForGood
<1>5. commands' \in [OrderIds -> CommandRows] /\ AttemptsLeft' /\ InsertedAsPair'
  <2> HIDE DEF row
  <2> QED BY <1>1, <1>2, <1>3, <1>4 DEF bookVars, TypeOK, AttemptsLeft, InsertedAsPair
<1> QED BY <1>4, <1>5 DEF TypeOK, bookVars, workerVars

LEMMA ReadsTyped ==
    ASSUME Typed, NEW w \in Workers, Reconstruct(w) \/ ReadOrder(w)
    PROVE  RowsTyped'
<1> USE DEF Typed, RowsTyped
<1>1. CASE Reconstruct(w)
  BY <1>1 DEF TypeOK, AttemptsLeft, InsertedAsPair, Reconstruct, Step, PCs, bookVars
<1>2. CASE ReadOrder(w)
  <2>1. job[w] \in OrderIds
    BY <1>2 DEF TypeOK, ReadOrder, Step
  <2>2. seen' \in [Workers -> Nat]
    BY <1>2, <2>1, OrderTypes DEF TypeOK, ReadOrder
  <2> QED BY <1>2, <2>2 DEF TypeOK, AttemptsLeft, InsertedAsPair, ReadOrder, Step, PCs, bookVars
<1> QED BY <1>1, <1>2

(* The plan: its fills are offers of the rebuilt book's entries.           *)
LEMMA PlanTyped ==
    ASSUME Typed, NEW w \in Workers, Plan(w)
    PROVE  RowsTyped'
<1> USE DEF Typed, RowsTyped
<1> DEFINE t == job[w]
           fills == PlannedFills(t, seen[w])
<1>1. ASSUME NEW f \in fills PROVE f \in Fills
  <2>1. PICK e \in Candidates(RebuiltBook, t, orders[t].req) :
           /\ f.maker = e.id /\ f.price = e.price /\ f.remaining = e.remaining
           /\ f.qty \in 1..e.remaining
           /\ f = [maker |-> f.maker, remaining |-> f.remaining,
                   price |-> f.price, qty |-> f.qty]
    BY <1>1, PlannedAreComputed, FillsAreOffers
  <2>2. e \in RebuiltBook
    BY DEF Candidates, Crossing
  <2>3. PICK p \in OrderIds : /\ e.id = p /\ e.price = orders[p].req.price
                              /\ e.remaining = orders[p].remaining
    BY <2>2 DEF RebuiltBook
  <2>4. orders[p].remaining \in Nat /\ orders[p].req.price \in Nat
    BY OrderTypes DEF RequestType
  <2>5. f.qty \in Nat
    BY <2>1, <2>3, <2>4, SMT
  <2> QED BY <2>1, <2>3, <2>4, <2>5 DEF Fills
<1>2. TakerReject(t, seen[w], fills) \in Reasons
  BY Zenon DEF TakerReject, Reasons
<1>3. plan' = [plan EXCEPT ![w] = [reject |-> TakerReject(t, seen[w], fills),
                                   fills |-> fills]]
  BY DEF Plan
<1>4. plan' \in [Workers -> Plans]
  <2> HIDE DEF fills
  <2> QED BY <1>1, <1>2, <1>3 DEF TypeOK, Plans
<1> QED BY <1>4 DEF TypeOK, AttemptsLeft, InsertedAsPair, Plan, Step, PCs, bookVars

LEMMA ParkTypes ==
    ASSUME TypeOK, NEW w \in Workers, Park(w)
    PROVE  /\ pc' \in [Workers -> PCs]
           /\ job' \in [Workers -> 0..MaxOrders]
           /\ \A v \in Workers : pc'[v] # "idle" => job'[v] \in OrderIds
           /\ attempt' \in [Workers -> 0..MaxAttempts]
           /\ seen' \in [Workers -> Nat]
           /\ plan' \in [Workers -> Plans]
           /\ proposal' \in [Workers -> Proposals]
<1>1. /\ pc' = [pc EXCEPT ![w] = "idle"]
      /\ job' = [job EXCEPT ![w] = 0]
  BY DEF Park
<1> QED BY <1>1, RestLocals DEF TypeOK, Park, ForgetRead, PCs

LEMMA FinalizeTyped ==
    ASSUME Typed, NEW w \in Workers, Finalize(w) \/ FinalizeReplays(w)
    PROVE  RowsTyped'
<1> USE DEF Typed, RowsTyped
<1>1. CASE Finalize(w)
  <2> DEFINE o == job[w]
             outcome == IF proposal[w].known
                        THEN [accepted |-> proposal[w].accepted,
                              reason |-> proposal[w].reason]
                        ELSE Reconstructed(o)
             result == [accepted |-> outcome.accepted,
                        status |-> orders[o].status,
                        reason |-> outcome.reason]
             row == [commands[o] EXCEPT !.state = "final", !.lockedBy = NoWorker,
                                        !.result = result]
  <2>1. o \in OrderIds
    BY <1>1 DEF Finalize, TypeOK
  <2>2. PICK i \in DOMAIN evidence[o] :
           /\ evidence[o][i].accepted = outcome.accepted
           /\ evidence[o][i].status = orders[o].status
    BY <1>1 DEF Finalize, GatePasses
  <2>3. /\ evidence[o][i] \in Evidence
        /\ Last(evidence[o]) \in Evidence
    <3>1. evidence[o] \in Seq(Evidence)
      BY <2>1, OrderTypes
    <3>2. i \in 1..Len(evidence[o]) /\ Len(evidence[o]) \in Nat
      BY <2>2, <3>1
    <3>3. Len(evidence[o]) \in 1..Len(evidence[o])
      BY <3>2, SMT
    <3> QED BY <3>1, <3>2, <3>3 DEF Last
  <2>4. outcome.accepted \in BOOLEAN /\ orders[o].status \in Open \cup Terminal
    BY <2>2, <2>3 DEF Evidence
  <2>5. outcome.reason \in Reasons
    <3>1. proposal[w].reason \in Reasons /\ Last(evidence[o]).reason \in Reasons
      BY <2>3 DEF TypeOK, Evidence, Proposals
    <3> QED BY <3>1 DEF Reconstructed, Reasons
  <2>6. result \in Results
    <3> HIDE DEF outcome
    <3> QED BY <2>4, <2>5 DEF Results
  <2>7. row \in CommandRows /\ row.state = "final"
    <3> HIDE DEF result
    <3> QED BY <2>1, <2>6, CommandTypes DEF CommandRows, CommandStates
  <2>8. /\ commands' = [commands EXCEPT ![o] = row]
        /\ commands[o].state = "processing" /\ UNCHANGED bookVars
    BY <1>1 DEF Finalize, HoldsLease
  <2>9. commands' \in [OrderIds -> CommandRows] /\ AttemptsLeft' /\ InsertedAsPair'
    <3> HIDE DEF row
    <3> QED BY <2>1, <2>7, <2>8 DEF bookVars, TypeOK, AttemptsLeft, InsertedAsPair
  <2>10. Park(w) /\ UNCHANGED <<bookVars, marketLock>>
    BY <1>1 DEF Finalize
  <2> QED BY <2>9, <2>10, ParkTypes DEF TypeOK, bookVars
<1>2. CASE FinalizeReplays(w)
  BY <1>2, ParkTypes DEF TypeOK, AttemptsLeft, InsertedAsPair, FinalizeReplays, bookVars
<1> QED BY <1>1, <1>2

(* The ways a claim ends without an answer.                                *)
LEMMA GivesUpTyped ==
    ASSUME Typed, NEW w \in Workers,
           StepFails(w) \/ Fail(w) \/ Crash(w) \/ LockLost(w)
    PROVE  RowsTyped'
<1> USE DEF Typed, RowsTyped
<1>1. CASE StepFails(w)
  BY <1>1, RestLocals
  DEF TypeOK, AttemptsLeft, InsertedAsPair, StepFails, ReleaseLock, ForgetRead, PCs, bookVars
<1>2. CASE Fail(w)
  <2> DEFINE o == job[w]
             row == [commands[o] EXCEPT
                       !.state = IF attempt[w] >= MaxAttempts
                                 THEN "failed_terminal" ELSE "retryable",
                       !.lockedBy = NoWorker]
  <2>1. o \in OrderIds
    BY <1>2 DEF Fail, TypeOK
  <2>2. row \in CommandRows
    BY <2>1, CommandTypes DEF CommandRows, CommandStates
  <2>3. HoldsLease(w, o) => row.state = "failed_terminal" \/ row.attempts < MaxAttempts
    <3>1. pc[w] = "failing"
      BY <1>2 DEF Fail
    <3>2. HoldsLease(w, o) => attempt[w] = commands[o].attempts
      BY <3>1 DEF ClaimsCounted
    <3> QED BY <2>1, <3>2, CommandTypes, OrdersAssumption DEF CommandRows
  <2>4. row.state \in {"failed_terminal", "retryable"}
    BY <2>1, CommandTypes DEF CommandRows
  <2>5. /\ \/ /\ commands' = [commands EXCEPT ![o] = row]
              /\ HoldsLease(w, o) /\ commands[o].state = "processing"
           \/ commands' = commands
        /\ UNCHANGED bookVars
    BY <1>2 DEF Fail, HoldsLease
  <2>6. commands' \in [OrderIds -> CommandRows] /\ AttemptsLeft' /\ InsertedAsPair'
    <3> HIDE DEF row
    <3> QED BY <2>1, <2>2, <2>3, <2>4, <2>5 DEF bookVars, TypeOK, AttemptsLeft, InsertedAsPair
  <2>7. Park(w) /\ UNCHANGED <<bookVars, marketLock>>
    BY <1>2 DEF Fail
  <2> QED BY <2>6, <2>7, ParkTypes DEF TypeOK, bookVars
<1>3. CASE Crash(w)
  BY <1>3, ParkTypes DEF TypeOK, AttemptsLeft, InsertedAsPair, Crash, ReleaseLock, bookVars
<1>4. CASE LockLost(w)
  BY <1>4 DEF TypeOK, AttemptsLeft, InsertedAsPair, LockLost, bookVars, workerVars
<1> QED BY <1>1, <1>2, <1>3, <1>4

(* What a rows-writing transaction leaves in wallets, fees and holds.      *)
LEMMA ReturnTyped ==
    ASSUME Typed, NEW w \in Workers, NEW accepted \in BOOLEAN,
           NEW reason \in Reasons, NEW answered \in BOOLEAN,
           Return(w, accepted, reason, answered), pc[w] = "planned"
    PROVE  /\ marketLock' \in Workers \cup OrderIds \cup {NoWorker}
           /\ pc' \in [Workers -> PCs]
           /\ job' = job /\ commands' = commands /\ cancelling' = cancelling
           /\ \A v \in Workers : pc'[v] # "idle" => job'[v] \in OrderIds
           /\ attempt' \in [Workers -> 0..MaxAttempts]
           /\ seen' \in [Workers -> Nat]
           /\ plan' \in [Workers -> Plans]
           /\ proposal' \in [Workers -> Proposals]
<1> USE DEF Typed, RowsTyped
<1>1. [known |-> TRUE, accepted |-> accepted, reason |-> reason] \in Proposals
  BY DEF Proposals
<1>2. marketLock' \in Workers \cup OrderIds \cup {NoWorker}
  BY DEF Return, ReleaseLock, TypeOK
<1>3. \/ pc' = [pc EXCEPT ![w] = "executed"]
      \/ pc' = [pc EXCEPT ![w] = "failing"]
  BY DEF Return
<1>4. proposal' \in [Workers -> Proposals]
  BY <1>1 DEF Return, TypeOK
<1>5. job' = job /\ commands' = commands /\ cancelling' = cancelling
  BY DEF Return
<1>6. seen' \in [Workers -> Nat] /\ plan' \in [Workers -> Plans]
  BY RestLocals DEF Return, ForgetRead, TypeOK
<1>7. /\ pc' \in [Workers -> PCs]
      /\ \A v \in Workers : pc'[v] # "idle" => job'[v] \in OrderIds
  BY <1>3, <1>5 DEF TypeOK, PCs
<1>8. attempt' \in [Workers -> 0..MaxAttempts]
  BY DEF Return, TypeOK
<1> QED BY <1>2, <1>4, <1>5, <1>6, <1>7, <1>8

LEMMA CommitTerminalTyped ==
    ASSUME Typed, NEW w \in Workers, CommitTerminal(w)
    PROVE  RowsTyped'
<1> USE DEF Typed, RowsTyped
<1> DEFINE t == job[w]
           fresh == orders[t].status \in Open
           row == EvidenceRow("EXPIRED", HasTraded(t), plan[w].reject)
           s == ReleaseResidual(Rows, orders[t].req, t)
           after == [orders[t] EXCEPT
                       !.status = IF fresh THEN "EXPIRED" ELSE orders[t].status,
                       !.hold = s.hold[t]]
<1>1. t \in OrderIds /\ pc[w] = "planned" /\ plan[w].reject \in Reasons
  BY DEF CommitTerminal, TypeOK, Plans
<1>2. s.wallet \in Wallets /\ s.hold[t] \in Nat
  BY <1>1 DEF CommitTerminal, RowsPass
<1>3. orders' = [orders EXCEPT ![t] = after] /\ wallet' = s.wallet
  BY DEF CommitTerminal
<1>4. /\ after \in OrderRows
      /\ (after.status = "none") <=> (orders[t].status = "none")
  <2> HIDE DEF s
  <2> QED BY <1>1, <1>2, OrderTypes DEF OrderRows, Open, Terminal
<1>5. row \in Evidence
  BY <1>1 DEF EvidenceRow, VerdictOf, Evidence, Reasons, Terminal, HasTraded
<1>6. \/ evidence' = [evidence EXCEPT ![t] = Append(@, row)]
      \/ evidence' = evidence
  BY DEF CommitTerminal
<1>7. evidence' \in [OrderIds -> Seq(Evidence)]
  <2> HIDE DEF row
  <2>1. Append(evidence[t], row) \in Seq(Evidence)
    BY <1>1, <1>5, OrderTypes
  <2> QED BY <1>6, <2>1 DEF TypeOK
<1>8. PICK answered \in BOOLEAN : Return(w, FALSE, plan[w].reject, answered)
  BY DEF CommitTerminal
<1>9. /\ marketLock' \in Workers \cup OrderIds \cup {NoWorker}
      /\ pc' \in [Workers -> PCs]
      /\ job' = job /\ commands' = commands /\ cancelling' = cancelling
      /\ \A v \in Workers : pc'[v] # "idle" => job'[v] \in OrderIds
      /\ attempt' \in [Workers -> 0..MaxAttempts]
      /\ seen' \in [Workers -> Nat]
      /\ plan' \in [Workers -> Plans]
      /\ proposal' \in [Workers -> Proposals]
  BY <1>1, <1>8, ReturnTyped
<1>10. UNCHANGED <<traded, fees>>
  BY DEF CommitTerminal
<1>11. orders' \in [OrderIds -> OrderRows] /\ InsertedAsPair'
  <2> HIDE DEF after
  <2> QED BY <1>1, <1>3, <1>4, <1>9 DEF TypeOK, InsertedAsPair
<1> QED BY <1>2, <1>3, <1>7, <1>9, <1>10, <1>11 DEF TypeOK, AttemptsLeft

LEMMA CancelTyped ==
    ASSUME Typed, NEW o \in OrderIds, Cancel(o)
    PROVE  RowsTyped'
<1> USE DEF Typed, RowsTyped
<1> DEFINE s == ReleaseResidual(Rows, orders[o].req, o)
           after == [orders[o] EXCEPT !.status = "CANCELLED", !.hold = s.hold[o]]
<1>1. s.wallet \in Wallets /\ s.hold[o] \in Nat /\ orders[o].status \in Open
  BY DEF Cancel, RowsPass, Cancellable
<1>2. /\ orders' = [orders EXCEPT ![o] = after] /\ wallet' = s.wallet
      /\ UNCHANGED <<evidence, traded, fees, commands, workerVars>>
      /\ marketLock' \in Workers \cup OrderIds \cup {NoWorker}
      /\ cancelling' \subseteq OrderIds
  BY DEF Cancel, CancelOver, ReleaseLock, TypeOK
<1>3. /\ after \in OrderRows
      /\ after.status # "none" /\ orders[o].status # "none"
  <2> HIDE DEF s
  <2> QED BY <1>1, OrderTypes DEF OrderRows, Open, Terminal
<1>4. orders' \in [OrderIds -> OrderRows] /\ InsertedAsPair'
  <2> HIDE DEF after
  <2> QED BY <1>2, <1>3 DEF TypeOK, InsertedAsPair
<1> QED BY <1>1, <1>2, <1>4 DEF TypeOK, AttemptsLeft, workerVars

(* The steps of cancellations and of their locks that write no row.        *)
CancelLockStep(o) == CancelBegin(o) \/ CancelRefused(o) \/ LockLost(o)

LEMMA CancelLockEffect ==
    ASSUME NEW o \in OrderIds, CancelLockStep(o)
    PROVE  UNCHANGED <<orders, evidence, traded, wallet, fees, commands, workerVars>>
BY DEF CancelLockStep, CancelBegin, CancelRefused, CancelOver, LockLost, bookVars

LEMMA CancelLockTyped ==
    ASSUME Typed, NEW o \in OrderIds, CancelLockStep(o)
    PROVE  RowsTyped'
<1> USE DEF Typed, RowsTyped
<1>1. /\ marketLock' \in Workers \cup OrderIds \cup {NoWorker}
      /\ cancelling' \subseteq OrderIds
  BY DEF CancelLockStep, CancelBegin, CancelRefused, CancelOver, LockLost,
         ReleaseLock, bookVars, TypeOK
<1> QED BY <1>1, CancelLockEffect
        DEF TypeOK, AttemptsLeft, InsertedAsPair, workerVars

(* A fill of a plan that passed validateLockedOrders.                      *)
LEMMA FillOfPlanned ==
    ASSUME NEW fills, NEW m, FillOf(fills, m) # 0
    PROVE  \E f \in fills : f.maker = m /\ FillOf(fills, m) = f.qty
BY DEF FillOf

(* What the engine's transaction does to order rows, trades and evidence.  *)
StatusAfter(w) ==
    TakerStatus(orders[job[w]].req, seen[w], TotalFilled(plan[w].fills))

EvidenceAfter(w) ==
    EvidenceRow(StatusAfter(w), HasTraded(job[w]) \/ plan[w].fills # {},
                "no_liquidity")

MatchEffect(t, fills, status, row) ==
    /\ t \in OrderIds /\ orders[t].status = "NEW"
    /\ status \in Open \cup Terminal /\ row \in Evidence
    /\ orders' \in [OrderIds -> OrderRows]
    /\ orders'[t].req = orders[t].req /\ orders'[t].status = status
    /\ orders'[t].filled = orders[t].filled + TotalFilled(fills)
    /\ \A o \in OrderIds \ {t} :
          \/ orders'[o] = orders[o]
          \/ /\ \E f \in fills : f.maker = o
             /\ orders[o].status \in Open
             /\ orders'[o].req = orders[o].req
             /\ orders'[o].status \in {"FILLED", "PARTIALLY_FILLED"}
    /\ \A o \in OrderIds : orders'[o].filled + orders'[o].remaining
                              = orders[o].filled + orders[o].remaining
    /\ evidence' = [evidence EXCEPT ![t] = Append(evidence[t], row)]
    /\ traded' \in [OrderIds -> [OrderIds -> Nat]]
    /\ \A a, m \in OrderIds :
          traded'[a][m] # traded[a][m] =>
             a = t /\ \E f \in fills : f.maker = m

LEMMA CommitMatchEffect ==
    ASSUME Typed, NEW w \in Workers, CommitMatch(w)
    PROVE  MatchEffect(job[w], plan[w].fills, StatusAfter(w), EvidenceAfter(w))
<1> USE DEF Typed, RowsTyped
<1> DEFINE t == job[w]
           fills == plan[w].fills
           total == TotalFilled(fills)
           status == TakerStatus(orders[t].req, seen[w], total)
           row == EvidenceRow(status, HasTraded(t) \/ fills # {}, "no_liquidity")
           s == MatchedRows(t, seen[w], fills)
<1>1. t \in OrderIds
  BY DEF CommitMatch, TypeOK
<1>2. /\ orders[t].status = "NEW"
      /\ total \in 0..orders[t].remaining
      /\ \A f \in fills : /\ orders[f.maker].status \in Open
                          /\ f.qty \in 1..orders[f.maker].remaining
  BY DEF CommitMatch, Validated
<1>3. status \in Open \cup Terminal
  <2> HIDE DEF total
  <2> QED BY Zenon DEF TakerStatus, Open, Terminal
<1>4. row \in Evidence
  BY <1>3 DEF EvidenceRow, VerdictOf, Evidence, Reasons, HasTraded
<1>5. s.hold \in [OrderIds -> Nat]
  BY DEF CommitMatch, RowsPass
<1>6. orders' = MatchedOrders(t, seen[w], fills, s.hold)
  BY DEF CommitMatch
<1>7. /\ orders'[t] \in OrderRows
      /\ orders'[t].req = orders[t].req /\ orders'[t].status = status
      /\ orders'[t].filled = orders[t].filled + total
      /\ orders'[t].filled + orders'[t].remaining
            = orders[t].filled + orders[t].remaining
  <2>1. orders'[t] = ApplyFill(orders[t], total, status, s.hold[t])
    BY <1>1, <1>6 DEF MatchedOrders
  <2>2. /\ orders[t].remaining - total \in Nat
        /\ orders[t].filled + total \in Nat
        /\ (orders[t].filled + total) + (orders[t].remaining - total)
              = orders[t].filled + orders[t].remaining
    <3> HIDE DEF total
    <3> QED BY <1>1, <1>2, OrderTypes, SMT
  <2>3. s.hold[t] \in Nat
    BY <1>1, <1>5
  <2> HIDE DEF s, total, status, t
  <2> QED BY <1>1, <1>3, <2>1, <2>2, <2>3, OrderTypes DEF ApplyFill, OrderRows
<1>8. ASSUME NEW o \in OrderIds \ {t}
      PROVE  /\ orders'[o] \in OrderRows
             /\ orders'[o].filled + orders'[o].remaining
                   = orders[o].filled + orders[o].remaining
             /\ \/ orders'[o] = orders[o]
                \/ /\ \E f \in fills : f.maker = o
                   /\ orders[o].status \in Open
                   /\ orders'[o].req = orders[o].req
                   /\ orders'[o].status \in {"FILLED", "PARTIALLY_FILLED"}
  <2> DEFINE qty == FillOf(fills, o)
  <2>1. CASE qty > 0
    <3>1. qty # 0
      BY <2>1, SMT
    <3>2. PICK f \in fills : f.maker = o /\ qty = f.qty
      BY <3>1, FillOfPlanned
    <3>3. orders[o].status \in Open /\ qty \in 1..orders[o].remaining
      BY <1>2, <3>2
    <3>4. orders'[o] = ApplyFill(orders[o], qty, MakerStatus(o, qty), s.hold[o])
      BY <1>6, <2>1 DEF MatchedOrders
    <3>5. s.hold[o] \in Nat
      BY <1>5
    <3>6. MakerStatus(o, qty) \in {"FILLED", "PARTIALLY_FILLED"}
      BY DEF MakerStatus
    <3>7. /\ orders[o].remaining - qty \in Nat
          /\ orders[o].filled + qty \in Nat
          /\ (orders[o].filled + qty) + (orders[o].remaining - qty)
                = orders[o].filled + orders[o].remaining
      <4> HIDE DEF qty
      <4> QED BY <3>3, OrderTypes, SMT
    <3> HIDE DEF s, qty
    <3> QED BY <3>2, <3>3, <3>4, <3>5, <3>6, <3>7, OrderTypes
            DEF ApplyFill, OrderRows, Open, Terminal
  <2>2. CASE ~(qty > 0)
    <3>1. orders'[o] = orders[o]
      BY <1>6, <2>2 DEF MatchedOrders
    <3> QED BY <3>1, OrderTypes
  <2> QED BY <2>1, <2>2
<1>9. orders' \in [OrderIds -> OrderRows]
  <2>1. \A o \in OrderIds : orders'[o] \in OrderRows
    BY <1>7, <1>8
  <2> QED BY <1>6, <2>1 DEF MatchedOrders
<1>10. evidence' = [evidence EXCEPT ![t] = Append(evidence[t], row)]
  BY DEF CommitMatch
<1>11. traded' = [traded EXCEPT ![t] =
                    [m \in OrderIds |-> traded[t][m] + FillOf(fills, m)]]
  BY DEF CommitMatch
<1>12. ASSUME NEW m \in OrderIds
       PROVE  /\ FillOf(fills, m) \in Nat
              /\ FillOf(fills, m) # 0 => \E f \in fills : f.maker = m
  <2>1. CASE FillOf(fills, m) # 0
    <3>1. PICK f \in fills : f.maker = m /\ FillOf(fills, m) = f.qty
      BY <2>1, FillOfPlanned
    <3> QED BY <1>2, <3>1, OrderTypes, SMT
  <2> QED BY <2>1
<1>13. traded' \in [OrderIds -> [OrderIds -> Nat]]
  <2>1. [m \in OrderIds |-> traded[t][m] + FillOf(fills, m)] \in [OrderIds -> Nat]
    BY <1>1, <1>12, OrderTypes
  <2> QED BY <1>11, <2>1 DEF TypeOK
<1>14. ASSUME NEW a \in OrderIds, NEW m \in OrderIds,
              traded'[a][m] # traded[a][m]
       PROVE  a = t /\ \E f \in fills : f.maker = m
  <2>1. a = t
    BY <1>11, <1>14 DEF TypeOK
  <2>2. traded'[t][m] = traded[t][m] + FillOf(fills, m)
    BY <1>1, <1>11 DEF TypeOK
  <2>3. FillOf(fills, m) # 0
    BY <1>1, <1>14, <2>1, <2>2, OrderTypes, SMT
  <2> QED BY <1>12, <2>1, <2>3
<1>15. \A o \in OrderIds : orders'[o].filled + orders'[o].remaining
                                = orders[o].filled + orders[o].remaining
  BY <1>7, <1>8
<1>16. /\ StatusAfter(w) = status /\ EvidenceAfter(w) = row
       /\ job[w] = t /\ plan[w].fills = fills
  BY DEF StatusAfter, EvidenceAfter
<1>17. orders'[t].filled = orders[t].filled + TotalFilled(fills)
  BY <1>7
<1> HIDE DEF t, fills, total, status, row, s
<1> QED BY <1>1, <1>2, <1>3, <1>4, <1>7, <1>8, <1>9, <1>10, <1>13, <1>14,
           <1>15, <1>16, <1>17 DEF MatchEffect

LEMMA CommitMatchTyped ==
    ASSUME Typed, NEW w \in Workers, CommitMatch(w)
    PROVE  RowsTyped'
<1> USE DEF Typed, RowsTyped
<1> DEFINE t == job[w]
           fills == plan[w].fills
           status == StatusAfter(w)
           row == EvidenceAfter(w)
<1>1. MatchEffect(t, fills, status, row)
  BY CommitMatchEffect
<1>2. PICK answered \in BOOLEAN :
        Return(w, status # "EXPIRED",
               IF status = "EXPIRED" THEN "no_liquidity" ELSE "none", answered)
  BY DEF CommitMatch, StatusAfter
<1> HIDE DEF t, fills, status, row
<1>3. /\ t \in OrderIds /\ row \in Evidence
      /\ orders' \in [OrderIds -> OrderRows]
      /\ evidence' = [evidence EXCEPT ![t] = Append(evidence[t], row)]
      /\ traded' \in [OrderIds -> [OrderIds -> Nat]]
  BY <1>1 DEF MatchEffect
<1>4. evidence' \in [OrderIds -> Seq(Evidence)]
  <2>1. Append(evidence[t], row) \in Seq(Evidence)
    BY <1>3, OrderTypes
  <2> QED BY <1>3, <2>1 DEF TypeOK
<1>5. wallet' \in Wallets /\ fees' \in Nat
  BY DEF CommitMatch, RowsPass
<1>6. /\ marketLock' \in Workers \cup OrderIds \cup {NoWorker}
      /\ pc' \in [Workers -> PCs]
      /\ job' = job /\ commands' = commands /\ cancelling' = cancelling
      /\ \A v \in Workers : pc'[v] # "idle" => job'[v] \in OrderIds
      /\ attempt' \in [Workers -> 0..MaxAttempts]
      /\ seen' \in [Workers -> Nat]
      /\ plan' \in [Workers -> Plans]
      /\ proposal' \in [Workers -> Proposals]
  <2>1. (IF status = "EXPIRED" THEN "no_liquidity" ELSE "none") \in Reasons
    BY DEF Reasons
  <2>2. pc[w] = "planned"
    BY DEF CommitMatch
  <2> QED BY <1>2, <2>1, <2>2, ReturnTyped
<1>7. InsertedAsPair'
  <2>1. \A o \in OrderIds : /\ orders[o].status # "none" \/ orders'[o] = orders[o]
                            /\ orders'[o].status # "none" \/ orders'[o] = orders[o]
    BY <1>1 DEF MatchEffect, Open, Terminal
  <2> QED BY <1>6, <2>1 DEF InsertedAsPair
<1> QED BY <1>3, <1>4, <1>5, <1>6, <1>7 DEF TypeOK, AttemptsLeft

(* A worker that has the lease of its command after a step has claimed it  *)
(* in that step, or had it before with the same count on both sides.       *)
CountsKept ==
    \A v \in Workers :
        pc'[v] # "idle" /\ HoldsLease(v, job[v])' =>
            \/ attempt'[v] = commands'[job'[v]].attempts
            \/ /\ pc[v] # "idle" /\ job'[v] = job[v] /\ attempt'[v] = attempt[v]
               /\ HoldsLease(v, job[v])
               /\ commands'[job[v]].attempts = commands[job[v]].attempts

LEMMA KeptCounts ==
    ASSUME Typed, CountsKept
    PROVE  ClaimsCounted'
BY DEF Typed, CountsKept, ClaimsCounted

(* What a step does to the claims of others.                               *)
OwnStep(w) ==
    \A v \in Workers \ {w} :
        pc'[v] = pc[v] /\ job'[v] = job[v] /\ attempt'[v] = attempt[v]

LEMMA StepIsOwn ==
    ASSUME Typed, NEW w \in Workers, WorkerStep(w) \/ Crash(w) \/ LockLost(w)
    PROVE  OwnStep(w)
<1> USE DEF Typed, TypeOK
<1> QED BY DEF OwnStep, WorkerStep, Claim, ExpireForGood, Reconstruct, ReadOrder,
         Plan, CommitTerminal, CommitMatch, Finalize, FinalizeReplays, StepFails,
         Fail, Crash, LockLost, Step, Park, ForgetRead, Return, workerVars

(* The steps that change a command: every other row stays, and theirs is   *)
(* nobody's but the claimer's.                                             *)
LEMMA WorkerCounts ==
    ASSUME Typed, NEW w \in Workers, WorkerStep(w) \/ Crash(w) \/ LockLost(w)
    PROVE  CountsKept
<1> USE DEF Typed
<1>1. OwnStep(w)
  BY StepIsOwn
<1>2. ASSUME NEW o \in OrderIds, Claim(w, o) PROVE CountsKept
  <2>1. /\ commands' = [commands EXCEPT ![o] = ClaimedRow(commands[o], w)]
        /\ job' = [job EXCEPT ![w] = o]
        /\ attempt' = [attempt EXCEPT ![w] = commands'[o].attempts]
    BY <1>2 DEF Claim
  <2>2. commands'[o].lockedBy = w
    BY <2>1, CommandTypes DEF TypeOK, ClaimedRow, CommandRows
  <2>3. job'[w] = o /\ attempt'[w] = commands'[o].attempts
    BY <2>1 DEF TypeOK
  <2>4. ASSUME NEW v \in Workers \ {w}, pc'[v] # "idle", HoldsLease(v, job[v])'
        PROVE  commands'[job[v]] = commands[job[v]]
    <3>1. job'[v] = job[v] /\ pc[v] = pc'[v]
      BY <1>1 DEF OwnStep
    <3>2. job[v] # o
      BY <2>2, <2>4, <3>1 DEF HoldsLease
    <3> QED BY <2>1, <2>4, <3>1, <3>2 DEF TypeOK
  <2> QED BY <1>1, <2>3, <2>4 DEF CountsKept, OwnStep, HoldsLease
<1>3. ASSUME NEW o \in OrderIds, ExpireForGood(w, o) PROVE CountsKept
  <2>1. /\ commands' = [commands EXCEPT ![o] =
                          [@ EXCEPT !.state = "failed_terminal",
                                    !.lockedBy = NoWorker]]
        /\ UNCHANGED workerVars
    BY <1>3 DEF ExpireForGood
  <2>2. commands'[o].state = "failed_terminal"
    BY <2>1, CommandTypes DEF TypeOK, CommandRows
  <2> QED BY <2>1, <2>2 DEF CountsKept, HoldsLease, TypeOK, workerVars
<1>4. ASSUME Finalize(w) \/ Fail(w) PROVE CountsKept
  <2>1. job[w] \in OrderIds
    BY <1>4 DEF Finalize, Fail, TypeOK
  <2>2. /\ pc'[w] = "idle"
        /\ \A o \in OrderIds \ {job[w]} : commands'[o] = commands[o]
    BY <1>4 DEF Finalize, Fail, Park, TypeOK
  <2>3. commands'[job[w]] = commands[job[w]] \/ commands'[job[w]].state # "processing"
    <3>1. CASE Finalize(w)
      <4>1. PICK result :
               commands' = [commands EXCEPT ![job[w]] =
                              [@ EXCEPT !.state = "final", !.lockedBy = NoWorker,
                                        !.result = result]]
        BY <3>1 DEF Finalize
      <4> QED BY <2>1, <4>1, CommandTypes DEF TypeOK, CommandRows
    <3>2. CASE Fail(w)
      <4>1. PICK state \in {"failed_terminal", "retryable"} :
               \/ commands' = commands
               \/ commands' = [commands EXCEPT ![job[w]] =
                              [@ EXCEPT !.state = state, !.lockedBy = NoWorker]]
        BY <3>2 DEF Fail
      <4>2. [commands[job[w]] EXCEPT !.state = state, !.lockedBy = NoWorker].state
               # "processing"
        BY <2>1, CommandTypes DEF CommandRows
      <4>3. CASE commands' = commands
        BY <4>3
      <4> QED BY <2>1, <4>1, <4>2, <4>3 DEF TypeOK
    <3> QED BY <1>4, <3>1, <3>2
  <2>4. ASSUME NEW v \in Workers, pc'[v] # "idle", HoldsLease(v, job[v])'
        PROVE  /\ pc[v] # "idle" /\ job'[v] = job[v] /\ attempt'[v] = attempt[v]
               /\ commands'[job[v]] = commands[job[v]]
    <3>1. /\ v # w
          /\ job'[v] = job[v] /\ pc[v] = pc'[v] /\ attempt'[v] = attempt[v]
      BY <1>1, <2>2, <2>4 DEF OwnStep
    <3>2. job[v] \in OrderIds
      BY <2>4, <3>1 DEF TypeOK
    <3> QED BY <2>2, <2>3, <2>4, <3>1, <3>2 DEF HoldsLease
  <2> QED BY <2>4 DEF CountsKept, HoldsLease
<1>5. ASSUME ~\E o \in OrderIds : Claim(w, o) \/ ExpireForGood(w, o),
             ~Finalize(w), ~Fail(w)
      PROVE  CountsKept
  <2>1. /\ UNCHANGED commands
        /\ pc'[w] # "idle" => /\ pc[w] # "idle"
                              /\ job'[w] = job[w] /\ attempt'[w] = attempt[w]
    BY <1>5 DEF WorkerStep, Reconstruct, ReadOrder, Plan, CommitTerminal,
       CommitMatch, FinalizeReplays, StepFails, Crash, LockLost, Step, Park,
       Return, workerVars, TypeOK
  <2>2. \A v \in Workers :
           pc'[v] # "idle" => /\ pc[v] # "idle"
                              /\ job'[v] = job[v] /\ attempt'[v] = attempt[v]
    BY <1>1, <2>1 DEF OwnStep
  <2> QED BY <2>1, <2>2 DEF CountsKept, HoldsLease
<1> QED BY <1>2, <1>3, <1>4, <1>5

LEMMA ClientCounts ==
    ASSUME Typed, NEW o \in OrderIds,
           \/ \E r \in Requests : Admit(o, r)
           \/ Cancel(o) \/ CancelLockStep(o)
    PROVE  CountsKept
<1> USE DEF Typed
<1>1. ASSUME NEW r \in Requests, Admit(o, r) PROVE CountsKept
  <2>1. commands[o].state = "none"
    BY <1>1 DEF Admit, Admitted, InsertedAsPair
  <2>2. commands' = [commands EXCEPT ![o].state = "admitted"] /\ UNCHANGED workerVars
    BY <1>1 DEF Admit
  <2>3. commands'[o].state = "admitted"
    BY <2>2, CommandTypes DEF TypeOK, CommandRows
  <2> QED BY <2>2, <2>3 DEF CountsKept, HoldsLease, TypeOK, workerVars
<1>2. ASSUME Cancel(o) \/ CancelLockStep(o) PROVE UNCHANGED <<commands, workerVars>>
  BY <1>2, CancelLockEffect DEF Cancel, CancelOver
<1>3. ASSUME UNCHANGED <<commands, workerVars>> PROVE CountsKept
  BY <1>3 DEF CountsKept, HoldsLease, workerVars
<1> QED BY <1>1, <1>2, <1>3

LEMMA NextCounts == Typed /\ [Next]_vars => ClaimsCounted'
<1> SUFFICES ASSUME Typed, [Next]_vars PROVE CountsKept
  BY KeptCounts
<1>1. CASE UNCHANGED vars
  BY <1>1 DEF CountsKept, HoldsLease, vars
<1> QED BY <1>1, WorkerCounts, ClientCounts DEF Next, CancelLockStep

(* Every step keeps the types.                                             *)
LEMMA NextTyped == Typed /\ [Next]_vars => Typed'
<1> SUFFICES ASSUME Typed, [Next]_vars PROVE RowsTyped'
  BY NextCounts DEF Typed, RowsTyped
<1>1. ASSUME NEW o \in OrderIds, NEW r \in Requests, Admit(o, r) PROVE RowsTyped'
  BY <1>1, AdmitTyped
<1>2. ASSUME NEW w \in Workers, WorkerStep(w) PROVE RowsTyped'
  BY <1>2, ClaimTyped, ExpireTyped, ReadsTyped, PlanTyped, CommitTerminalTyped,
     CommitMatchTyped, FinalizeTyped, GivesUpTyped DEF WorkerStep
<1>3. ASSUME NEW w \in Workers, Crash(w) \/ LockLost(w) PROVE RowsTyped'
  BY <1>3, GivesUpTyped
<1>4. ASSUME NEW o \in OrderIds, Cancel(o) \/ CancelLockStep(o) PROVE RowsTyped'
  BY <1>4, CancelTyped, CancelLockTyped
<1>5. CASE UNCHANGED vars
  BY <1>5 DEF vars, Typed, RowsTyped, TypeOK, AttemptsLeft, InsertedAsPair
<1> QED BY <1>1, <1>2, <1>3, <1>4, <1>5 DEF Next, CancelLockStep

(* Every column keeps its type and its CHECK constraint, a command is      *)
(* never claimed more than max_attempts times, and what a worker holds in  *)
(* its locals is what its program counter says.                            *)
THEOREM TypeCorrect == Spec => []TypeOK
<1>1. Typed => TypeOK
  BY DEF Typed
<1> QED BY InitTyped, NextTyped, <1>1, PTL DEF Spec

-------------------------------------------------------------------------------
(* The inductive invariant of the safety properties.  What makes them true *)
(* is spread over five rows and the locals of the workers:                 *)

(* a published command has been executed, an unused one has not;           *)
PublishedWasExecuted ==
    \A o \in OrderIds :
        /\ commands[o].state = "final" => evidence[o] # << >>
        /\ commands[o].state = "none" => evidence[o] = << >>

(* an executed order is either one that may rest, and its only verdict is  *)
(* acceptance, or is over: so the second execution of a stale worker finds *)
(* a terminal row or trips the unique key of the evidence;                 *)
ExecutedIsDecided ==
    \A o \in OrderIds :
        evidence[o] # << >> =>
            IF IsGTC(orders[o].req) THEN evidence[o][1].accepted
                                    ELSE orders[o].status \in Terminal

(* a rejected order is EXPIRED and has no trade;                           *)
RejectedIsBare ==
    \A o \in OrderIds :
        \A i \in DOMAIN evidence[o] :
            ~evidence[o][i].accepted =>
                /\ evidence[o][i].status = "EXPIRED"
                /\ orders[o].status = "EXPIRED"
                /\ ~HasTraded(o)

(* an order's filled and remaining quantity make its quantity;             *)
RowsAddUp ==
    \A o \in Admitted : orders[o].filled + orders[o].remaining = orders[o].req.qty

(* a worker works for an admitted order;                                   *)
JobsAdmitted ==
    \A w \in Workers : pc[w] # "idle" => commands[job[w]].state # "none"

(* and what a worker has planned stays executable as planned or not at     *)
(* all: the makers it names stay published limit orders of another user on *)
(* the crossing side, only an order that may not rest is turned away, and  *)
(* a fill-or-kill one goes ahead only whole.                               *)
PlanStands(r, want, p) ==
    /\ p.reject # "none" => ~IsGTC(r)
    /\ (p.reject = "none" /\ r.tif = "FOK") => ~(TotalFilled(p.fills) < want)
    /\ \A f \in p.fills :
          LET maker == orders[f.maker].req
          IN  /\ Published(f.maker)
              /\ maker.type = "limit"
              /\ maker.user # r.user
              /\ maker.side = Opposite(r.side)
              /\ Crosses(r, maker.price)

PlansStand ==
    \A w \in Workers :
        pc[w] = "planned" => PlanStands(orders[job[w]].req, seen[w], plan[w])

RowsInv ==
    /\ PublishedWasExecuted
    /\ ExecutedIsDecided
    /\ RejectedIsBare
    /\ RowsAddUp
    /\ TerminalHoldClosed
    /\ ExecutedOnce
    /\ UnpublishedUntouched
    /\ FinalOutcomeTruthful
    /\ MakersPublished
    /\ TradesRespectLimits
    /\ ImmediateOrdersNeverRest

IInv == JobsAdmitted /\ PlansStand /\ RowsInv

(* The steps that write no order, evidence or trade: a command that has    *)
(* ended stays as it is, and one that becomes final has its evidence.      *)
QuietEffect ==
    /\ UNCHANGED <<orders, evidence, traded>>
    /\ \A o \in OrderIds :
          /\ commands[o].state \in {"final", "failed_terminal"} =>
                commands'[o] = commands[o]
          /\ commands'[o].state = "none" <=> commands[o].state = "none"
          /\ (commands'[o].state = "final" /\ commands[o].state # "final") =>
                \E i \in DOMAIN evidence[o] :
                   /\ evidence[o][i].accepted = commands'[o].result.accepted
                   /\ evidence[o][i].status = commands'[o].result.status
                   /\ evidence[o][i].status = orders[o].status

LEMMA UnchangedCommandsQuiet ==
    ASSUME UNCHANGED <<orders, evidence, traded, commands>>
    PROVE  QuietEffect
BY DEF QuietEffect

(* One command row is rewritten.                                           *)
LEMMA OneCommandQuiet ==
    ASSUME Typed, NEW o \in OrderIds, NEW row,
           UNCHANGED <<orders, evidence, traded>>,
           commands' = [commands EXCEPT ![o] = row],
           commands[o].state \notin {"none", "final", "failed_terminal"},
           row.state # "none",
           row.state = "final" =>
                \E i \in DOMAIN evidence[o] :
                   /\ evidence[o][i].accepted = row.result.accepted
                   /\ evidence[o][i].status = row.result.status
                   /\ evidence[o][i].status = orders[o].status
    PROVE  QuietEffect
BY DEF QuietEffect, Typed, TypeOK

LEMMA QuietSteps ==
    ASSUME Typed, NEW w \in Workers, WorkerStep(w) \/ Crash(w) \/ LockLost(w),
           ~CommitTerminal(w), ~CommitMatch(w)
    PROVE  QuietEffect
<1>1. ASSUME NEW o \in OrderIds, Claim(w, o) PROVE QuietEffect
  <2> DEFINE row == ClaimedRow(commands[o], w)
  <2>1. row.state = "processing"
    BY CommandTypes DEF ClaimedRow, CommandRows, Typed
  <2>2. commands' = [commands EXCEPT ![o] = row]
    BY <1>1 DEF Claim
  <2>3. commands[o].state \notin {"none", "final", "failed_terminal"}
    BY <1>1 DEF Claim, Claimable
  <2>4. UNCHANGED <<orders, evidence, traded>>
    BY <1>1 DEF Claim, bookVars
  <2> HIDE DEF row
  <2> QED BY <2>1, <2>2, <2>3, <2>4, OneCommandQuiet
<1>2. ASSUME NEW o \in OrderIds, ExpireForGood(w, o) PROVE QuietEffect
  <2> DEFINE row == [commands[o] EXCEPT !.state = "failed_terminal",
                                        !.lockedBy = NoWorker]
  <2>1. row.state = "failed_terminal"
    BY CommandTypes DEF CommandRows, Typed
  <2>2. commands' = [commands EXCEPT ![o] = row]
    BY <1>2 DEF ExpireForGood
  <2>3. commands[o].state \notin {"none", "final", "failed_terminal"}
    BY <1>2 DEF ExpireForGood
  <2>4. UNCHANGED <<orders, evidence, traded>>
    BY <1>2 DEF ExpireForGood, bookVars
  <2> HIDE DEF row
  <2> QED BY <2>1, <2>2, <2>3, <2>4, OneCommandQuiet
<1>3. CASE Finalize(w)
  <2> DEFINE o == job[w]
             outcome == IF proposal[w].known
                        THEN [accepted |-> proposal[w].accepted,
                              reason |-> proposal[w].reason]
                        ELSE Reconstructed(o)
             result == [accepted |-> outcome.accepted,
                        status |-> orders[o].status,
                        reason |-> outcome.reason]
             row == [commands[o] EXCEPT !.state = "final", !.lockedBy = NoWorker,
                                        !.result = result]
  <2>1. o \in OrderIds
    BY <1>3 DEF Finalize, TypeOK, Typed
  <2>2. commands' = [commands EXCEPT ![o] = row]
    BY <1>3 DEF Finalize
  <2>3. commands[o].state = "processing"
    BY <1>3 DEF Finalize, HoldsLease
  <2>4. UNCHANGED <<orders, evidence, traded>>
    BY <1>3 DEF Finalize, bookVars
  <2>5. GatePasses(o, outcome.accepted)
    BY <1>3 DEF Finalize
  <2>6. row.state = "final" /\ row.result = result
    BY <2>1, CommandTypes DEF CommandRows, Typed
  <2>7. \E i \in DOMAIN evidence[o] :
           /\ evidence[o][i].accepted = row.result.accepted
           /\ evidence[o][i].status = row.result.status
           /\ evidence[o][i].status = orders[o].status
    <3> HIDE DEF outcome, row
    <3> QED BY <2>5, <2>6 DEF GatePasses
  <2> HIDE DEF o, row
  <2> QED BY <2>1, <2>2, <2>3, <2>4, <2>6, <2>7, OneCommandQuiet
<1>4. CASE Fail(w)
  <2> DEFINE o == job[w]
             row == [commands[o] EXCEPT
                       !.state = IF attempt[w] >= MaxAttempts
                                 THEN "failed_terminal" ELSE "retryable",
                       !.lockedBy = NoWorker]
  <2>1. o \in OrderIds
    BY <1>4 DEF Fail, TypeOK, Typed
  <2>2. row.state \in {"failed_terminal", "retryable"}
    BY <2>1, CommandTypes DEF CommandRows, Typed
  <2>3. UNCHANGED <<orders, evidence, traded>>
    BY <1>4 DEF Fail, bookVars
  <2>4. CASE HoldsLease(w, o)
    <3>1. commands' = [commands EXCEPT ![o] = row]
      BY <1>4, <2>4 DEF Fail
    <3>2. commands[o].state = "processing"
      BY <2>4 DEF HoldsLease
    <3> HIDE DEF o, row
    <3> QED BY <2>1, <2>2, <2>3, <3>1, <3>2, OneCommandQuiet
  <2>5. CASE ~HoldsLease(w, o)
    BY <1>4, <2>3, <2>5, UnchangedCommandsQuiet DEF Fail
  <2> QED BY <2>4, <2>5
<1>5. CASE \/ Reconstruct(w) \/ ReadOrder(w) \/ Plan(w) \/ FinalizeReplays(w)
           \/ StepFails(w) \/ Crash(w) \/ LockLost(w)
  BY <1>5, UnchangedCommandsQuiet
  DEF Reconstruct, ReadOrder, Plan, FinalizeReplays, StepFails, Crash, LockLost,
      bookVars
<1> QED BY <1>1, <1>2, <1>3, <1>4, <1>5 DEF WorkerStep

(* A plan is made by Plan and lasts until its worker moves on.             *)
PlansKept ==
    \A v \in Workers :
        pc'[v] = "planned" =>
            \/ Plan(v)
            \/ /\ pc[v] = "planned" /\ plan'[v] = plan[v]
               /\ job'[v] = job[v] /\ seen'[v] = seen[v]

LEMMA StepsKeepPlans ==
    ASSUME Typed, NEW w \in Workers, WorkerStep(w) \/ Crash(w) \/ LockLost(w)
    PROVE  PlansKept
<1> USE DEF Typed, TypeOK
<1>1. ASSUME NEW v \in Workers \ {w}
      PROVE  /\ pc'[v] = pc[v] /\ plan'[v] = plan[v]
             /\ job'[v] = job[v] /\ seen'[v] = seen[v]
  BY DEF WorkerStep, Claim, ExpireForGood, Reconstruct, ReadOrder, Plan,
         CommitTerminal, CommitMatch, Finalize, FinalizeReplays, StepFails, Fail,
         Crash, LockLost, Step, Park, ForgetRead, Return, workerVars
<1>2. CASE Plan(w)
  BY <1>1, <1>2 DEF PlansKept
<1>3. CASE (\E o \in OrderIds : ExpireForGood(w, o)) \/ LockLost(w)
  BY <1>3 DEF PlansKept, ExpireForGood, LockLost, workerVars
<1>4. CASE /\ ~Plan(w) /\ ~LockLost(w)
           /\ ~\E o \in OrderIds : ExpireForGood(w, o)
  <2>1. pc'[w] # "planned"
    BY <1>4 DEF WorkerStep, Claim, Reconstruct, ReadOrder, CommitTerminal,
            CommitMatch, Finalize, FinalizeReplays, StepFails, Fail, Crash, Step,
            Park, Return
  <2> QED BY <1>1, <2>1 DEF PlansKept
<1> QED BY <1>2, <1>3, <1>4

(* A worker's job is the one it has claimed.                               *)
JobsKept ==
    \A v \in Workers :
        pc'[v] # "idle" =>
            \/ pc[v] # "idle" /\ job'[v] = job[v]
            \/ \E o \in OrderIds : Claim(v, o) /\ job'[v] = o

LEMMA StepsKeepJobs ==
    ASSUME Typed, NEW w \in Workers, WorkerStep(w) \/ Crash(w) \/ LockLost(w)
    PROVE  JobsKept
<1> USE DEF Typed, TypeOK
<1>1. ASSUME NEW v \in Workers \ {w} PROVE pc'[v] = pc[v] /\ job'[v] = job[v]
  BY DEF WorkerStep, Claim, ExpireForGood, Reconstruct, ReadOrder, Plan,
         CommitTerminal, CommitMatch, Finalize, FinalizeReplays, StepFails, Fail,
         Crash, LockLost, Step, Park, Return, workerVars
<1>2. CASE \E o \in OrderIds : Claim(w, o)
  <2>1. PICK o \in OrderIds : Claim(w, o)
    BY <1>2
  <2>2. job'[w] = o
    BY <2>1 DEF Claim
  <2> QED BY <1>1, <2>1, <2>2 DEF JobsKept
<1>3. CASE ~\E o \in OrderIds : Claim(w, o)
  <2>1. pc'[w] # "idle" => pc[w] # "idle" /\ job'[w] = job[w]
    BY <1>3 DEF WorkerStep, ExpireForGood, Reconstruct, ReadOrder, Plan,
            CommitTerminal, CommitMatch, Finalize, FinalizeReplays, StepFails,
            Fail, Crash, LockLost, Step, Park, Return, workerVars
  <2> QED BY <1>1, <2>1 DEF JobsKept
<1> QED BY <1>2, <1>3

(* Orders keep their request once admitted, published orders stay          *)
(* published: so jobs and plans carry over.                                *)
RequestsKept ==
    \A o \in OrderIds :
        commands[o].state # "none" =>
            /\ commands'[o].state # "none"
            /\ orders'[o].req = orders[o].req
            /\ Published(o) => Published(o)'

LEMMA CarryJobs ==
    ASSUME Typed, JobsAdmitted, JobsKept, RequestsKept
    PROVE  JobsAdmitted'
<1> SUFFICES ASSUME NEW v \in Workers, pc'[v] # "idle"
             PROVE  commands'[job'[v]].state # "none"
  BY DEF JobsAdmitted
<1>1. CASE pc[v] # "idle" /\ job'[v] = job[v]
  <2>1. job[v] \in OrderIds /\ commands[job[v]].state # "none"
    BY <1>1 DEF Typed, TypeOK, JobsAdmitted
  <2> QED BY <1>1, <2>1 DEF RequestsKept
<1>2. ASSUME NEW o \in OrderIds, Claim(v, o), job'[v] = o
      PROVE  commands'[job'[v]].state # "none"
  <2>1. commands[o].state # "none"
    BY <1>2 DEF Claim, Claimable
  <2> QED BY <1>2, <2>1 DEF RequestsKept
<1> QED BY <1>1, <1>2 DEF JobsKept

LEMMA MadePlanStands ==
    ASSUME Typed, NEW w \in Workers, Plan(w)
    PROVE  PlanStands(orders[job[w]].req, seen[w], plan'[w])
<1> DEFINE t == job[w]
           r == orders[t].req
           fills == PlannedFills(t, seen[w])
           reject == TakerReject(t, seen[w], fills)
<1>1. plan'[w] = [reject |-> reject, fills |-> fills]
  BY DEF Plan, Typed, TypeOK
<1>2. reject # "none" => ~IsGTC(r)
  <2> HIDE DEF fills
  <2> QED BY Zenon DEF TakerReject, FOKShort, IsGTC
<1>3. reject = "none" /\ r.tif = "FOK" => ~(TotalFilled(fills) < seen[w])
  <2> HIDE DEF fills
  <2> QED BY Zenon DEF TakerReject
<1>4. ASSUME NEW f \in fills
      PROVE  LET maker == orders[f.maker].req
             IN  /\ Published(f.maker)
                 /\ maker.type = "limit"
                 /\ maker.user # r.user
                 /\ maker.side = Opposite(r.side)
                 /\ Crosses(r, maker.price)
  <2>1. PICK e \in Candidates(RebuiltBook, t, r) : f.maker = e.id
    BY PlannedAreComputed, FillsAreOffers
  <2>2. /\ e \in RebuiltBook /\ e.user # r.user
        /\ e.side = Opposite(r.side) /\ Crosses(r, e.price)
    BY DEF Candidates, Crossing
  <2>3. PICK p \in OrderIds :
           /\ Rests(p) /\ e.id = p /\ e.user = orders[p].req.user
           /\ e.side = orders[p].req.side /\ e.price = orders[p].req.price
    BY <2>2 DEF RebuiltBook
  <2> HIDE DEF fills, r
  <2> QED BY <2>1, <2>2, <2>3 DEF Rests
<1> HIDE DEF fills, reject, r
<1>5. PlanStands(r, seen[w], plan'[w])
  BY <1>1, <1>2, <1>3, <1>4 DEF PlanStands
<1> QED BY <1>5 DEF r

LEMMA CarryPlans ==
    ASSUME Typed, Typed', JobsAdmitted, PlansStand, PublishedWasExecuted,
           PlansKept, RequestsKept
    PROVE  PlansStand'
<1> SUFFICES ASSUME NEW v \in Workers, pc'[v] = "planned"
             PROVE  PlanStands(orders[job[v]].req, seen[v], plan[v])'
  BY DEF PlansStand
<1>1. PICK t \in OrderIds : /\ t = job[v] /\ job'[v] = t /\ seen'[v] = seen[v]
                            /\ commands[t].state # "none"
                            /\ PlanStands(orders[t].req, seen[v], plan'[v])
  <2>1. CASE Plan(v)
    <3>1. job'[v] = job[v] /\ seen'[v] = seen[v] /\ pc[v] = "ready"
      BY <2>1 DEF Plan, Step
    <3>2. job[v] \in OrderIds /\ commands[job[v]].state # "none"
      BY <3>1 DEF Typed, TypeOK, JobsAdmitted
    <3> QED BY <2>1, <3>1, <3>2, MadePlanStands
  <2>2. CASE /\ pc[v] = "planned" /\ plan'[v] = plan[v]
             /\ job'[v] = job[v] /\ seen'[v] = seen[v]
    <3>1. job[v] \in OrderIds /\ commands[job[v]].state # "none"
      BY <2>2 DEF Typed, TypeOK, JobsAdmitted
    <3>2. PlanStands(orders[job[v]].req, seen[v], plan[v])
      BY <2>2 DEF PlansStand
    <3> QED BY <2>2, <3>1, <3>2
  <2> QED BY <2>1, <2>2 DEF PlansKept
<1>2. orders'[t].req = orders[t].req
  BY <1>1 DEF RequestsKept
<1>3. ASSUME NEW f \in plan'[v].fills
      PROVE  Published(f.maker)' /\ orders'[f.maker].req = orders[f.maker].req
  <2>1. plan'[v] \in Plans
    BY DEF Typed, TypeOK
  <2>2. f.maker \in OrderIds
    BY <2>1 DEF Plans, Fills
  <2>3. Published(f.maker)
    BY <1>1 DEF PlanStands
  <2>4. commands[f.maker].state # "none"
    BY <2>3 DEF Published
  <2> QED BY <2>2, <2>3, <2>4 DEF RequestsKept
<1> QED BY <1>1, <1>2, <1>3 DEF PlanStands

LEMMA QuietKeepsRequests ==
    ASSUME QuietEffect
    PROVE  RequestsKept
BY DEF QuietEffect, RequestsKept, Published

LEMMA QuietRows ==
    ASSUME Typed, RowsInv, QuietEffect
    PROVE  RowsInv'
<1> USE DEF RowsInv
<1>1. /\ UNCHANGED <<orders, evidence, traded>>
      /\ Admitted' = Admitted
      /\ \A o \in OrderIds :
            /\ Published(o) => Published(o)'
            /\ HasTraded(o)' <=> HasTraded(o)
            /\ commands'[o].state # "final" => commands[o].state # "final"
            /\ commands'[o].state = "none" <=> commands[o].state = "none"
            /\ (commands'[o].state = "final" /\ commands[o].state # "final") =>
                  \E i \in DOMAIN evidence[o] :
                     /\ evidence[o][i].accepted = commands'[o].result.accepted
                     /\ evidence[o][i].status = commands'[o].result.status
                     /\ evidence[o][i].status = orders[o].status
            /\ commands[o].state = "final" => commands'[o] = commands[o]
  BY DEF QuietEffect, Admitted, Published, HasTraded
<1>2. PublishedWasExecuted'
  BY <1>1, OrderTypes DEF PublishedWasExecuted, Typed
<1>3. ExecutedIsDecided' /\ RowsAddUp' /\ TerminalHoldClosed' /\ ExecutedOnce'
      /\ TradesRespectLimits'
  BY <1>1 DEF ExecutedIsDecided, RowsAddUp, TerminalHoldClosed, ExecutedOnce,
              TradesRespectLimits
<1>4. RejectedIsBare'
  BY <1>1 DEF RejectedIsBare
<1>5. UnpublishedUntouched'
  BY <1>1 DEF UnpublishedUntouched, Admitted
<1>6. FinalOutcomeTruthful'
  <2> SUFFICES ASSUME NEW o \in OrderIds, commands'[o].state = "final"
               PROVE  /\ \E i \in DOMAIN evidence[o] :
                           /\ evidence[o][i].accepted = commands'[o].result.accepted
                           /\ evidence[o][i].status = commands'[o].result.status
                      /\ ~commands'[o].result.accepted =>
                           /\ ~HasTraded(o)
                           /\ orders[o].status = "EXPIRED"
                           /\ orders[o].hold = 0
    BY <1>1 DEF FinalOutcomeTruthful
  <2>1. CASE commands[o].state = "final"
    BY <1>1, <2>1 DEF FinalOutcomeTruthful
  <2>2. CASE commands[o].state # "final"
    BY <1>1, <2>2 DEF RejectedIsBare, TerminalHoldClosed, Terminal
  <2> QED BY <2>1, <2>2
<1>7. MakersPublished'
  BY <1>1 DEF MakersPublished
<1>8. ImmediateOrdersNeverRest'
  BY <1>1, <1>2 DEF ImmediateOrdersNeverRest, ExecutedIsDecided,
                    PublishedWasExecuted, Admitted
<1> QED BY <1>2, <1>3, <1>4, <1>5, <1>6, <1>7, <1>8

LEMMA InitInv == Init => IInv
<1> SUFFICES ASSUME Init PROVE IInv
  OBVIOUS
<1>1. \A o \in OrderIds :
        /\ orders[o].status = "none" /\ orders[o].hold = 0
        /\ commands[o].state = "none" /\ evidence[o] = << >>
        /\ \A p \in OrderIds : traded[o][p] = 0
  BY DEF Init
<1>2. Admitted = {} /\ \A w \in Workers : pc[w] = "idle"
  BY <1>1 DEF Init, Admitted
<1>3. JobsAdmitted /\ PlansStand /\ RowsAddUp /\ UnpublishedUntouched
      /\ ImmediateOrdersNeverRest
  BY <1>2 DEF JobsAdmitted, PlansStand, RowsAddUp, UnpublishedUntouched,
              ImmediateOrdersNeverRest
<1>4. PublishedWasExecuted /\ ExecutedIsDecided /\ FinalOutcomeTruthful
  BY <1>1 DEF PublishedWasExecuted, ExecutedIsDecided, FinalOutcomeTruthful
<1>5. RejectedIsBare
  BY <1>1 DEF RejectedIsBare
<1>6. TerminalHoldClosed
  BY <1>1 DEF TerminalHoldClosed
<1>7. ExecutedOnce /\ MakersPublished /\ TradesRespectLimits
  BY <1>1, SMT DEF ExecutedOnce, MakersPublished, TradesRespectLimits
<1> QED BY <1>3, <1>4, <1>5, <1>6, <1>7 DEF IInv, RowsInv

(* An admission writes rows nobody has touched.                            *)
LEMMA AdmitRows ==
    ASSUME Typed, RowsInv, NEW o \in OrderIds, NEW r \in Requests, Admit(o, r)
    PROVE  RowsInv' /\ RequestsKept
<1> USE DEF RowsInv
<1>1. /\ commands[o].state = "none" /\ orders[o].status = "none"
      /\ evidence[o] = << >>
  BY DEF Admit, Admitted, Typed, InsertedAsPair, PublishedWasExecuted
<1>2. \A m \in OrderIds : traded[o][m] = 0 /\ traded[m][o] = 0
  <2> SUFFICES ASSUME NEW m \in OrderIds
               PROVE  traded[o][m] = 0 /\ traded[m][o] = 0
    OBVIOUS
  <2>1. traded[o][m] \in Nat /\ traded[m][o] \in Nat
    BY DEF Typed, TypeOK
  <2>2. ~(traded[o][m] > 0)
    <3>1. Len(evidence[o]) = 0
      BY <1>1
    <3> QED BY <3>1, SMT DEF ExecutedOnce
  <2>3. ~(traded[m][o] > 0)
    BY <1>1 DEF MakersPublished, Published
  <2> QED BY <2>1, <2>2, <2>3, SMT
<1>3. /\ UNCHANGED <<evidence, traded>>
      /\ orders'[o] = [req |-> r, status |-> "NEW", remaining |-> r.qty,
                       filled |-> 0, hold |-> OrderHold(r)]
      /\ commands'[o] = [commands[o] EXCEPT !.state = "admitted"]
      /\ \A p \in OrderIds \ {o} : /\ orders'[p] = orders[p]
                                  /\ commands'[p] = commands[p]
  BY DEF Admit, Typed, TypeOK
<1>4. commands'[o].state = "admitted" /\ commands'[o].result = commands[o].result
  BY <1>3, CommandTypes DEF CommandRows, Typed
<1>5. \A p \in OrderIds \ {o} : p \in Admitted' <=> p \in Admitted
  BY <1>3 DEF Admitted
<1>6. RequestsKept
  BY <1>1, <1>3 DEF RequestsKept, Published
<1>7. PublishedWasExecuted' /\ ExecutedIsDecided'
  BY <1>1, <1>3, <1>4 DEF PublishedWasExecuted, ExecutedIsDecided
<1>8. RejectedIsBare'
  BY <1>1, <1>3 DEF RejectedIsBare, HasTraded
<1>9. RowsAddUp'
  <2>1. r.qty \in Nat
    BY OrdersAssumption DEF RequestType
  <2>2. orders'[o].filled + orders'[o].remaining = orders'[o].req.qty
    BY <1>3, <2>1, SMT
  <2> QED BY <1>3, <1>5, <2>2 DEF RowsAddUp, Admitted
<1>10. TerminalHoldClosed'
  BY <1>3 DEF TerminalHoldClosed, Terminal
<1>11. ExecutedOnce'
  BY <1>3 DEF ExecutedOnce
<1>12. UnpublishedUntouched'
  BY <1>1, <1>3, <1>5 DEF UnpublishedUntouched, Admitted
<1>13. FinalOutcomeTruthful'
  <2> SUFFICES ASSUME NEW p \in OrderIds, commands'[p].state = "final"
               PROVE  LET result == commands'[p].result
                      IN  /\ \E i \in DOMAIN evidence'[p] :
                               /\ evidence'[p][i].accepted = result.accepted
                               /\ evidence'[p][i].status = result.status
                          /\ ~result.accepted =>
                               /\ ~\E q \in OrderIds :
                                      traded'[p][q] + traded'[q][p] > 0
                               /\ orders'[p].status = "EXPIRED"
                               /\ orders'[p].hold = 0
    BY DEF FinalOutcomeTruthful, HasTraded
  <2>1. p # o
    BY <1>4
  <2>2. commands[p].state = "final"
    BY <1>3, <2>1
  <2> QED BY <1>3, <2>1, <2>2 DEF FinalOutcomeTruthful, HasTraded
<1>14. MakersPublished' /\ TradesRespectLimits'
  BY <1>2, <1>3, SMT DEF MakersPublished, TradesRespectLimits, Published
<1>15. ImmediateOrdersNeverRest'
  <2> SUFFICES ASSUME NEW p \in Admitted'
               PROVE  /\ orders'[p].req.tif = "FOK" =>
                            orders'[p].filled \in {0, orders'[p].req.qty}
                      /\ (commands'[p].state = "final" /\ ~IsGTC(orders'[p].req)) =>
                            orders'[p].status \in Terminal
    BY DEF ImmediateOrdersNeverRest
  <2>1. CASE p = o
    <3>1. orders'[p].filled = 0
      BY <1>3, <2>1
    <3>2. commands'[p].state # "final"
      BY <1>4, <2>1
    <3> QED BY <3>1, <3>2
  <2>2. CASE p # o
    <3>1. p \in OrderIds
      BY DEF Admitted
    <3>2. p \in Admitted
      BY <1>5, <2>2, <3>1
    <3>3. orders'[p] = orders[p] /\ commands'[p] = commands[p]
      BY <1>3, <2>2, <3>1
    <3> QED BY <3>2, <3>3 DEF ImmediateOrdersNeverRest
  <2> QED BY <2>1, <2>2
<1> QED BY <1>6, <1>7, <1>8, <1>9, <1>10, <1>11, <1>12, <1>13, <1>14, <1>15

(* A cancellation closes a published open order, which no rejected one is. *)
LEMMA CancelRows ==
    ASSUME Typed, RowsInv, NEW o \in OrderIds, Cancel(o)
    PROVE  RowsInv' /\ RequestsKept
<1> USE DEF RowsInv
<1>1. orders[o].status \in Open /\ commands[o].state = "final"
  BY DEF Cancel, Cancellable
<1>2. UNCHANGED <<evidence, traded, commands>>
  BY DEF Cancel, CancelOver
<1>3. /\ orders'[o].req = orders[o].req /\ orders'[o].status = "CANCELLED"
      /\ orders'[o].filled = orders[o].filled
      /\ orders'[o].remaining = orders[o].remaining
      /\ orders'[o].hold = 0
      /\ \A p \in OrderIds \ {o} : orders'[p] = orders[p]
  <2> DEFINE hold == ReleaseResidual(Rows, orders[o].req, o).hold[o]
             after == [orders[o] EXCEPT !.status = "CANCELLED", !.hold = hold]
  <2>1. orders' = [orders EXCEPT ![o] = after] /\ hold = 0
    BY DEF Cancel
  <2> HIDE DEF hold
  <2>2. /\ after.req = orders[o].req /\ after.status = "CANCELLED"
        /\ after.filled = orders[o].filled
        /\ after.remaining = orders[o].remaining /\ after.hold = hold
    BY OrderTypes DEF OrderRows, Typed
  <2> HIDE DEF after
  <2> QED BY <2>1, <2>2 DEF Typed, TypeOK
<1>4. Admitted' = Admitted
  BY <1>1, <1>3 DEF Admitted, Open
<1>5. RequestsKept
  BY <1>2, <1>3 DEF RequestsKept, Published
<1>6. PublishedWasExecuted' /\ ExecutedOnce'
  BY <1>2 DEF PublishedWasExecuted, ExecutedOnce
<1>7. ExecutedIsDecided'
  BY <1>2, <1>3 DEF ExecutedIsDecided, Terminal
<1>8. RejectedIsBare'
  BY <1>1, <1>2, <1>3 DEF RejectedIsBare, HasTraded, Open
<1>9. RowsAddUp' /\ TerminalHoldClosed'
  BY <1>3, <1>4 DEF RowsAddUp, TerminalHoldClosed, Admitted
<1>10. UnpublishedUntouched'
  BY <1>1, <1>2, <1>3, <1>4 DEF UnpublishedUntouched, Admitted
<1>11. FinalOutcomeTruthful'
  BY <1>1, <1>2, <1>3 DEF FinalOutcomeTruthful, HasTraded, Open
<1>12. MakersPublished' /\ TradesRespectLimits'
  <2>1. \A p \in OrderIds : orders'[p].req = orders[p].req
    BY <1>3
  <2> QED BY <1>2, <2>1 DEF MakersPublished, TradesRespectLimits, Published
<1>13. ImmediateOrdersNeverRest'
  BY <1>2, <1>3, <1>4 DEF ImmediateOrdersNeverRest, Terminal, Admitted
<1> QED BY <1>5, <1>6, <1>7, <1>8, <1>9, <1>10, <1>11, <1>12, <1>13

(* An order with no evidence has no trade, and its command is not final.   *)
LEMMA UnexecutedIsFresh ==
    ASSUME Typed, RowsInv, NEW o \in OrderIds, evidence[o] = << >>
    PROVE  commands[o].state # "final" /\ ~HasTraded(o)
<1>1. commands[o].state # "final"
  BY DEF RowsInv, PublishedWasExecuted
<1>2. ASSUME NEW m \in OrderIds PROVE ~(traded[o][m] + traded[m][o] > 0)
  <2>1. traded[o][m] \in Nat /\ traded[m][o] \in Nat
    BY DEF Typed, TypeOK
  <2>2. ~(traded[o][m] > 0)
    <3>1. Len(evidence[o]) = 0
      OBVIOUS
    <3> QED BY <3>1, SMT DEF RowsInv, ExecutedOnce
  <2>3. ~(traded[m][o] > 0)
    BY <1>1 DEF RowsInv, MakersPublished, Published
  <2> QED BY <2>1, <2>2, <2>3, SMT
<1> QED BY <1>1, <1>2 DEF HasTraded

(* Turning a taker away is the first execution of its order, or finds it   *)
(* over: the plan says that it may not rest.                               *)
LEMMA CommitTerminalRows ==
    ASSUME Typed, IInv, NEW w \in Workers, CommitTerminal(w)
    PROVE  RowsInv' /\ RequestsKept
<1> USE DEF IInv, RowsInv
<1> DEFINE t == job[w]
           fresh == orders[t].status \in Open
           row == EvidenceRow("EXPIRED", HasTraded(t), plan[w].reject)
<1>1. /\ t \in OrderIds /\ commands[t].state # "none"
      /\ pc[w] = "planned" /\ ~IsGTC(orders[t].req)
  <2>1. pc[w] = "planned" /\ plan[w].reject # "none"
    BY DEF CommitTerminal
  <2>2. t \in OrderIds /\ commands[t].state # "none"
    BY <2>1 DEF Typed, TypeOK, JobsAdmitted
  <2>3. ~IsGTC(orders[t].req)
    BY <2>1 DEF PlansStand, PlanStands
  <2> QED BY <2>1, <2>2, <2>3
<1>2. /\ orders[t].status # "none"
      /\ fresh \/ orders[t].status \in Terminal
  BY <1>1, OrderTypes DEF Typed, InsertedAsPair
<1>3. UNCHANGED <<traded, commands>>
  BY DEF CommitTerminal, Return
<1>4. /\ orders'[t].req = orders[t].req
      /\ orders'[t].status = IF fresh THEN "EXPIRED" ELSE orders[t].status
      /\ orders'[t].filled = orders[t].filled
      /\ orders'[t].remaining = orders[t].remaining
      /\ orders'[t].hold = 0
      /\ \A p \in OrderIds \ {t} : orders'[p] = orders[p]
  <2> DEFINE hold == ReleaseResidual(Rows, orders[t].req, t).hold[t]
             status == IF fresh THEN "EXPIRED" ELSE orders[t].status
             after == [orders[t] EXCEPT !.status = status, !.hold = hold]
  <2>1. orders' = [orders EXCEPT ![t] = after] /\ hold = 0
    BY DEF CommitTerminal
  <2> HIDE DEF hold, status
  <2>2. /\ after.req = orders[t].req /\ after.status = status
        /\ after.filled = orders[t].filled
        /\ after.remaining = orders[t].remaining /\ after.hold = hold
    BY <1>1, OrderTypes DEF OrderRows, Typed
  <2> HIDE DEF after, t
  <2>3. /\ orders'[t] = after
        /\ \A p \in OrderIds \ {t} : orders'[p] = orders[p]
    BY <1>1, <2>1 DEF Typed, TypeOK
  <2> QED BY <2>1, <2>2, <2>3 DEF status, t
<1>5. fresh => /\ evidence[t] = << >>
               /\ evidence' = [evidence EXCEPT ![t] = Append(evidence[t], row)]
  <2>1. ASSUME fresh PROVE evidence[t] = << >>
    BY <1>1, <2>1 DEF ExecutedIsDecided, Open, Terminal
  <2> QED BY <2>1 DEF CommitTerminal
<1>6. fresh => /\ evidence'[t] = <<[accepted |-> FALSE, status |-> "EXPIRED",
                                    reason |-> plan[w].reject]>>
               /\ commands[t].state # "final" /\ ~HasTraded(t)
               /\ \A p \in OrderIds \ {t} : evidence'[p] = evidence[p]
  <2> SUFFICES ASSUME fresh
               PROVE  /\ evidence'[t] = <<[accepted |-> FALSE, status |-> "EXPIRED",
                                           reason |-> plan[w].reject]>>
                      /\ commands[t].state # "final" /\ ~HasTraded(t)
                      /\ \A p \in OrderIds \ {t} : evidence'[p] = evidence[p]
    OBVIOUS
  <2>1. commands[t].state # "final" /\ ~HasTraded(t)
    BY <1>1, <1>5, UnexecutedIsFresh
  <2>2. row = [accepted |-> FALSE, status |-> "EXPIRED", reason |-> plan[w].reject]
    <3>1. ~VerdictOf("EXPIRED", HasTraded(t))
      BY <2>1 DEF VerdictOf, Open
    <3>2. VerdictOf("EXPIRED", HasTraded(t)) = FALSE
      BY <3>1 DEF VerdictOf
    <3> QED BY <3>2 DEF EvidenceRow
  <2> HIDE DEF row, t
  <2>3. /\ evidence'[t] = Append(<< >>, row)
        /\ \A p \in OrderIds \ {t} : evidence'[p] = evidence[p]
    BY <1>1, <1>5 DEF Typed, TypeOK
  <2>4. Append(<< >>, row) = <<row>>
    OBVIOUS
  <2> QED BY <2>1, <2>2, <2>3, <2>4
<1>7. ~fresh => evidence' = evidence /\ orders[t].status \in Terminal
  BY <1>2 DEF CommitTerminal
<1> HIDE DEF t, fresh, row
<1>8. Admitted' = Admitted
  BY <1>1, <1>2, <1>4 DEF Admitted
<1>9. /\ \A p \in OrderIds : orders'[p].req = orders[p].req
      /\ orders'[t].status \in Terminal
  BY <1>2, <1>4 DEF Terminal
<1>10. RequestsKept
  BY <1>3, <1>9 DEF RequestsKept, Published
<1>11. PublishedWasExecuted'
  <2>1. CASE fresh
    BY <1>1, <1>3, <1>6, <2>1 DEF PublishedWasExecuted
  <2>2. CASE ~fresh
    BY <1>3, <1>7, <2>2 DEF PublishedWasExecuted
  <2> QED BY <2>1, <2>2
<1>12. ExecutedIsDecided'
  <2> SUFFICES ASSUME NEW p \in OrderIds, evidence'[p] # << >>
               PROVE  IF IsGTC(orders'[p].req) THEN evidence'[p][1].accepted
                                               ELSE orders'[p].status \in Terminal
    BY DEF ExecutedIsDecided
  <2>1. CASE p = t
    BY <1>1, <1>9, <2>1
  <2>2. CASE p # t
    <3>1. orders'[p] = orders[p] /\ evidence'[p] = evidence[p]
      BY <1>4, <1>6, <1>7, <2>2
    <3> QED BY <3>1 DEF ExecutedIsDecided
  <2> QED BY <2>1, <2>2
<1>13. RejectedIsBare'
  <2> SUFFICES ASSUME NEW p \in OrderIds, NEW i \in DOMAIN evidence'[p],
                      ~evidence'[p][i].accepted
               PROVE  /\ evidence'[p][i].status = "EXPIRED"
                      /\ orders'[p].status = "EXPIRED"
                      /\ ~\E q \in OrderIds : traded'[p][q] + traded'[q][p] > 0
    BY DEF RejectedIsBare, HasTraded
  <2>1. CASE p = t /\ fresh
    <3>1. i = 1
      BY <1>6, <2>1
    <3> QED BY <1>3, <1>4, <1>6, <2>1, <3>1 DEF HasTraded
  <2>2. CASE p # t \/ ~fresh
    <3>1. /\ orders'[p].status = orders[p].status /\ evidence'[p] = evidence[p]
      BY <1>4, <1>6, <1>7, <2>2
    <3> QED BY <1>3, <3>1 DEF RejectedIsBare, HasTraded
  <2> QED BY <2>1, <2>2
<1>14. RowsAddUp' /\ TerminalHoldClosed'
  BY <1>4, <1>8 DEF RowsAddUp, TerminalHoldClosed, Admitted
<1>15. ExecutedOnce'
  <2>1. CASE fresh
    <3>1. Len(evidence'[t]) = 1
      BY <1>6, <2>1
    <3>2. \A p \in OrderIds \ {t} : evidence'[p] = evidence[p]
      BY <1>6, <2>1
    <3>3. Len(evidence'[t]) <= 1
      BY <3>1, SMT
    <3> SUFFICES ASSUME NEW p \in OrderIds
                 PROVE  /\ Len(evidence'[p]) <= 1
                        /\ (\E m \in OrderIds : traded'[p][m] > 0)
                              => Len(evidence'[p]) = 1
      BY DEF ExecutedOnce
    <3>4. CASE p = t
      BY <3>1, <3>3, <3>4
    <3>5. CASE p # t
      BY <1>3, <3>2, <3>5 DEF ExecutedOnce
    <3> QED BY <3>4, <3>5
  <2>2. CASE ~fresh
    BY <1>3, <1>7, <2>2 DEF ExecutedOnce
  <2> QED BY <2>1, <2>2
<1>16. UnpublishedUntouched'
  <2> SUFFICES ASSUME NEW p \in OrderIds, p \in Admitted,
                      commands[p].state # "final"
               PROVE  IF evidence'[p] = << >>
                      THEN /\ orders'[p].status = "NEW"
                           /\ orders'[p].filled = 0
                           /\ orders'[p].hold = OrderHold(orders'[p].req)
                      ELSE \E i \in DOMAIN evidence'[p] :
                              evidence'[p][i].status = orders'[p].status
    BY <1>3, <1>8 DEF UnpublishedUntouched, Admitted
  <2>1. CASE p = t /\ fresh
    <3>1. 1 \in DOMAIN evidence'[p] /\ evidence'[p] # << >>
      BY <1>6, <2>1
    <3>2. evidence'[p][1].status = orders'[p].status
      BY <1>4, <1>6, <2>1
    <3> QED BY <3>1, <3>2
  <2>2. CASE p = t /\ ~fresh
    <3>1. evidence[p] # << >>
      BY <1>7, <2>2 DEF UnpublishedUntouched, Terminal
    <3> QED BY <1>4, <1>7, <2>2, <3>1 DEF UnpublishedUntouched
  <2>3. CASE p # t
    <3>1. orders'[p] = orders[p] /\ evidence'[p] = evidence[p]
      BY <1>4, <1>6, <1>7, <2>3
    <3> QED BY <3>1 DEF UnpublishedUntouched
  <2> QED BY <2>1, <2>2, <2>3
<1>17. FinalOutcomeTruthful'
  <2> SUFFICES ASSUME NEW p \in OrderIds, commands[p].state = "final"
               PROVE  LET result == commands[p].result
                      IN  /\ \E i \in DOMAIN evidence'[p] :
                               /\ evidence'[p][i].accepted = result.accepted
                               /\ evidence'[p][i].status = result.status
                          /\ ~result.accepted =>
                               /\ ~\E q \in OrderIds :
                                      traded'[p][q] + traded'[q][p] > 0
                               /\ orders'[p].status = "EXPIRED"
                               /\ orders'[p].hold = 0
    BY <1>3 DEF FinalOutcomeTruthful, HasTraded
  <2>1. /\ evidence'[p] = evidence[p] /\ orders'[p].status = orders[p].status
        /\ orders[p].hold = 0 => orders'[p].hold = 0
    BY <1>4, <1>6, <1>7
  <2> QED BY <1>3, <2>1 DEF FinalOutcomeTruthful, HasTraded
<1>18. MakersPublished' /\ TradesRespectLimits'
  BY <1>3, <1>9 DEF MakersPublished, TradesRespectLimits, Published
<1>19. ImmediateOrdersNeverRest'
  <2> SUFFICES ASSUME NEW p \in Admitted
               PROVE  /\ orders'[p].req.tif = "FOK" =>
                            orders'[p].filled \in {0, orders'[p].req.qty}
                      /\ (commands[p].state = "final" /\ ~IsGTC(orders'[p].req)) =>
                            orders'[p].status \in Terminal
    BY <1>3, <1>8 DEF ImmediateOrdersNeverRest
  <2>1. /\ orders'[p].req = orders[p].req /\ orders'[p].filled = orders[p].filled
        /\ orders[p].status \in Terminal => orders'[p].status \in Terminal
    BY <1>4, <1>9 DEF Admitted
  <2> QED BY <2>1 DEF ImmediateOrdersNeverRest
<1> QED BY <1>10, <1>11, <1>12, <1>13, <1>14, <1>15, <1>16, <1>17, <1>18, <1>19

(* A plan without fills adds up to nothing.                                *)
LEMMA NoFillsNoTotal == TotalFilled({}) = 0
BY SumEmpty DEF TotalFilled

(* The verdict of a match: an order that may rest is accepted, one that    *)
(* may not is over, and a rejected one is EXPIRED and has no fill.         *)
LEMMA VerdictOfMatch ==
    ASSUME NEW r, NEW want, NEW fills, NEW hasTraded \in BOOLEAN,
           NEW status, status = TakerStatus(r, want, TotalFilled(fills)),
           NEW row, row = EvidenceRow(status, hasTraded \/ fills # {}, "no_liquidity")
    PROVE  /\ row.status = status /\ row.accepted \in BOOLEAN
           /\ IsGTC(r) => row.accepted
           /\ ~IsGTC(r) => status \in Terminal
           /\ ~row.accepted => status = "EXPIRED" /\ fills = {}
<1> DEFINE total == TotalFilled(fills)
<1>1. /\ row.status = status
      /\ row.accepted = VerdictOf(status, hasTraded \/ fills # {})
  BY DEF EvidenceRow
<1>2. row.accepted <=> (status \in Open \cup {"FILLED"} \/ hasTraded \/ fills # {})
  BY <1>1 DEF VerdictOf
<1>3. row.accepted \in BOOLEAN
  BY <1>1 DEF VerdictOf
<1>4. IsGTC(r) => status \in {"FILLED", "PARTIALLY_FILLED", "NEW"}
  <2> HIDE DEF total
  <2> QED BY Zenon DEF TakerStatus
<1>5. ~IsGTC(r) => status \in {"FILLED", "CANCELLED", "EXPIRED"}
  <2> HIDE DEF total
  <2> QED BY Zenon DEF TakerStatus
<1>6. fills = {} => status \in {"FILLED", "NEW", "EXPIRED"}
  <2> SUFFICES ASSUME fills = {} PROVE status \in {"FILLED", "NEW", "EXPIRED"}
    OBVIOUS
  <2>1. status = TakerStatus(r, want, 0)
    BY NoFillsNoTotal
  <2>2. ~(0 > 0)
    BY SMT
  <2> QED BY <2>1, <2>2, Zenon DEF TakerStatus
<1> QED BY <1>1, <1>2, <1>3, <1>4, <1>5, <1>6 DEF Open, Terminal

(* The engine's transaction commits only as the first execution of its     *)
(* order, and every maker it touches is published and was open.            *)
LEMMA CommitMatchRows ==
    ASSUME Typed, IInv, NEW w \in Workers, CommitMatch(w)
    PROVE  RowsInv' /\ RequestsKept
<1> USE DEF IInv, RowsInv
<1> DEFINE t == job[w]
           r == orders[t].req
           fills == plan[w].fills
           status == StatusAfter(w)
           row == EvidenceAfter(w)
           total == TotalFilled(fills)
<1>1. MatchEffect(t, fills, status, row)
  BY CommitMatchEffect
<1>2. /\ t \in OrderIds /\ commands[t].state # "none"
      /\ PlanStands(r, seen[w], plan[w])
  BY DEF CommitMatch, JobsAdmitted, PlansStand, Typed, TypeOK
<1>3. /\ UNCHANGED commands
      /\ orders[t].status = "NEW"
      /\ orders[t].remaining = seen[w]
      /\ total \in 0..seen[w]
      /\ \A f \in fills : orders[f.maker].status \in Open
      /\ \A i \in DOMAIN evidence[t] : evidence[t][i].accepted # row.accepted
      /\ HoldsClosed(orders', {t} \cup {f.maker : f \in fills})
      /\ plan[w].reject = "none"
  BY DEF CommitMatch, Validated, EvidenceIsNew, EvidenceAfter,
         StatusAfter, Return
<1>4. /\ row.status = status /\ row.accepted \in BOOLEAN
      /\ IsGTC(r) => row.accepted
      /\ ~IsGTC(r) => status \in Terminal
      /\ ~row.accepted => status = "EXPIRED" /\ fills = {}
  <2>1. HasTraded(t) \in BOOLEAN
    BY DEF HasTraded
  <2>2. /\ status = TakerStatus(r, seen[w], TotalFilled(fills))
        /\ row = EvidenceRow(status, HasTraded(t) \/ fills # {}, "no_liquidity")
    BY DEF StatusAfter, EvidenceAfter
  <2> HIDE DEF t, r, fills, status, row, total
  <2> QED BY <2>1, <2>2, VerdictOfMatch
<1>5. \A f \in fills :
        /\ f.maker \in OrderIds
        /\ Published(f.maker)
        /\ orders[f.maker].req.type = "limit"
        /\ orders[f.maker].req.user # r.user
        /\ orders[f.maker].req.side = Opposite(r.side)
        /\ Crosses(r, orders[f.maker].req.price)
  <2>1. fills \subseteq Fills
    BY DEF Typed, TypeOK, Plans
  <2> QED BY <1>2, <2>1 DEF PlanStands, Fills
<1>6. (r.tif = "FOK") => ~(total < seen[w])
  BY <1>2, <1>3 DEF PlanStands
<1> HIDE DEF t, r, fills, status, row, total
<1>7. r = orders[t].req
  BY DEF r
<1>8. evidence[t] = << >>
  <2> SUFFICES ASSUME evidence[t] # << >> PROVE FALSE
    OBVIOUS
  <2>1. evidence[t] \in Seq(Evidence)
    BY <1>2, OrderTypes DEF Typed
  <2>2. 1 \in DOMAIN evidence[t] /\ evidence[t][1] \in Evidence
    BY <2>1
  <2>3. IsGTC(r) /\ evidence[t][1].accepted
    BY <1>2, <1>3, <1>7 DEF ExecutedIsDecided, Terminal
  <2>4. evidence[t][1].accepted \in BOOLEAN
    BY <2>2 DEF Evidence
  <2> QED BY <1>3, <1>4, <2>2, <2>3, <2>4
<1>9. commands[t].state # "final" /\ ~HasTraded(t)
  BY <1>2, <1>8, UnexecutedIsFresh
<1>10. orders[t].filled = 0 /\ orders[t].remaining = r.qty /\ t \in Admitted
  <2>1. t \in Admitted
    BY <1>2, <1>3 DEF Admitted
  <2>2. orders[t].filled = 0
    BY <1>8, <1>9, <2>1 DEF UnpublishedUntouched
  <2>3. orders[t].filled + orders[t].remaining = r.qty
    BY <1>7, <2>1 DEF RowsAddUp
  <2>4. orders[t].remaining \in Nat /\ r.qty \in Nat
    BY <1>2, <1>7, OrderTypes DEF Typed, RequestType
  <2> QED BY <2>1, <2>2, <2>3, <2>4, SMT
<1>11. /\ evidence'[t] = <<row>>
       /\ \A p \in OrderIds \ {t} : evidence'[p] = evidence[p]
  <2>1. evidence' = [evidence EXCEPT ![t] = Append(evidence[t], row)]
    BY <1>1 DEF MatchEffect
  <2>2. /\ evidence'[t] = Append(<< >>, row)
        /\ \A p \in OrderIds \ {t} : evidence'[p] = evidence[p]
    BY <1>2, <1>8, <2>1 DEF Typed, TypeOK
  <2>3. Append(<< >>, row) = <<row>>
    OBVIOUS
  <2> QED BY <2>2, <2>3
<1>12. /\ orders'[t].req = r /\ orders'[t].status = status
       /\ orders'[t].filled = total
       /\ \A p \in OrderIds \ {t} :
             \/ orders'[p] = orders[p]
             \/ /\ orders[p].status \in Open /\ Published(p)
                /\ orders'[p].req = orders[p].req
                /\ orders'[p].status \in {"FILLED", "PARTIALLY_FILLED"}
  <2>1. orders'[t].filled = total
    <3>1. orders'[t].filled = orders[t].filled + total
      BY <1>1 DEF MatchEffect, total
    <3>2. total \in Int
      BY <1>3
    <3> QED BY <1>10, <3>1, <3>2, SMT
  <2> QED BY <1>1, <1>5, <1>7, <2>1 DEF MatchEffect
<1>13. \A a, m \in OrderIds :
         \/ traded'[a][m] = traded[a][m]
         \/ a = t /\ \E f \in fills : f.maker = m
  BY <1>1 DEF MatchEffect
<1>14. /\ \A p \in OrderIds : orders'[p].req = orders[p].req
       /\ Admitted' = Admitted
  <2>1. \A p \in OrderIds : orders'[p].req = orders[p].req
    BY <1>7, <1>12
  <2>2. status # "none"
    BY <1>1 DEF MatchEffect, Open, Terminal
  <2>3. \A p \in OrderIds : orders'[p].status # "none" <=> orders[p].status # "none"
    BY <1>3, <1>12, <2>2 DEF Open
  <2> QED BY <2>1, <2>3 DEF Admitted
<1>15. RequestsKept
  BY <1>3, <1>14 DEF RequestsKept, Published
<1>16. PublishedWasExecuted'
  BY <1>2, <1>3, <1>11 DEF PublishedWasExecuted
<1>17. /\ evidence'[t][1] = row /\ Len(evidence'[t]) = 1 /\ 1 \in DOMAIN evidence'[t]
       /\ \A i \in DOMAIN evidence'[t] : evidence'[t][i] = row
  BY <1>11
<1>18. \A p \in OrderIds \ {t} :
         /\ orders[p].status \in Terminal => orders'[p] = orders[p]
         /\ ~Published(p) => orders'[p] = orders[p]
  BY <1>12 DEF Open, Terminal
<1>19. ExecutedIsDecided'
  <2> SUFFICES ASSUME NEW p \in OrderIds, evidence'[p] # << >>
               PROVE  IF IsGTC(orders'[p].req) THEN evidence'[p][1].accepted
                                               ELSE orders'[p].status \in Terminal
    BY DEF ExecutedIsDecided, IsGTC
  <2>1. CASE p = t
    BY <1>4, <1>12, <1>17, <2>1
  <2>2. CASE p # t
    <3>1. evidence'[p] = evidence[p] /\ orders'[p].req = orders[p].req
      BY <1>11, <1>14, <2>2
    <3>2. IF IsGTC(orders[p].req) THEN evidence[p][1].accepted
                                  ELSE orders[p].status \in Terminal
      BY <3>1 DEF ExecutedIsDecided
    <3> QED BY <1>18, <2>2, <3>1, <3>2
  <2> QED BY <2>1, <2>2
(* A rejected order has no trade before or after: it is no maker here, and *)
(* a rejected taker has no fill.                                           *)
<1>20. ASSUME NEW p \in OrderIds, ~HasTraded(p),
              \/ p = t /\ fills = {}
              \/ p # t /\ orders[p].status \in Terminal
       PROVE  ~HasTraded(p)'
  <2>1. \A f \in fills : f.maker # p
    BY <1>3, <1>20 DEF Open, Terminal
  <2>2. p = t => fills = {}
    BY <1>20
  <2>3. \A q \in OrderIds : traded'[p][q] = traded[p][q] /\ traded'[q][p] = traded[q][p]
    BY <1>13, <2>1, <2>2
  <2> QED BY <1>20, <2>3 DEF HasTraded
<1>21. RejectedIsBare'
  <2> SUFFICES ASSUME NEW p \in OrderIds, NEW i \in DOMAIN evidence'[p],
                      ~evidence'[p][i].accepted
               PROVE  /\ evidence'[p][i].status = "EXPIRED"
                      /\ orders'[p].status = "EXPIRED"
                      /\ ~HasTraded(p)'
    BY DEF RejectedIsBare
  <2>1. CASE p = t
    <3>1. evidence'[p][i] = row
      BY <1>17, <2>1
    <3>2. status = "EXPIRED" /\ fills = {}
      BY <1>4, <3>1
    <3> QED BY <1>2, <1>4, <1>9, <1>12, <1>20, <2>1, <3>1, <3>2
  <2>2. CASE p # t
    <3>1. evidence'[p] = evidence[p]
      BY <1>11, <2>2
    <3>2. /\ evidence[p][i].status = "EXPIRED" /\ orders[p].status = "EXPIRED"
          /\ ~HasTraded(p)
      BY <3>1 DEF RejectedIsBare
    <3>3. orders[p].status \in Terminal
      BY <3>2 DEF Terminal
    <3> QED BY <1>18, <1>20, <2>2, <3>1, <3>2, <3>3
  <2> QED BY <2>1, <2>2
<1>22. RowsAddUp' /\ TerminalHoldClosed'
  <2>1. \A p \in OrderIds : orders'[p].filled + orders'[p].remaining
                                = orders[p].filled + orders[p].remaining
    BY <1>1 DEF MatchEffect
  <2>2. \A p \in Admitted : p \in OrderIds
    BY DEF Admitted
  <2>3. RowsAddUp'
    BY <1>14, <2>1, <2>2 DEF RowsAddUp
  <2>4. TerminalHoldClosed'
    <3> SUFFICES ASSUME NEW p \in OrderIds, orders'[p].status \in Terminal
                 PROVE  orders'[p].hold = 0
      BY DEF TerminalHoldClosed
    <3>1. CASE p = t \/ \E f \in fills : f.maker = p
      BY <1>3, <3>1 DEF HoldsClosed
    <3>2. CASE p # t /\ ~\E f \in fills : f.maker = p
      <4>1. orders'[p] = orders[p]
        BY <1>1, <3>2 DEF MatchEffect
      <4> QED BY <4>1 DEF TerminalHoldClosed
    <3> QED BY <3>1, <3>2
  <2> QED BY <2>3, <2>4
<1>23. ExecutedOnce'
  <2> SUFFICES ASSUME NEW p \in OrderIds
               PROVE  /\ Len(evidence'[p]) <= 1
                      /\ (\E m \in OrderIds : traded'[p][m] > 0) =>
                            Len(evidence'[p]) = 1
    BY DEF ExecutedOnce
  <2>1. CASE p = t
    <3>1. Len(evidence'[p]) = 1
      BY <1>17, <2>1
    <3>2. Len(evidence'[p]) <= 1
      BY <3>1, SMT
    <3> QED BY <3>1, <3>2
  <2>2. CASE p # t
    BY <1>11, <1>13, <2>2 DEF ExecutedOnce
  <2> QED BY <2>1, <2>2
<1>24. UnpublishedUntouched'
  <2> SUFFICES ASSUME NEW p \in Admitted', commands'[p].state # "final"
               PROVE  IF evidence'[p] = << >>
                      THEN /\ orders'[p].status = "NEW"
                           /\ orders'[p].filled = 0
                           /\ orders'[p].hold = OrderHold(orders'[p].req)
                      ELSE \E i \in DOMAIN evidence'[p] :
                              evidence'[p][i].status = orders'[p].status
    BY DEF UnpublishedUntouched
  <2>1. p \in Admitted /\ p \in OrderIds /\ commands[p].state # "final"
    BY <1>3, <1>14 DEF Admitted
  <2>2. CASE p = t
    BY <1>4, <1>11, <1>12, <1>17, <2>2
  <2>3. CASE p # t
    <3>1. orders'[p] = orders[p] /\ evidence'[p] = evidence[p]
      BY <1>11, <1>18, <2>1, <2>3 DEF Published
    <3> QED BY <2>1, <3>1 DEF UnpublishedUntouched
  <2> QED BY <2>2, <2>3
<1>25. FinalOutcomeTruthful'
  <2> SUFFICES ASSUME NEW p \in OrderIds, commands'[p].state = "final"
               PROVE  /\ \E i \in DOMAIN evidence'[p] :
                           /\ evidence'[p][i].accepted = commands'[p].result.accepted
                           /\ evidence'[p][i].status = commands'[p].result.status
                      /\ ~commands'[p].result.accepted =>
                           /\ ~HasTraded(p)'
                           /\ orders'[p].status = "EXPIRED"
                           /\ orders'[p].hold = 0
    BY DEF FinalOutcomeTruthful
  <2>1. p # t /\ commands[p].state = "final" /\ commands'[p] = commands[p]
    BY <1>3, <1>9
  <2>2. evidence'[p] = evidence[p]
    BY <1>11, <2>1
  <2>3. ASSUME ~commands[p].result.accepted
        PROVE  ~HasTraded(p)' /\ orders'[p].status = "EXPIRED" /\ orders'[p].hold = 0
    <3>1. ~HasTraded(p) /\ orders[p].status = "EXPIRED" /\ orders[p].hold = 0
      BY <2>1, <2>3 DEF FinalOutcomeTruthful
    <3>2. orders[p].status \in Terminal
      BY <3>1 DEF Terminal
    <3> QED BY <1>18, <1>20, <2>1, <3>1, <3>2
  <2>4. \E i \in DOMAIN evidence[p] :
           /\ evidence[p][i].accepted = commands[p].result.accepted
           /\ evidence[p][i].status = commands[p].result.status
    BY <2>1 DEF FinalOutcomeTruthful
  <2> QED BY <2>1, <2>2, <2>3, <2>4
<1>26. MakersPublished' /\ TradesRespectLimits'
  <2> SUFFICES ASSUME NEW a \in OrderIds, NEW m \in OrderIds, traded'[a][m] > 0
               PROVE  /\ Published(m)' /\ orders'[m].req.type = "limit"
                      /\ orders'[a].req.user # orders'[m].req.user
                      /\ orders'[m].req.side = Opposite(orders'[a].req.side)
                      /\ Crosses(orders'[a].req, orders'[m].req.price)
    BY DEF MakersPublished, TradesRespectLimits
  <2>1. Published(m)' <=> Published(m)
    BY <1>3 DEF Published
  <2>2. orders'[a].req = orders[a].req /\ orders'[m].req = orders[m].req
    BY <1>14
  <2>3. CASE traded'[a][m] = traded[a][m]
    BY <2>1, <2>2, <2>3 DEF MakersPublished, TradesRespectLimits
  <2>4. CASE a = t /\ \E f \in fills : f.maker = m
    BY <1>5, <1>7, <2>1, <2>2, <2>4
  <2> QED BY <1>13, <2>3, <2>4
<1>27. ImmediateOrdersNeverRest'
  <2> SUFFICES ASSUME NEW p \in Admitted'
               PROVE  /\ orders'[p].req.tif = "FOK" =>
                            orders'[p].filled \in {0, orders'[p].req.qty}
                      /\ (commands'[p].state = "final" /\ ~IsGTC(orders'[p].req)) =>
                            orders'[p].status \in Terminal
    BY DEF ImmediateOrdersNeverRest
  <2>1. p \in Admitted /\ p \in OrderIds /\ orders'[p].req = orders[p].req
    BY <1>14 DEF Admitted
  <2>2. CASE p = t
    <3>1. r.tif = "FOK" => total = r.qty
      <4>1. seen[w] = r.qty /\ r.qty \in Nat
        BY <1>2, <1>3, <1>7, <1>10, OrderTypes DEF Typed, RequestType
      <4> QED BY <1>3, <1>6, <4>1, SMT
    <3> QED BY <1>4, <1>12, <2>2, <3>1
  <2>3. CASE p # t /\ orders'[p] = orders[p]
    BY <1>3, <2>1, <2>3 DEF ImmediateOrdersNeverRest
  <2>4. CASE p # t /\ orders[p].status \in Open /\ Published(p)
    <3>1. evidence[p] # << >>
      BY <2>1, <2>4 DEF PublishedWasExecuted, Published
    <3>2. IsGTC(orders[p].req)
      BY <2>1, <2>4, <3>1 DEF ExecutedIsDecided, Open, Terminal
    <3> QED BY <2>1, <3>2 DEF IsGTC
  <2> QED BY <1>12, <2>1, <2>2, <2>3, <2>4
<1> QED BY <1>15, <1>16, <1>19, <1>21, <1>22, <1>23, <1>24, <1>25, <1>26, <1>27

(* What every step keeps of jobs, plans and published orders.              *)
LEMMA NextKeeps ==
    ASSUME Typed, IInv, [Next]_vars
    PROVE  RowsInv' /\ RequestsKept /\ PlansKept /\ JobsKept
<1> USE DEF IInv
<1>1. ASSUME UNCHANGED workerVars PROVE PlansKept /\ JobsKept
  BY <1>1 DEF PlansKept, JobsKept, workerVars
<1>2. ASSUME NEW o \in OrderIds, NEW r \in Requests, Admit(o, r)
      PROVE  RowsInv' /\ RequestsKept /\ PlansKept /\ JobsKept
  <2>1. UNCHANGED workerVars
    BY <1>2 DEF Admit
  <2> QED BY <1>1, <1>2, <2>1, AdmitRows
<1>3. ASSUME NEW o \in OrderIds, Cancel(o)
      PROVE  RowsInv' /\ RequestsKept /\ PlansKept /\ JobsKept
  <2>1. UNCHANGED workerVars
    BY <1>3 DEF Cancel, CancelOver
  <2> QED BY <1>1, <1>3, <2>1, CancelRows
<1>4. ASSUME NEW w \in Workers, WorkerStep(w) \/ Crash(w) \/ LockLost(w)
      PROVE  RowsInv' /\ RequestsKept /\ PlansKept /\ JobsKept
  <2>1. PlansKept /\ JobsKept
    BY <1>4, StepsKeepPlans, StepsKeepJobs
  <2>2. CASE CommitTerminal(w)
    BY <2>1, <2>2, CommitTerminalRows
  <2>3. CASE CommitMatch(w)
    BY <2>1, <2>3, CommitMatchRows
  <2>4. CASE ~CommitTerminal(w) /\ ~CommitMatch(w)
    BY <1>4, <2>1, <2>4, QuietSteps, QuietRows, QuietKeepsRequests
  <2> QED BY <2>2, <2>3, <2>4
<1>5. CASE UNCHANGED vars \/ \E o \in OrderIds : CancelLockStep(o)
  <2>1. UNCHANGED workerVars /\ UNCHANGED <<orders, evidence, traded, commands>>
    BY <1>5, CancelLockEffect DEF vars, workerVars
  <2> QED BY <1>1, <2>1, UnchangedCommandsQuiet, QuietRows, QuietKeepsRequests
<1> QED BY <1>2, <1>3, <1>4, <1>5 DEF Next, CancelLockStep

LEMMA NextInv == Typed /\ IInv /\ [Next]_vars => IInv'
<1> SUFFICES ASSUME Typed, IInv, [Next]_vars PROVE IInv'
  OBVIOUS
<1>1. Typed' /\ RowsInv' /\ RequestsKept /\ PlansKept /\ JobsKept
  BY NextTyped, NextKeeps
<1>2. PublishedWasExecuted
  BY DEF IInv, RowsInv
<1> QED BY <1>1, <1>2, CarryJobs, CarryPlans DEF IInv

LEMMA Invariance == Spec => [](Typed /\ IInv)
<1>1. Typed /\ IInv /\ [Next]_vars => (Typed /\ IInv)'
  BY NextTyped, NextInv
<1> QED BY InitTyped, InitInv, <1>1, PTL DEF Spec

(* Whatever path ends an order (fill, expiry, cancellation, a late second  *)
(* worker), no funds stay reserved for it.                                 *)
THEOREM NoHoldOutlivesItsOrder == Spec => []TerminalHoldClosed
<1>1. Typed /\ IInv => TerminalHoldClosed
  BY DEF IInv, RowsInv
<1> QED BY Invariance, <1>1, PTL

(* Any number of workers, crashes, lost leases and lost answers execute an *)
(* admitted order at most once.                                            *)
THEOREM AtMostOneExecution == Spec => []ExecutedOnce
<1>1. Typed /\ IInv => ExecutedOnce
  BY DEF IInv, RowsInv
<1> QED BY Invariance, <1>1, PTL

(* Before its command is published an order is as its own execution left   *)
(* it: no cancellation and no other taker has reached it.                  *)
THEOREM NothingReachesUnpublishedOrders == Spec => []UnpublishedUntouched
<1>1. Typed /\ IInv => UnpublishedUntouched
  BY DEF IInv, RowsInv
<1> QED BY Invariance, <1>1, PTL

(* The published result carries the verdict of the committed execution,    *)
(* and a published rejection means no trade, EXPIRED and no hold, now and  *)
(* for ever after.                                                         *)
THEOREM PublishedOutcomeIsTrue == Spec => []FinalOutcomeTruthful
<1>1. Typed /\ IInv => FinalOutcomeTruthful
  BY DEF IInv, RowsInv
<1> QED BY Invariance, <1>1, PTL

(* Every maker of a trade is a published limit order, although the plan    *)
(* that named it is older than the commit that used it.                    *)
THEOREM LiquidityIsPublished == Spec => []MakersPublished
<1>1. Typed /\ IInv => MakersPublished
  BY DEF IInv, RowsInv
<1> QED BY Invariance, <1>1, PTL

(* No trade is between two orders of one user or worse than the taker's    *)
(* limit.                                                                  *)
THEOREM TradesAreWithinLimits == Spec => []TradesRespectLimits
<1>1. Typed /\ IInv => TradesRespectLimits
  BY DEF IInv, RowsInv
<1> QED BY Invariance, <1>1, PTL

(* Fill-or-kill orders fill whole or not at all; published immediate       *)
(* orders are over.                                                        *)
THEOREM ImmediateOrdersEnd == Spec => []ImmediateOrdersNeverRest
<1>1. Typed /\ IInv => ImmediateOrdersNeverRest
  BY DEF IInv, RowsInv
<1> QED BY Invariance, <1>1, PTL

(* A command that has ended keeps its state and its result: the answer of  *)
(* a replay is the first answer.                                           *)
LEMMA EndedCommandsStay ==
    Typed /\ [Next]_vars =>
        \A o \in OrderIds :
            commands[o].state \in {"final", "failed_terminal"} =>
                /\ commands'[o].state = commands[o].state
                /\ commands'[o].result = commands[o].result
<1> SUFFICES ASSUME Typed, [Next]_vars, NEW o \in OrderIds,
                    commands[o].state \in {"final", "failed_terminal"}
             PROVE  commands'[o] = commands[o]
  OBVIOUS
<1>1. ASSUME NEW p \in OrderIds, NEW r \in Requests, Admit(p, r)
      PROVE  commands'[o] = commands[o]
  <2>1. orders[p].status = "none"
    BY <1>1 DEF Admit, Admitted
  <2>2. commands[p].state = "none"
    BY <2>1 DEF Typed, InsertedAsPair
  <2>3. p # o
    BY <2>2
  <2> QED BY <1>1, <2>3 DEF Admit, Typed, TypeOK
<1>2. ASSUME NEW p \in OrderIds, Cancel(p) \/ CancelLockStep(p)
      PROVE  commands'[o] = commands[o]
  BY <1>2, CancelLockEffect DEF Cancel, CancelOver
<1>3. ASSUME NEW w \in Workers, WorkerStep(w) \/ Crash(w) \/ LockLost(w)
      PROVE  commands'[o] = commands[o]
  <2>1. CASE CommitTerminal(w) \/ CommitMatch(w)
    BY <2>1 DEF CommitTerminal, CommitMatch, Return
  <2>2. CASE ~CommitTerminal(w) /\ ~CommitMatch(w)
    BY <1>3, <2>2, QuietSteps DEF QuietEffect
  <2> QED BY <2>1, <2>2
<1>4. CASE UNCHANGED vars
  BY <1>4 DEF vars
<1> QED BY <1>1, <1>2, <1>3, <1>4 DEF Next, CancelLockStep

(* No later worker, however late its lease, rewrites a stored result.      *)
THEOREM OutcomesStay == Spec => OutcomeImmutable
<1>1. Typed /\ IInv /\ [Next]_vars =>
        [\A o \in OrderIds :
            commands[o].state \in {"final", "failed_terminal"} =>
                /\ commands'[o].state = commands[o].state
                /\ commands'[o].result = commands[o].result]_vars
  BY EndedCommandsStay
<1> QED BY Invariance, <1>1, PTL DEF Spec, OutcomeImmutable

===============================================================================

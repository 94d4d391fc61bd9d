---------------------------- MODULE OrderPlacement ----------------------------
(***************************************************************************)
(* The placement route (POST in app/api/orders/route.ts) as a client sees  *)
(* it: calls that carry an idempotency key, answers that may be lost, and  *)
(* retries.  Execution of an admitted command is the business of           *)
(* ExchangeOrders and is here one step that publishes a verdict.  One user *)
(* and one hold asset.                                                     *)
(***************************************************************************)
EXTENDS Integers, FiniteSets, Functions

CONSTANTS
    Calls,        \* HTTP requests a client makes, retries included
    Keys,         \* idempotency keys
    Bodies,       \* requests: a body is the amount it holds before fees
    Balance,      \* the available balance before the first call
    MaxFee        \* bound: how often the market's fee is raised

ASSUME PlacementAssumption ==
    /\ IsFiniteSet(Keys) /\ Keys # {}
    /\ Bodies \subseteq Nat \ {0}
    /\ Balance \in Nat
    /\ MaxFee \in Nat

VARIABLES
    available,    \* wallet_balances.available_balance of the hold asset
    fee,          \* the market's fee, part of a purchase's hold
    command,      \* exchange_order_commands by idempotency key
    admissions,   \* how many orders were created for a key
    call          \* the calls: where each stands and what it was answered

vars == <<available, fee, command, admissions, call>>

NoCommand == [state |-> "none", body |-> 0, hold |-> 0, verdict |-> "none",
              holding |-> FALSE]
NoCall == [at |-> "unsent", key |-> CHOOSE k \in Keys : TRUE, body |-> 0,
           hold |-> 0, answer |-> "none"]

Verdicts == {"accepted", "rejected"}
Errors == {"insufficient_balance", "idempotency_conflict", "queued",
           "order_reconciliation_required", "lost"}

Init ==
    /\ available = Balance
    /\ fee = 0
    /\ command = [k \in Keys |-> NoCommand]
    /\ admissions = [k \in Keys |-> 0]
    /\ call = [c \in Calls |-> NoCall]

Answer(c, answer) ==
    call' = [call EXCEPT ![c].at = "answered", ![c].answer = answer]

Advance(c, at) == call' = [call EXCEPT ![c].at = at]

(* The route up to calculateOrderHold: validation, the market as it is now *)
(* and the hold it gives.                                                  *)
Send(c, k, b) ==
    /\ call[c].at = "unsent"
    /\ call' = [call EXCEPT ![c] = [at |-> "validated", key |-> k, body |-> b,
                                    hold |-> b + fee, answer |-> "none"]]
    /\ UNCHANGED <<available, fee, command, admissions>>

(* getAvailableBalanceAmount: a read of its own, before the admission is   *)
(* looked up.                                                              *)
Precheck(c) ==
    /\ call[c].at = "validated"
    /\ IF available < call[c].hold THEN Answer(c, "insufficient_balance")
                                   ELSE Advance(c, "prechecked")
    /\ UNCHANGED <<available, fee, command, admissions>>

(* Mutant: the hold is taken without looking at the balance.               *)
AlwaysCovered(c) == TRUE

Covered(c) == available >= call[c].hold

(* Mutant: only a command still being executed is found again.             *)
ExistsWhilePending(k) == command[k].state = "pending"

Exists(k) == command[k].state # "none"

(* admitExchangeOrderCommand, serialised by the advisory lock of its key:  *)
(* an existing command is replayed when the request hash (body and hold)   *)
(* agrees, else order, hold and command are created.                       *)
AdmitNew(c) ==
    LET k == call[c].key
    IN  /\ call[c].at = "prechecked"
        /\ ~Exists(k)
        /\ IF ~Covered(c)
           THEN /\ Answer(c, "insufficient_balance")
                /\ UNCHANGED <<available, command, admissions>>
           ELSE /\ available' = available - call[c].hold
                /\ command' = [command EXCEPT ![k] =
                     [state |-> "pending", body |-> call[c].body,
                      hold |-> call[c].hold, verdict |-> "none",
                      holding |-> TRUE]]
                /\ admissions' = [admissions EXCEPT ![k] = @ + 1]
                /\ Advance(c, "admitted")
        /\ UNCHANGED fee

(* Mutant: the request hash is not compared.                               *)
AnyRequest(c) == TRUE

SameRequest(c) ==
    /\ command[call[c].key].body = call[c].body
    /\ command[call[c].key].hold = call[c].hold

AdmitReplay(c) ==
    LET k == call[c].key
    IN  /\ call[c].at = "prechecked"
        /\ Exists(k)
        /\ CASE ~SameRequest(c) -> Answer(c, "idempotency_conflict")
             [] SameRequest(c) /\ command[k].state = "final"
                  -> Answer(c, command[k].verdict)
             [] SameRequest(c) /\ command[k].state = "failed_terminal"
                  -> Answer(c, "order_reconciliation_required")
             [] OTHER -> Advance(c, "admitted")
        /\ UNCHANGED <<available, fee, command, admissions>>

(* A command is executed, by a call or by a recovery lane: final with a    *)
(* verdict (a rejection gives its hold back), or failed_terminal with the  *)
(* hold kept.                                                              *)
Executed(k, verdict) ==
    /\ command[k].state = "pending"
    /\ command' = [command EXCEPT ![k].state = "final", ![k].verdict = verdict,
                                  ![k].holding = (verdict = "accepted")]
    /\ available' = available + IF verdict = "rejected" THEN command[k].hold ELSE 0
    /\ UNCHANGED <<fee, admissions>>

Exhausted(k) ==
    /\ command[k].state = "pending"
    /\ command' = [command EXCEPT ![k].state = "failed_terminal"]
    /\ UNCHANGED <<available, fee, admissions>>

(* processExchangeOrderCommand seen from the route: it executes, or finds  *)
(* the command final, or answers 202 for the recovery lanes to go on.      *)
Process(c) ==
    LET k == call[c].key
    IN  /\ call[c].at = "admitted"
        /\ \/ \E v \in Verdicts : Executed(k, v) /\ Answer(c, v)
           \/ /\ command[k].state = "final"
              /\ Answer(c, command[k].verdict)
              /\ UNCHANGED <<available, fee, command, admissions>>
           \/ /\ Answer(c, "queued")
              /\ UNCHANGED <<available, fee, command, admissions>>

Recover(k) ==
    /\ (\E v \in Verdicts : Executed(k, v)) \/ Exhausted(k)
    /\ UNCHANGED call

(* The answer, or the server, is lost on the way; the client may retry.    *)
Lose(c) ==
    /\ call[c].at \in {"validated", "prechecked", "admitted", "answered"}
    /\ call[c].answer # "lost"
    /\ Answer(c, "lost")
    /\ UNCHANGED <<available, fee, command, admissions>>

(* The owner cancels an accepted order: its hold comes back.               *)
Cancelled(k) ==
    /\ command[k].state = "final" /\ command[k].holding
    /\ command' = [command EXCEPT ![k].holding = FALSE]
    /\ available' = available + command[k].hold
    /\ UNCHANGED <<fee, admissions, call>>

(* An operator raises the market's fee.                                    *)
RaiseFee ==
    /\ fee < MaxFee
    /\ fee' = fee + 1
    /\ UNCHANGED <<available, command, admissions, call>>

Next ==
    \/ \E c \in Calls : \/ \E k \in Keys, b \in Bodies : Send(c, k, b)
                        \/ Precheck(c) \/ AdmitNew(c) \/ AdmitReplay(c)
                        \/ Process(c) \/ Lose(c)
    \/ \E k \in Keys : Recover(k) \/ Cancelled(k)
    \/ RaiseFee

Spec == Init /\ [][Next]_vars
-------------------------------------------------------------------------------
TypeOK ==
    /\ available \in Nat
    /\ fee \in 0..MaxFee
    /\ command \in [Keys -> [state : {"none", "pending", "final", "failed_terminal"},
                             body : Nat, hold : Nat, holding : BOOLEAN,
                             verdict : Verdicts \cup {"none"}]]
    /\ admissions \in [Keys -> Nat]
    /\ call \in [Calls -> [at : {"unsent", "validated", "prechecked", "admitted",
                                 "answered"},
                           key : Keys, body : Nat, hold : Nat,
                           answer : Verdicts \cup Errors \cup {"none"}]]

(* What each command keeps of the balance.                                 *)
Holds == [k \in Keys |-> IF command[k].holding THEN command[k].hold ELSE 0]

(* However calls of one key interleave, one order is created and its hold  *)
(* taken once: what is missing from the balance is what commands hold.     *)
HoldTakenOnce ==
    /\ \A k \in Keys : admissions[k] <= 1
    /\ available + SumFunctionOnSet(Holds, Keys) = Balance

(* A verdict a call is told is the stored verdict of its own request: two  *)
(* calls of a key are never told different verdicts, and none is told of   *)
(* another's order.  Calls may still be refused: see DuplicatesReplay.     *)
VerdictsAreStored ==
    \A c \in Calls :
        call[c].answer \in Verdicts =>
            LET stored == command[call[c].key]
            IN  /\ stored.state = "final"
                /\ stored.verdict = call[c].answer
                /\ stored.body = call[c].body

(* A key reused for a different request never reaches the command: it is   *)
(* answered with a conflict or refused for its balance.                    *)
ReuseNeverExecutes ==
    \A c \in Calls :
        (call[c].at = "admitted" \/ call[c].answer = "queued") =>
            command[call[c].key].body = call[c].body

(* EXCHANGE_ORDER_ADMISSION_AUTHORITY.md: exact duplicate retries replay   *)
(* the committed command.  A call that finds the command of its key there, *)
(* for the same request, is not refused.                                   *)
DuplicatesReplay ==
    [][\A c \in Calls :
          /\ call[c].at \in {"validated", "prechecked"}
          /\ Exists(call[c].key)
          /\ command[call[c].key].body = call[c].body
          => call'[c].answer \notin {"insufficient_balance", "idempotency_conflict"}]_vars
===============================================================================

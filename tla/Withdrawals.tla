----------------------------- MODULE Withdrawals -----------------------------
(***************************************************************************)
(* The request side of withdrawals: authorization, admission with its hold *)
(* on the wallet, the user's cancellation and the operator's decisions,    *)
(* the last two behind API command receipts.  Every operation is one       *)
(* PostgreSQL transaction, so every action here is one step.               *)
(*                                                                         *)
(* The withdrawals are those of one user in one asset: one wallet row.     *)
(***************************************************************************)
EXTENDS Naturals, FiniteSets, FiniteSetsExt

CONSTANTS
    W,           \* requests; the id of a row is a hash of its request
    Amount,      \* what each one withdraws
    UsdValue,    \* its authoritative valuation
    KeyOf,       \* its idempotency key
    DailyLimit,  \* velocity limit in USD; the 24 h window stays open
    Funds,       \* what the wallet holds at the start
    Command      \* cancel and operator commands: [key, action, w]

ASSUME RequestAssumption ==
    /\ IsFiniteSet(W)
    /\ Amount \in [W -> Nat \ {0}]
    /\ UsdValue \in [W -> Nat]
    /\ DailyLimit \in Nat
    /\ Funds \in Nat
    /\ \A c \in Command :
         /\ c.w \in W
         /\ c.action \in {"cancel", "approve", "reject", "block", "flag_review"}

VARIABLES
    state,         \* withdrawals.state; "none" while there is no row
    reserved,      \* withdrawals.funds_reserved_at is set
    cleared,       \* compliance_evidence passes complianceApprovalReady
    authorization, \* the withdrawal_authorizations row of the request
    ledger,        \* types of the wallet_ledger rows of the withdrawal
    available, held,
    receipts       \* completed API command receipts

requestVars == <<state, reserved, cleared, authorization, ledger,
                 available, held, receipts>>

WithdrawalStates ==
    {"none", "compliance_review", "approved", "blocked", "rejected", "cancelled",
     "building_transaction", "broadcasting", "broadcasted", "confirming",
     "completed", "failed", "timeout"}

(* Mutants: a decision is still taken while the transaction is built;      *)
(* or once the withdrawal has failed.                                      *)
ReviewableWhileBuilding == {"pending", "compliance_review", "building_transaction"}
ReviewableAfterFailure == {"pending", "compliance_review", "failed"}

Reviewable == {"pending", "compliance_review"}

RequestTypeOK ==
    /\ state \in [W -> WithdrawalStates]
    /\ reserved \in [W -> BOOLEAN]
    /\ cleared \in [W -> BOOLEAN]
    /\ authorization \in [W -> {"none", "issued", "consumed"}]
    /\ ledger \in [W -> SUBSET {"hold", "release", "withdraw"}]
    /\ available \in Nat
    /\ held \in Nat
    /\ receipts \subseteq Command

RequestInit ==
    /\ state = [w \in W |-> "none"]
    /\ reserved = [w \in W |-> FALSE]
    /\ cleared = [w \in W |-> FALSE]
    /\ authorization = [w \in W |-> "none"]
    /\ ledger = [w \in W |-> {}]
    /\ available = Funds
    /\ held = 0
    /\ receipts = {}

IssueAuthorization(w) ==
    /\ authorization[w] = "none"
    /\ authorization' = [authorization EXCEPT ![w] = "issued"]
    /\ UNCHANGED <<state, reserved, cleared, ledger, available, held, receipts>>

ExpireAuthorization(w) ==
    /\ authorization[w] = "issued"
    /\ authorization' = [authorization EXCEPT ![w] = "none"]
    /\ UNCHANGED <<state, reserved, cleared, ledger, available, held, receipts>>

(* A row already admitted under this idempotency key answers the request:  *)
(* a replay when it is the same request, a conflict when it is another.    *)
KeyTaken(w) == \E v \in W : KeyOf[v] = KeyOf[w] /\ state[v] # "none"

WithinVelocity(w) ==
    MapThenSumSet(LAMBDA v : UsdValue[v],
                  {v \in W : state[v] \notin {"none", "rejected", "blocked", "cancelled"}})
      + UsdValue[w] <= DailyLimit

Reserve(w) ==
    /\ available >= Amount[w]
    /\ available' = available - Amount[w]
    /\ held' = held + Amount[w]
    /\ ledger' = [ledger EXCEPT ![w] = @ \cup {"hold"}]
    /\ reserved' = [reserved EXCEPT ![w] = TRUE]

(* The decision and its evidence were computed before the transaction.     *)
ComplianceDecisions ==
    [state : {"approved"}, cleared : {TRUE}]
      \cup [state : {"compliance_review"}, cleared : BOOLEAN]
      \cup [state : {"blocked"}, cleared : {FALSE}]

Admit(w, decision) ==
    /\ ~KeyTaken(w)
    /\ authorization[w] = "issued"
    /\ authorization' = [authorization EXCEPT ![w] = "consumed"]
    /\ IF decision.state = "blocked"
         THEN UNCHANGED <<ledger, available, held, reserved>>
         ELSE WithinVelocity(w) /\ Reserve(w)
    /\ state' = [state EXCEPT ![w] = decision.state]
    /\ cleared' = [cleared EXCEPT ![w] = decision.cleared]
    /\ UNCHANGED receipts

(* A receipt under the key of a command answers it without running it.     *)
Claimable(c) == \A r \in receipts : r.key # c.key

(* Mutant: the hold is given back and stays held.                          *)
ReleaseKeepingHeld(w) ==
    IF ~reserved[w] \/ "release" \in ledger[w]
      THEN UNCHANGED <<ledger, available, held>>
      ELSE /\ available' = available + Amount[w]
           /\ ledger' = [ledger EXCEPT ![w] = @ \cup {"release"}]
           /\ UNCHANGED held

(* releaseExactWithdrawalTx and releaseReservedFundsTx: nothing when the   *)
(* release is already in the ledger, an error when too little is held.     *)
Release(w) ==
    IF ~reserved[w] \/ "release" \in ledger[w]
      THEN UNCHANGED <<ledger, available, held>>
      ELSE /\ held >= Amount[w]
           /\ held' = held - Amount[w]
           /\ available' = available + Amount[w]
           /\ ledger' = [ledger EXCEPT ![w] = @ \cup {"release"}]

Cancel(c) ==
    /\ c.action = "cancel"
    /\ Claimable(c)
    /\ state[c.w] \in Reviewable
    /\ Release(c.w)
    /\ state' = [state EXCEPT ![c.w] = "cancelled"]
    /\ reserved' = [reserved EXCEPT ![c.w] = FALSE]
    /\ receipts' = receipts \cup {c}
    /\ UNCHANGED <<cleared, authorization>>

(* Mutant: a flag is stored under the name of its action.                  *)
RequestedStateVerbatim(c) ==
    CASE c.action = "approve" -> "approved"
      [] c.action = "reject" -> "rejected"
      [] c.action = "block" -> "blocked"
      [] OTHER -> c.action

RequestedState(c) ==
    CASE c.action = "approve" -> "approved"
      [] c.action = "reject" -> "rejected"
      [] c.action = "block" -> "blocked"
      [] OTHER -> "compliance_review"

(* The withdrawal is already where the operator wants it: receipt only.    *)
AdminRepeat(c) ==
    /\ c.action # "cancel"
    /\ Claimable(c)
    /\ state[c.w] = RequestedState(c)
    /\ receipts' = receipts \cup {c}
    /\ UNCHANGED <<state, reserved, cleared, authorization, ledger, available, held>>

(* A terminal state clears the reservation (a trigger of migration 0031).  *)
AdminDecide(c) ==
    /\ c.action # "cancel"
    /\ Claimable(c)
    /\ state[c.w] # RequestedState(c)
    /\ state[c.w] \in Reviewable
    /\ c.action = "approve" => reserved[c.w] /\ cleared[c.w]
    /\ IF c.action \in {"reject", "block"}
         THEN /\ Release(c.w)
              /\ reserved' = [reserved EXCEPT ![c.w] = FALSE]
         ELSE UNCHANGED <<ledger, available, held, reserved>>
    /\ state' = [state EXCEPT ![c.w] = RequestedState(c)]
    /\ receipts' = receipts \cup {c}
    /\ UNCHANGED <<cleared, authorization>>

(* Retention: an expired receipt is deleted and its key runs again.        *)
PurgeReceipt(c) ==
    /\ c \in receipts
    /\ receipts' = receipts \ {c}
    /\ UNCHANGED <<state, reserved, cleared, authorization, ledger, available, held>>

RequestNext ==
    \/ \E w \in W : IssueAuthorization(w) \/ ExpireAuthorization(w)
    \/ \E w \in W, decision \in ComplianceDecisions : Admit(w, decision)
    \/ \E c \in Command :
         Cancel(c) \/ AdminRepeat(c) \/ AdminDecide(c) \/ PurgeReceipt(c)
==============================================================================

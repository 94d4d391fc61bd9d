-------------------------- MODULE WithdrawalPromise --------------------------
(***************************************************************************)
(* What the custodian promises for one withdrawal, with no worker, lease,  *)
(* attempt, queue or row in sight.                                         *)
(*                                                                         *)
(*   fate    none until the request is admitted; refused when it is        *)
(*           admitted without a hold; held while the user's funds are set  *)
(*           aside; returned or paid once and for all;                     *)
(*   sent    the signed transactions of the withdrawal any node has seen;  *)
(*   landed  the transactions that were included successfully.             *)
(***************************************************************************)
EXTENDS Naturals

CONSTANTS W,    \* the withdrawals
          Gens  \* the generations of a withdrawal's signed transaction

VARIABLES fate, sent, landed

promiseVars == <<fate, sent, landed>>

Init ==
    /\ fate = [w \in W |-> "none"]
    /\ sent = [w \in W |-> {}]
    /\ landed = [w \in W |-> {}]

Decide(w) ==
    /\ fate[w] = "none"
    /\ \E f \in {"held", "refused"} : fate' = [fate EXCEPT ![w] = f]
    /\ UNCHANGED <<sent, landed>>

(* The funds go back only while no transaction of it was ever sent.        *)
Return(w) ==
    /\ fate[w] = "held"
    /\ sent[w] = {}
    /\ fate' = [fate EXCEPT ![w] = "returned"]
    /\ UNCHANGED <<sent, landed>>

(* One transaction per withdrawal, and only for funds that are set aside.  *)
Send(w, g) ==
    /\ fate[w] = "held"
    /\ sent[w] = {}
    /\ sent' = [sent EXCEPT ![w] = {g}]
    /\ UNCHANGED <<fate, landed>>

Land(w) ==
    /\ landed' = [landed EXCEPT ![w] = sent[w]]
    /\ UNCHANGED <<fate, sent>>

(* The hold is consumed only against a transaction that was included.      *)
Pay(w) ==
    /\ fate[w] = "held"
    /\ landed[w] # {}
    /\ fate' = [fate EXCEPT ![w] = "paid"]
    /\ UNCHANGED <<sent, landed>>

Next ==
    \E w \in W :
        \/ Decide(w) \/ Return(w) \/ Land(w) \/ Pay(w)
        \/ \E g \in Gens : Send(w, g)

Spec == Init /\ [][Next]_promiseVars
==============================================================================

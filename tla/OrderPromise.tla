----------------------------- MODULE OrderPromise -----------------------------
(***************************************************************************)
(* What the exchange promises to whoever places an order, with no worker,  *)
(* lease, lock, retry or row in sight.                                     *)
(*                                                                         *)
(*   stage    how far the order's command is from its client's point of    *)
(*            view: pending, published with an answer, or abandoned to     *)
(*            reconciliation;                                              *)
(*   verdict  what the one execution of the order decided;                 *)
(*   answer   the verdict its client has been given, once and for all;     *)
(*   live     whether the order may still trade;                           *)
(*   filled   how much of it has traded.                                   *)
(***************************************************************************)
EXTENDS Naturals, Functions

CONSTANT MaxOrders

OrderIds == 1..MaxOrders

VARIABLES stage, verdict, answer, live, filled

promiseVars == <<stage, verdict, answer, live, filled>>

Init ==
    /\ stage = [o \in OrderIds |-> "none"]
    /\ verdict = [o \in OrderIds |-> "none"]
    /\ answer = [o \in OrderIds |-> "none"]
    /\ live = [o \in OrderIds |-> FALSE]
    /\ filled = [o \in OrderIds |-> 0]

Admit(o) ==
    /\ stage[o] = "none"
    /\ stage' = [stage EXCEPT ![o] = "pending"]
    /\ live' = [live EXCEPT ![o] = TRUE]
    /\ UNCHANGED <<verdict, answer, filled>>

(* Liquidity is what has been published as accepted and is still live.     *)
Liquidity(o) ==
    {m \in OrderIds \ {o} :
        stage[m] = "published" /\ verdict[m] = "accepted" /\ live[m]}

(* The one execution of an order: it trades with liquidity, as much as its *)
(* makers do, and a rejected one trades nothing and is over.  It may still *)
(* come after the command was abandoned, never after it was published.     *)
Execute(o) ==
    /\ stage[o] \in {"pending", "abandoned"}
    /\ verdict[o] = "none"
    /\ \A m \in OrderIds \ ({o} \cup Liquidity(o)) :
         filled'[m] = filled[m] /\ live'[m] = live[m]
    /\ \A m \in Liquidity(o) :
         /\ filled'[m] >= filled[m]
         /\ filled'[m] = filled[m] => live'[m] = live[m]
    /\ filled'[o] = filled[o]
         + SumFunctionOnSet([m \in Liquidity(o) |-> filled'[m] - filled[m]],
                            Liquidity(o))
    /\ \/ verdict' = [verdict EXCEPT ![o] = "accepted"]
       \/ /\ verdict' = [verdict EXCEPT ![o] = "rejected"]
          /\ filled' = filled
          /\ ~live'[o]
    /\ live' \in [OrderIds -> BOOLEAN]
    /\ UNCHANGED <<stage, answer>>

(* The answer is published once there is one, and is the verdict.          *)
Publish(o) ==
    /\ stage[o] = "pending"
    /\ verdict[o] # "none"
    /\ stage' = [stage EXCEPT ![o] = "published"]
    /\ answer' = [answer EXCEPT ![o] = verdict[o]]
    /\ UNCHANGED <<verdict, live, filled>>

Abandon(o) ==
    /\ stage[o] = "pending"
    /\ stage' = [stage EXCEPT ![o] = "abandoned"]
    /\ UNCHANGED <<verdict, answer, live, filled>>

(* The owner takes a published order off the market.                       *)
Close(o) ==
    /\ stage[o] = "published"
    /\ live[o]
    /\ live' = [live EXCEPT ![o] = FALSE]
    /\ UNCHANGED <<stage, verdict, answer, filled>>

Next ==
    \E o \in OrderIds :
        Admit(o) \/ Execute(o) \/ Publish(o) \/ Abandon(o) \/ Close(o)

Spec == Init /\ [][Next]_promiseVars
===============================================================================

---------------------------- MODULE MCWithdrawals ----------------------------
(* Instances of the withdrawals for TLC.                                   *)
EXTENDS WithdrawalExecution, TLC

CONSTANTS w1, w2, k1, k2

MCAmount == w1 :> 2 @@ w2 :> 2
MCKeyOf == w1 :> "key1" @@ w2 :> "key2"
MCOneAmount == w1 :> 1
MCOneKey == w1 :> "key1"

(* The workers are interchangeable. *)
Workers == Permutations(Worker)

MCCommand ==
    {[key |-> "ck", action |-> "cancel", w |-> w1],
     [key |-> "a1", action |-> "flag_review", w |-> w1],
     [key |-> "a2", action |-> "reject", w |-> w1]}

MCFewCommands ==
    {[key |-> "ck", action |-> "cancel", w |-> w1],
     [key |-> "a1", action |-> "approve", w |-> w1],
     [key |-> "a1", action |-> "block", w |-> w2]}
==============================================================================

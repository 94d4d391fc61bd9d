---------------------------- MODULE MCMatchingLoop ----------------------------
(* Instances of MatchingLoop for TLC.                                      *)
EXTENDS MatchingLoop

(* One side of a book: three orders at most, of the taker's user and of    *)
(* another, created one tick apart.  With two ticks to a millisecond the   *)
(* second and the third share their ts.                                    *)
Entry(side, i, id) ==
    [id : {id}, user : {"alice", "bob"}, side : {side}, price : {1, 3},
     remaining : {1, 2}, created : {i}]

(* Ids that follow admission, as OrderBook takes them to.                  *)
OrderedBooks ==
    UNION {{<< >>}
           \cup {<<a>> : a \in Entry(side, 1, 1)}
           \cup {<<a, b>> : a \in Entry(side, 1, 1), b \in Entry(side, 2, 2)}
           \cup {<<a, b, c>> : a \in Entry(side, 1, 1), b \in Entry(side, 2, 2),
                               c \in Entry(side, 3, 3)} :
           side \in {"buy", "sell"}}

Order(side, type, price, qty) ==
    [id |-> 4, user |-> "alice", side |-> side, type |-> type, price |-> price,
     qty |-> qty]

AllTakers ==
    {Order(side, "limit", price, qty) :
        side \in {"buy", "sell"}, price \in {1, 3}, qty \in {1, 3, 5}}
    \cup {Order(side, "market", 0, qty) :
            side \in {"buy", "sell"}, qty \in {1, 3, 5}}
===============================================================================

--------------------------- MODULE MCExchangeOrders ---------------------------
(* Instances of ExchangeOrders for TLC.                                    *)
EXTENDS ExchangeOrders

CONSTANTS w1, w2, alice, bob, carol

TwoWorkers == {w1, w2}
OneWorker == {w1}
Traders == {alice, bob, carol}

Limit(user, side, price, qty) ==
    [user |-> user, side |-> side, type |-> "limit", tif |-> "GTC",
     price |-> price, qty |-> qty, budget |-> 0]

Wallets24 == [u \in Traders |-> [a \in Assets |-> IF a = "base" THEN 2 ELSE 24]]

(* Fees of ten per cent: a limit purchase of 2 at 5 holds 11, and pays     *)
(* 5 and a fee of half a unit, rounded down, for each one.                 *)
Sell  == Limit(alice, "sell", 5, 1)
Sell2 == Limit(carol, "sell", 5, 2)
Buy   == Limit(bob, "buy", 5, 2)
BuyFOK == [Limit(carol, "buy", 5, 2) EXCEPT !.tif = "FOK"]
BuyIOC == [Limit(carol, "buy", 5, 2) EXCEPT !.tif = "IOC"]
BuyMarket(budget) ==
    [Limit(bob, "buy", 0, 2) EXCEPT !.type = "market", !.budget = budget]
SellTyped == [Sell EXCEPT !.type = "gtc"]

(* Two workers over one sale and takers of each kind, the larger of which  *)
(* it fills only in part.                                                  *)
RaceRequests == {Limit(alice, "sell", 5, 2), Limit(bob, "buy", 5, 4), BuyFOK,
                 SellTyped}

(* One worker over what the engine tells apart: sales of two users, a      *)
(* resting purchase, a fill-or-kill one that may meet its own user's sale, *)
(* an immediate one that may fill in part, and a market one that may run   *)
(* over its budget.                                                        *)
BookRequests == {Sell, Sell2, Buy, BuyFOK, BuyIOC, BuyMarket(6)}

LiveRequests == {Sell, BuyFOK}

WorkerSymmetry == Permutations(Workers)
===============================================================================

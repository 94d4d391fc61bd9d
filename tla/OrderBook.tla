------------------------------ MODULE OrderBook ------------------------------
(***************************************************************************)
(* The engine's view of one market and the plan it computes from it:       *)
(* order-book-store.ts (getLevels, getFOKVolume) and computeFills of       *)
(* engine.ts.  A book is a set of entries [id, user, side, price,          *)
(* remaining], one per resting order.  Ids are handed out in admission     *)
(* order, so an entry's id also stands for its created_at.                 *)
(***************************************************************************)
EXTENDS MatchingFinancials, Sequences, SequencesExt

(* The elements of a set from the first to the last: the i-th has i - 1    *)
(* before it.  (SetToSortSeq would do, but the provers cannot expand it.)  *)
Arranged(S, Precedes(_, _)) ==
    [i \in 1..Cardinality(S) |->
        CHOOSE x \in S : Cardinality({y \in S : Precedes(y, x)}) = i - 1]

Opposite(side) == IF side = "buy" THEN "sell" ELSE "buy"

(* crossesLimit: a market order (no limit) crosses every price.            *)
Crosses(taker, price) ==
    \/ taker.type = "market"
    \/ taker.side = "buy"  /\ price <= taker.price
    \/ taker.side = "sell" /\ price >= taker.price

(* Levels best price first, first come first served within a level.        *)
BetterPrice(a, b) ==
    IF a.side = "sell" THEN a.price < b.price ELSE a.price > b.price

Before(a, b) == BetterPrice(a, b) \/ (a.price = b.price /\ a.id < b.id)

Crossing(book, taker) ==
    {e \in book : e.side = Opposite(taker.side) /\ Crosses(taker, e.price)}

(* Mutant: an order may trade with another one of its own user.            *)
CandidatesOfAnyUser(book, id, taker) ==
    {e \in Crossing(book, taker) : e.id # id}

(* computeFills skips the taker's own entry and its user's other orders.   *)
Candidates(book, id, taker) ==
    {e \in Crossing(book, taker) : e.id # id /\ e.user # taker.user}

Quantity(entries) ==
    SumFunctionOnSet([e \in entries |-> e.remaining], entries)

(* The quantity that stands before entry e in its queue.                   *)
Ahead(makers, e) == Quantity({f \in makers : Before(f, e)})

(* computeFills: walking the levels in priority order, every maker gives   *)
(* the lesser of what it has and what the makers before it have left the   *)
(* taker wanting; one that would give nothing is no fill.                  *)
ComputeFills(book, id, taker, want) ==
    LET makers == Candidates(book, id, taker)
        Taken(e) == {Least(e.remaining, want - Ahead(makers, e))}
                        \cap 1..e.remaining
    IN  UNION {{[maker |-> e.id, remaining |-> e.remaining,
                 price |-> e.price, qty |-> q] : q \in Taken(e)} : e \in makers}

(* Fills are settled in the priority of their makers.                      *)
SettledBefore(f, g, makerSide) ==
    Before([id |-> f.maker, side |-> makerSide, price |-> f.price],
           [id |-> g.maker, side |-> makerSide, price |-> g.price])

InPriority(fills, makerSide) ==
    Arranged(fills, LAMBDA f, g : SettledBefore(f, g, makerSide))

LastSettled(fills, makerSide) ==
    CHOOSE f \in fills : \A g \in fills \ {f} : SettledBefore(g, f, makerSide)

(* getFOKVolume counts every crossing entry, the taker's own user's too.   *)
FOKVolume(book, taker) == Quantity(Crossing(book, taker))

(* What the buyer pays for one fill, fee included (buyerQuoteDebit).       *)
BuyerQuoteDebit(fill, makerSide) ==
    LET a == TradeAmounts(fill.qty, fill.price, makerSide)
    IN  a.quoteGross + a.buyerFee

PlannedSpend(fills, makerSide) ==
    SumFunctionOnSet([f \in fills |-> BuyerQuoteDebit(f, makerSide)], fills)

TotalFilled(fills) == SumFunctionOnSet([f \in fills |-> f.qty], fills)

(* The quantity a plan takes from order m; a plan names a maker once.      *)
FillOf(fills, m) ==
    IF \E f \in fills : f.maker = m
    THEN (CHOOSE f \in fills : f.maker = m).qty
    ELSE 0
===============================================================================

----------------------------- MODULE MatchingLoop -----------------------------
(***************************************************************************)
(* The loops behind the operators of OrderBook, step by step: the book     *)
(* filled row by row (rebuildMarketBookFromAuthority, insert), the levels  *)
(* walked by getFOKVolume and the makers walked by computeFills.           *)
(* Everything between the recovery query and the end of computeFills runs  *)
(* without an await, so one market and one taker are all there is.         *)
(***************************************************************************)
EXTENDS OrderBook

CONSTANTS
    Books,        \* answers of the recovery query: sequences of orders rows
    Takers,       \* the orders that are matched
    Millisecond   \* database clock ticks in a millisecond of entry.ts

(* A row of the query.  One with a price or a rest that is not positive is *)
(* refused (order_book_authority_row_invalid).                             *)
Row == [id : Nat, user : STRING, side : {"buy", "sell"}, price : Nat \ {0},
        remaining : Nat \ {0}, created : Nat]

Taker == [id : Nat, user : STRING, side : {"buy", "sell"},
          type : {"limit", "market"}, price : Nat, qty : Nat]

(* ORDER BY created_at, id; the id is the primary key.                     *)
ASSUME LoopAssumption ==
    /\ Millisecond \in Nat \ {0}
    /\ Books \subseteq Seq(Row)
    /\ Takers \subseteq Taker
    /\ \A b \in Books : \A i, j \in DOMAIN b :
          i < j => /\ b[i].id # b[j].id
                   /\ \/ b[i].created < b[j].created
                      \/ b[i].created = b[j].created /\ b[i].id < b[j].id

VARIABLES
    rows,         \* the query's answer
    taker,        \* the order being matched
    unread,       \* the rows not yet inserted
    queues,       \* book.bids and book.asks: a queue per side and price
    phase,        \* build, volume, fills, done or thrown
    level,        \* the level the loop is at
    place,        \* the place in its queue
    volume,       \* getFOKVolume's total
    remaining,    \* what the taker still wants
    records       \* the fills so far

vars == <<rows, taker, unread, queues, phase, level, place, volume, remaining,
          records>>

Init ==
    /\ rows \in Books
    /\ taker \in Takers
    /\ unread = rows
    /\ queues = [k \in {"buy", "sell"} \X {r.price : r \in ToSet(rows)} |-> << >>]
    /\ phase = "build"
    /\ level = 1
    /\ place = 1
    /\ volume = 0
    /\ remaining = taker.qty
    /\ records = << >>

(* entry.ts is the Date of created_at: whole milliseconds.                 *)
Ts(row) == row.created \div Millisecond

(* The sort of a queue in insert.                                          *)
QueueBefore(a, b) == Ts(a) < Ts(b) \/ (Ts(a) = Ts(b) /\ a.id < b.id)

Insert ==
    /\ phase = "build"
    /\ unread # << >>
    /\ LET row == Head(unread)
       IN  queues' = [queues EXCEPT ![<<row.side, row.price>>] =
                        Arranged(ToSet(@) \cup {row}, QueueBefore)]
    /\ unread' = Tail(unread)
    /\ UNCHANGED <<rows, taker, phase, level, place, volume, remaining, records>>

Built ==
    /\ phase = "build"
    /\ unread = << >>
    /\ phase' = "volume"
    /\ UNCHANGED <<rows, taker, unread, queues, level, place, volume, remaining,
                   records>>
-------------------------------------------------------------------------------
MakerPrices == {k[2] : k \in {l \in DOMAIN queues :
                                l[1] = Opposite(taker.side) /\ queues[l] # << >>}}

(* Mutant: both sides are walked from the lowest price.                    *)
LevelsAscending == Arranged(MakerPrices, LAMBDA p, q : p < q)

(* getLevels: bids from the highest price, asks from the lowest.           *)
PriceBefore(p, q) == IF taker.side = "sell" THEN p > q ELSE p < q

Levels == Arranged(MakerPrices, PriceBefore)

(* The loop is at a level its taker reaches.                               *)
AtLevel == level <= Len(Levels) /\ Crosses(taker, Levels[level])

Queue == queues[<<Opposite(taker.side), Levels[level]>>]

(* getFOKVolume: whole levels, up to the first that does not cross.        *)
CountLevel ==
    /\ phase = "volume"
    /\ AtLevel
    /\ volume' = volume + Quantity(ToSet(Queue))
    /\ level' = level + 1
    /\ UNCHANGED <<rows, taker, unread, queues, phase, place, remaining, records>>

Counted ==
    /\ phase = "volume"
    /\ ~AtLevel
    /\ phase' = "fills"
    /\ level' = 1
    /\ UNCHANGED <<rows, taker, unread, queues, place, volume, remaining, records>>
-------------------------------------------------------------------------------
(* computeFills.                                                           *)
Walking == phase = "fills" /\ remaining > 0 /\ AtLevel

NextLevel ==
    /\ Walking
    /\ place > Len(Queue)
    /\ level' = level + 1
    /\ place' = 1
    /\ UNCHANGED <<rows, taker, unread, queues, phase, volume, remaining, records>>

(* makerAllocated, and what the maker has left after it.                   *)
EffectiveRemaining(maker) ==
    maker.remaining
        - SumFunctionOnSet(
              [i \in DOMAIN records |->
                  IF records[i].maker = maker.id THEN records[i].qty ELSE 0],
              DOMAIN records)

(* Mutant: a maker of the taker's own user is filled.                      *)
PassedOwnOrder(maker) == maker.id = taker.id \/ EffectiveRemaining(maker) <= 0

Passed(maker) ==
    \/ maker.id = taker.id
    \/ maker.user = taker.user
    \/ EffectiveRemaining(maker) <= 0

PassMaker ==
    /\ Walking
    /\ place <= Len(Queue)
    /\ Passed(Queue[place])
    /\ place' = place + 1
    /\ UNCHANGED <<rows, taker, unread, queues, phase, level, volume, remaining,
                   records>>

(* A fill, unless calculateExactTradeAmounts throws.                       *)
Fill ==
    /\ Walking
    /\ place <= Len(Queue)
    /\ ~Passed(Queue[place])
    /\ LET maker == Queue[place]
           qty == Least(remaining, EffectiveRemaining(maker))
       IN  IF Settleable(qty, maker.price)
           THEN /\ records' = Append(records,
                     [maker |-> maker.id, remaining |-> maker.remaining,
                      price |-> maker.price, qty |-> qty])
                /\ remaining' = remaining - qty
                /\ place' = place + 1
                /\ UNCHANGED phase
           ELSE /\ phase' = "thrown"
                /\ UNCHANGED <<place, remaining, records>>
    /\ UNCHANGED <<rows, taker, unread, queues, level, volume>>

Stop ==
    /\ phase = "fills"
    /\ ~Walking
    /\ phase' = "done"
    /\ UNCHANGED <<rows, taker, unread, queues, level, place, volume, remaining,
                   records>>

Next ==
    Insert \/ Built \/ CountLevel \/ Counted \/ NextLevel \/ PassMaker \/ Fill \/ Stop

Spec == Init /\ [][Next]_vars
-------------------------------------------------------------------------------
(* The book as OrderBook has it: its entries are the rows, whose created   *)
(* none of its operators reads.                                            *)
Book == ToSet(rows)

Plan == ComputeFills(Book, taker.id, taker, taker.qty)

(* The makers the loop fills, in its order and with its quantities, are    *)
(* those of the one-line definition of ComputeFills, in priority order,    *)
(* and it stops with the taker's rest.                                     *)
LoopComputesFills ==
    phase = "done" =>
        /\ records = InPriority(Plan, Opposite(taker.side))
        /\ remaining = taker.qty - TotalFilled(Plan)

(* The early break of getFOKVolume loses no volume that crosses.           *)
LoopCountsVolume ==
    phase \in {"fills", "done", "thrown"} => volume = FOKVolume(Book, taker)

(* The loop throws exactly when the plan has a fill that is worth nothing: *)
(* one such maker within reach fails the whole match, and no match that    *)
(* gets through trades base for no quote.                                  *)
WorthlessFillThrows ==
    /\ phase = "done" => \A f \in Plan : QuoteGross(f.qty, f.price) > 0
    /\ phase = "thrown" => \E f \in Plan : QuoteGross(f.qty, f.price) = 0
===============================================================================

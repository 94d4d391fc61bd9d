------------------------- MODULE ExchangeFunds_proofs -------------------------
(***************************************************************************)
(* Theorems about the money in ExchangeOrders: what is held is what orders *)
(* have left of their holds, trades make and lose nothing, and fills add   *)
(* up.  The engine settles a plan fill by fill on a private copy of the    *)
(* rows (Settlement); the first part follows one copy through the moves of *)
(* a trade, the second through the whole plan, the third the tables        *)
(* through the steps of the specification.  Two more bound what a purchase *)
(* pays by what was reserved for it, and what an open order holds by what  *)
(* the rest of it may cost.  The last shows that ExchangeOrders implements *)
(* OrderPromise.                                                           *)
(***************************************************************************)
EXTENDS ExchangeOrders_proofs

Copies == [wallet : [Users -> [Assets -> [available : Int, held : Int]]],
           fees : Int, ok : BOOLEAN, hold : [OrderIds -> Int]]

(* What a copy has of an asset, and what it shows held beyond its holds.   *)
HoldsIn(s, u, a) ==
    [o \in OrderIds |->
        IF /\ o \in Admitted
           /\ orders[o].req.user = u
           /\ HoldAsset(orders[o].req) = a
        THEN s.hold[o] ELSE 0]

GapIn(s, u, a) ==
    s.wallet[u][a].held - SumFunctionOnSet(HoldsIn(s, u, a), OrderIds)

OwnedIn(s, a) == [u \in Users |-> s.wallet[u][a].available + s.wallet[u][a].held]

ValueIn(s, a) ==
    SumFunctionOnSet(OwnedIn(s, a), Users) + (IF a = "quote" THEN s.fees ELSE 0)

SameGaps(s, z) == \A u \in Users, a \in Assets : GapIn(z, u, a) = GapIn(s, u, a)

Gains(s, z, asset, amount) ==
    \A a \in Assets : ValueIn(z, a) = ValueIn(s, a) + (IF a = asset THEN amount ELSE 0)

LEMMA FiniteOrders == IsFiniteSet(OrderIds) /\ IsFiniteSet(Users)
<1>1. MaxOrders \in Nat
  BY OrdersAssumption
<1> QED BY <1>1, FS_Interval, OrdersAssumption DEF OrderIds

(* The sums of a copy are integers.                                        *)
LEMMA CopySums ==
    ASSUME NEW s \in Copies, NEW u \in Users, NEW a \in Assets
    PROVE  /\ s.wallet[u][a].held \in Int /\ s.wallet[u][a].available \in Int
           /\ s.fees \in Int
           /\ SumFunctionOnSet(HoldsIn(s, u, a), OrderIds) \in Int
           /\ SumFunctionOnSet(OwnedIn(s, a), Users) \in Int
           /\ GapIn(s, u, a) \in Int /\ ValueIn(s, a) \in Int
<1>1. /\ \A v \in Users, b \in Assets : /\ s.wallet[v][b].held \in Int
                                       /\ s.wallet[v][b].available \in Int
      /\ s.fees \in Int /\ \A o \in OrderIds : s.hold[o] \in Int
  BY DEF Copies
<1>2. SumFunctionOnSet(HoldsIn(s, u, a), OrderIds) \in Int
  <2>1. \A o \in OrderIds : HoldsIn(s, u, a)[o] \in Int
    BY <1>1 DEF HoldsIn
  <2> QED BY <2>1, FiniteOrders, SumInt
<1>3. SumFunctionOnSet(OwnedIn(s, a), Users) \in Int
  <2>1. \A v \in Users : OwnedIn(s, a)[v] \in Int
    BY <1>1 DEF OwnedIn
  <2> QED BY <2>1, FiniteOrders, SumInt
<1> QED BY <1>1, <1>2, <1>3 DEF GapIn, ValueIn

(* One move of one wallet row.                                             *)
LEMMA MoveEffect ==
    ASSUME NEW s \in Copies, NEW user \in Users, NEW asset \in Assets,
           NEW av \in Int, NEW he \in Int, NEW z, z = Move(s, user, asset, av, he)
    PROVE  /\ z \in Copies
           /\ z.hold = s.hold /\ z.fees = s.fees
           /\ \A u \in Users, a \in Assets :
                 z.wallet[u][a].held = s.wallet[u][a].held
                    + (IF u = user /\ a = asset THEN he ELSE 0)
           /\ \A a \in Assets :
                 ValueIn(z, a) = ValueIn(s, a)
                    + (IF a = asset THEN av + he ELSE 0)
<1> DEFINE row == s.wallet[user][asset]
           moved == [available |-> row.available + av, held |-> row.held + he]
           ok == s.ok /\ moved.available >= 0 /\ moved.held >= 0
<1>1. row \in [available : Int, held : Int]
  BY DEF Copies
<1>2. moved \in [available : Int, held : Int]
  <2> HIDE DEF row
  <2> QED BY <1>1
<1>3. z = [s EXCEPT !.wallet[user][asset] = moved, !.ok = ok]
  BY DEF Move
<1> HIDE DEF moved, ok
<1>4. /\ z.wallet = [s.wallet EXCEPT ![user][asset] = moved]
      /\ z.hold = s.hold /\ z.fees = s.fees /\ z.ok = ok
      /\ z = [wallet |-> z.wallet, fees |-> z.fees, ok |-> z.ok, hold |-> z.hold]
  BY <1>3 DEF Copies
<1>5. ok \in BOOLEAN
  BY DEF ok
<1>6. \A u \in Users, a \in Assets :
         z.wallet[u][a] = IF u = user /\ a = asset THEN moved ELSE s.wallet[u][a]
  BY <1>4 DEF Copies
<1>7. z \in Copies
  <2>1. z.wallet \in [Users -> [Assets -> [available : Int, held : Int]]]
    BY <1>2, <1>4 DEF Copies
  <2> QED BY <1>4, <1>5, <2>1 DEF Copies
<1>8. \A u \in Users, a \in Assets :
         z.wallet[u][a].held = s.wallet[u][a].held
            + (IF u = user /\ a = asset THEN he ELSE 0)
  BY <1>6, CopySums DEF moved
<1>9. ASSUME NEW a \in Assets
      PROVE  ValueIn(z, a) = ValueIn(s, a) + (IF a = asset THEN av + he ELSE 0)
  <2> DEFINE f == OwnedIn(s, a)
             g == OwnedIn(z, a)
  <2>1. \A u \in Users : f[u] \in Int /\ g[u] \in Int
    BY <1>7 DEF OwnedIn, Copies
  <2>2. \A u \in Users \ {user} : g[u] = f[u]
    BY <1>6 DEF OwnedIn
  <2>3. g[user] - f[user] = IF a = asset THEN av + he ELSE 0
    <3>1. row.available \in Int /\ row.held \in Int
      BY <1>1
    <3>2. a = asset => z.wallet[user][a] = moved
      BY <1>6
    <3>3. a # asset => z.wallet[user][a] = s.wallet[user][a]
      BY <1>6
    <3>4. moved.available = row.available + av /\ moved.held = row.held + he
      BY DEF moved
    <3>5. /\ g[user] = z.wallet[user][a].available + z.wallet[user][a].held
          /\ f[user] = s.wallet[user][a].available + s.wallet[user][a].held
      BY DEF OwnedIn
    <3>6. CASE a = asset
      <4>1. f[user] = row.available + row.held
        BY <3>5, <3>6
      <4>2. g[user] = moved.available + moved.held
        BY <3>2, <3>5, <3>6
      <4> HIDE DEF row, f, g
      <4> QED BY <3>1, <3>4, <3>6, <4>1, <4>2
    <3>7. CASE a # asset
      BY <2>1, <3>3, <3>5, <3>7
    <3> QED BY <3>6, <3>7
  <2>4. SumFunctionOnSet(g, Users) = SumFunctionOnSet(f, Users) + g[user] - f[user]
    <3>1. IsFiniteSet(Users)
      BY FiniteOrders
    <3>2. ASSUME NEW F, NEW G, \A u \in Users : F[u] \in Int /\ G[u] \in Int,
                 \A u \in Users \ {user} : G[u] = F[u]
          PROVE  SumFunctionOnSet(G, Users) = SumFunctionOnSet(F, Users) + G[user] - F[user]
      BY ONLY <3>1, <3>2, user \in Users, SumChange
    <3> HIDE DEF f, g
    <3> QED BY <2>1, <2>2, <3>2
  <2>5. SumFunctionOnSet(f, Users) \in Int
    BY CopySums
  <2>6. g[user] \in Int /\ f[user] \in Int
    BY <2>1
  <2> HIDE DEF f, g
  <2>7. /\ ValueIn(s, a) = SumFunctionOnSet(f, Users) + (IF a = "quote" THEN s.fees ELSE 0)
        /\ ValueIn(z, a) = SumFunctionOnSet(g, Users) + (IF a = "quote" THEN s.fees ELSE 0)
    BY <1>4 DEF ValueIn, f, g
  <2> QED BY <2>3, <2>4, <2>5, <2>6, <2>7, CopySums
<1> QED BY <1>4, <1>7, <1>8, <1>9

(* A move that leaves held funds alone leaves the gaps.                    *)
LEMMA PaymentEffect ==
    ASSUME NEW s \in Copies, NEW user \in Users, NEW asset \in Assets,
           NEW av \in Int, NEW z, z = Move(s, user, asset, av, 0)
    PROVE  /\ z \in Copies /\ z.hold = s.hold /\ z.fees = s.fees
           /\ SameGaps(s, z)
           /\ Gains(s, z, asset, av)
<1>0. PICK he \in Int : he = 0
  OBVIOUS
<1>1. /\ z \in Copies /\ z.hold = s.hold /\ z.fees = s.fees
      /\ \A u \in Users, a \in Assets :
            z.wallet[u][a].held = s.wallet[u][a].held
               + (IF u = user /\ a = asset THEN he ELSE 0)
      /\ \A a \in Assets :
            ValueIn(z, a) = ValueIn(s, a) + (IF a = asset THEN av + he ELSE 0)
  <2>1. z = Move(s, user, asset, av, he)
    BY <1>0
  <2> QED BY <2>1, MoveEffect
<1>2. \A u \in Users, a \in Assets : z.wallet[u][a].held = s.wallet[u][a].held
  BY <1>0, <1>1, CopySums
<1>3. \A u \in Users, a \in Assets : HoldsIn(z, u, a) = HoldsIn(s, u, a)
  BY <1>1 DEF HoldsIn
<1>4. SameGaps(s, z)
  BY <1>2, <1>3 DEF SameGaps, GapIn
<1>5. Gains(s, z, asset, av)
  BY <1>0, <1>1 DEF Gains
<1> QED BY <1>1, <1>4, <1>5

(* A release frees on the wallet what it takes off the order's hold.       *)
LEMMA ReleaseEffect ==
    ASSUME NEW s \in Copies, NEW o \in Admitted, NEW amount \in Int,
           orders[o].req.user \in Users,
           NEW z, z = Release(s, orders[o].req, o, amount)
    PROVE  /\ z \in Copies /\ z.fees = s.fees
           /\ z.hold = [s.hold EXCEPT ![o] = s.hold[o] - amount]
           /\ SameGaps(s, z)
           /\ \A a \in Assets : ValueIn(z, a) = ValueIn(s, a)
<1> DEFINE r == orders[o].req
           user == r.user
           asset == HoldAsset(r)
           m == Move(s, user, asset, amount, -amount)
<1>1. o \in OrderIds /\ asset \in Assets /\ -amount \in Int
  BY DEF Admitted, HoldAsset, Assets
<1>2. /\ m \in Copies /\ m.hold = s.hold /\ m.fees = s.fees
      /\ \A u \in Users, a \in Assets :
            m.wallet[u][a].held = s.wallet[u][a].held
               + (IF u = user /\ a = asset THEN -amount ELSE 0)
      /\ \A a \in Assets :
            ValueIn(m, a) = ValueIn(s, a) + (IF a = asset THEN amount + (-amount) ELSE 0)
  <2> HIDE DEF asset, m
  <2>1. m = Move(s, user, asset, amount, -amount)
    BY DEF m
  <2> HIDE DEF user, r
  <2> QED BY <1>1, <2>1, MoveEffect DEF user, r
<1>3. z = [m EXCEPT !.hold[o] = m.hold[o] - amount]
  BY DEF Release
<1> HIDE DEF m, asset
<1>4. /\ z.hold = [s.hold EXCEPT ![o] = s.hold[o] - amount]
      /\ z.wallet = m.wallet /\ z.fees = m.fees
      /\ z \in Copies
  <2>1. /\ z.hold = [m.hold EXCEPT ![o] = m.hold[o] - amount]
        /\ z.wallet = m.wallet /\ z.fees = m.fees /\ z.ok = m.ok
        /\ z = [wallet |-> z.wallet, fees |-> z.fees, ok |-> z.ok, hold |-> z.hold]
    BY <1>2, <1>3 DEF Copies
  <2>2. m.hold[o] - amount \in Int
    BY <1>1, <1>2 DEF Copies
  <2>3. z.hold \in [OrderIds -> Int]
    BY <1>2, <2>1, <2>2 DEF Copies
  <2> QED BY <1>2, <2>1, <2>3 DEF Copies
<1>5. \A a \in Assets : ValueIn(z, a) = ValueIn(s, a)
  <2> SUFFICES ASSUME NEW a \in Assets PROVE ValueIn(z, a) = ValueIn(s, a)
    OBVIOUS
  <2>1. ValueIn(z, a) = ValueIn(m, a)
    BY <1>4 DEF ValueIn, OwnedIn
  <2>2. ValueIn(m, a) = ValueIn(s, a) + (IF a = asset THEN amount + (-amount) ELSE 0)
    BY <1>2
  <2>3. \E u : u \in Users
    OBVIOUS
  <2>4. ValueIn(s, a) \in Int
    BY CopySums
  <2> QED BY <2>1, <2>2, <2>4
<1>6. ASSUME NEW u \in Users, NEW a \in Assets PROVE GapIn(z, u, a) = GapIn(s, u, a)
  <2> DEFINE f == HoldsIn(s, u, a)
             g == HoldsIn(z, u, a)
  <2>1. \A p \in OrderIds : f[p] \in Int /\ g[p] \in Int
    BY <1>4 DEF HoldsIn, Copies
  <2>2. \A p \in OrderIds \ {o} : g[p] = f[p]
    BY <1>4 DEF HoldsIn, Copies
  <2>3. g[o] - f[o] = IF u = user /\ a = asset THEN -amount ELSE 0
    <3>1. z.hold[o] = s.hold[o] - amount /\ s.hold[o] \in Int
      BY <1>1, <1>4 DEF Copies
    <3> QED BY <1>1, <3>1 DEF HoldsIn, asset
  <2>4. SumFunctionOnSet(g, OrderIds) = SumFunctionOnSet(f, OrderIds) + g[o] - f[o]
    <3> HIDE DEF f, g
    <3> QED BY <1>1, <2>1, <2>2, FiniteOrders, SumChange
  <2>5. SumFunctionOnSet(f, OrderIds) \in Int /\ s.wallet[u][a].held \in Int
    BY CopySums
  <2>6. g[o] \in Int /\ f[o] \in Int
    BY <1>1, <2>1
  <2>7. z.wallet[u][a].held = s.wallet[u][a].held
            + (IF u = user /\ a = asset THEN -amount ELSE 0)
    BY <1>2, <1>4
  <2> HIDE DEF f, g
  <2>8. /\ GapIn(s, u, a) = s.wallet[u][a].held - SumFunctionOnSet(f, OrderIds)
        /\ GapIn(z, u, a) = z.wallet[u][a].held - SumFunctionOnSet(g, OrderIds)
    BY DEF GapIn, f, g
  <2> QED BY <2>3, <2>4, <2>5, <2>6, <2>7, <2>8
<1> QED BY <1>2, <1>4, <1>5, <1>6 DEF SameGaps

(***************************************************************************)
(* One trade.                                                              *)
(***************************************************************************)
(* Rounding either way stays in the naturals.                              *)
LEMMA Rounding ==
    ASSUME NEW a \in Nat, NEW b \in Nat \ {0}
    PROVE  Floor(a, b) \in Nat /\ Ceiling(a, b) \in Nat
<1>1. a + b - 1 \in Nat
  OBVIOUS
<1>2. \A c \in Nat : c \div b \in Nat
  BY SMT
<1> QED BY <1>1, <1>2 DEF Floor, Ceiling

LEMMA AmountsAreNat ==
    ASSUME NEW qty \in Nat, NEW price \in Nat, NEW makerSide
    PROVE  LET m == TradeAmounts(qty, price, makerSide)
           IN  /\ QuoteGross(qty, price) \in Nat
               /\ m.quantity = qty /\ m.quoteGross = QuoteGross(qty, price)
               /\ m.buyerFee \in Nat /\ m.sellerFee \in Nat
<1>1. QuoteGross(qty, price) \in Nat
  <2>1. qty * price \in Nat
    BY SMT
  <2> QED BY <2>1, Rounding, FinancialsAssumption DEF QuoteGross
<1>2. ASSUME NEW rate \in Nat PROVE FeeOn(QuoteGross(qty, price), rate) \in Nat
  <2> DEFINE gross == QuoteGross(qty, price)
  <2> HIDE DEF gross
  <2>1. gross * rate \in Nat
    BY <1>1 DEF gross
  <2> QED BY <2>1, Rounding, FinancialsAssumption DEF FeeOn, gross
<1>3. BuyerFeeRate(makerSide) \in Nat /\ SellerFeeRate(makerSide) \in Nat
  BY FinancialsAssumption DEF BuyerFeeRate, SellerFeeRate
<1> QED BY <1>1, <1>2, <1>3 DEF TradeAmounts

LEMMA CoveredIsNat ==
    ASSUME NEW basis \in Nat, NEW type
    PROVE  FeeCovered(basis, type) \in Nat
<1> DEFINE rate == IF type = "market" THEN TakerFee ELSE MaximumBuyFeeRate
<1>1. rate \in Nat
  BY FinancialsAssumption DEF MaximumBuyFeeRate, Greatest
<1> HIDE DEF rate
<1>2. basis * (FeeDen + rate) \in Nat
  <2>1. FeeDen + rate \in Nat
    BY <1>1, FinancialsAssumption
  <2> QED BY <2>1, SMT
<1> QED BY <1>2, Rounding, FinancialsAssumption DEF FeeCovered, rate

(* What a fill frees of the hold of an order.                              *)
Freed(r, qty, holdPrice, residual) ==
    IF r.side = "sell" THEN qty
    ELSE MatchedRelease(r, QuoteGross(qty, holdPrice), residual)

LEMMA FreedTypes ==
    ASSUME NEW r, NEW qty \in Nat, NEW holdPrice \in Nat, NEW residual \in Int
    PROVE  /\ Freed(r, qty, holdPrice, residual) \in Int
           /\ \/ Freed(r, qty, holdPrice, residual) \in Nat
              \/ Freed(r, qty, holdPrice, residual) = residual
<1> DEFINE cover == FeeCovered(QuoteGross(qty, holdPrice), r.type)
<1>1. cover \in Nat
  BY AmountsAreNat, CoveredIsNat
<1> HIDE DEF cover
<1> QED BY <1>1 DEF Freed, MatchedRelease, Least, cover

(* The flag that a guarded UPDATE came short is no money.                  *)
LEMMA FlagEffect ==
    ASSUME NEW s \in Copies, NEW flag \in BOOLEAN, NEW z,
           z = [s EXCEPT !.ok = flag]
    PROVE  /\ z \in Copies /\ z.fees = s.fees /\ z.hold = s.hold
           /\ SameGaps(s, z)
           /\ \A a \in Assets : ValueIn(z, a) = ValueIn(s, a)
<1>1. /\ z \in Copies /\ z.fees = s.fees /\ z.hold = s.hold /\ z.wallet = s.wallet
  BY DEF Copies
<1> QED BY <1>1 DEF SameGaps, GapIn, HoldsIn, ValueIn, OwnedIn

LEMMA ReleaseMatchedEffect ==
    ASSUME NEW s \in Copies, NEW o \in Admitted, orders[o].req.user \in Users,
           NEW qty \in Nat, NEW price \in Nat,
           NEW z, z = ReleaseMatched(s, orders[o].req, o, qty, price)
    PROVE  /\ z \in Copies /\ z.fees = s.fees
           /\ z.hold = [s.hold EXCEPT
                          ![o] = s.hold[o] - Freed(orders[o].req, qty, price, s.hold[o])]
           /\ SameGaps(s, z)
           /\ \A a \in Assets : ValueIn(z, a) = ValueIn(s, a)
<1> DEFINE r == orders[o].req
           amount == Freed(r, qty, price, s.hold[o])
           y == Release(s, r, o, amount)
<1>1. s.hold[o] \in Int /\ amount \in Int
  <2>1. s.hold[o] \in Int
    BY DEF Copies, Admitted
  <2> QED BY <2>1, FreedTypes
<1> HIDE DEF amount
<1>2. /\ y \in Copies /\ y.fees = s.fees
      /\ y.hold = [s.hold EXCEPT ![o] = s.hold[o] - amount]
      /\ SameGaps(s, y)
      /\ \A a \in Assets : ValueIn(y, a) = ValueIn(s, a)
  <2> HIDE DEF y
  <2>1. y = Release(s, orders[o].req, o, amount)
    BY DEF y
  <2> QED BY <1>1, <2>1, ReleaseEffect
<1>3. CASE r.side = "sell"
  <2>1. z = y
    BY <1>3 DEF ReleaseMatched, amount, Freed
  <2> QED BY <1>2, <2>1 DEF amount
<1>4. CASE r.side # "sell"
  <2> DEFINE flag == y.ok /\ s.hold[o] > 0
  <2>1. z = [y EXCEPT !.ok = flag]
    BY <1>4 DEF ReleaseMatched, amount, Freed
  <2>2. flag \in BOOLEAN
    OBVIOUS
  <2> HIDE DEF y, flag
  <2>3. /\ z \in Copies /\ z.fees = y.fees /\ z.hold = y.hold
        /\ SameGaps(y, z)
        /\ \A a \in Assets : ValueIn(z, a) = ValueIn(y, a)
    BY <1>2, <2>1, <2>2, FlagEffect
  <2> QED BY <1>2, <2>3 DEF amount, SameGaps
<1> QED BY <1>3, <1>4

(* What a trade between buyer's order b and seller's order a leaves.       *)
Trades(s, b, holdPrice, a, fill, z) ==
    /\ z \in Copies
    /\ z.hold = [s.hold EXCEPT
          ![b] = s.hold[b] - Freed(orders[b].req, fill.qty, holdPrice, s.hold[b]),
          ![a] = s.hold[a] - Freed(orders[a].req, fill.qty, fill.price, s.hold[a])]
    /\ SameGaps(s, z)
    /\ \A c \in Assets : ValueIn(z, c) = ValueIn(s, c)

(* A trade moves base to the buyer and quote to the seller and the fees,   *)
(* and of each asset there is as much as before.                           *)
LEMMA TradeEffect ==
    ASSUME NEW s \in Copies, NEW b \in Admitted, NEW a \in Admitted, a # b,
           orders[b].req.user \in Users, orders[a].req.user \in Users,
           NEW holdPrice \in Nat, NEW fill, fill.qty \in Nat, fill.price \in Nat,
           NEW makerSide, NEW z,
           z = SettleTrade(s, b, orders[b].req, holdPrice, a, orders[a].req, fill,
                           makerSide)
    PROVE  Trades(s, b, holdPrice, a, fill, z)
<1> DEFINE buyer == orders[b].req.user
           seller == orders[a].req.user
           m  == TradeAmounts(fill.qty, fill.price, makerSide)
           s1 == ReleaseMatched(s, orders[b].req, b, fill.qty, holdPrice)
           s2 == Debit(s1, buyer, "quote", m.quoteGross)
           s3 == Credit(s2, buyer, "base", m.quantity)
           s4 == Debit(s3, buyer, "quote", m.buyerFee)
           s5 == ReleaseMatched(s4, orders[a].req, a, fill.qty, fill.price)
           s6 == Debit(s5, seller, "base", m.quantity)
           s7 == Credit(s6, seller, "quote", m.quoteGross)
           s8 == Debit(s7, seller, "quote", m.sellerFee)
<1>1. z = [s8 EXCEPT !.fees = s8.fees + PlatformFeeCredit(m)]
  BY DEF SettleTrade
<1>2. PICK G \in Nat, Q \in Nat, F \in Nat, H \in Nat :
         /\ m.quoteGross = G /\ m.quantity = Q /\ m.buyerFee = F /\ m.sellerFee = H
         /\ PlatformFeeCredit(m) = F + H
  <2>1. /\ m.quoteGross \in Nat /\ m.quantity \in Nat /\ m.buyerFee \in Nat
        /\ m.sellerFee \in Nat
    BY AmountsAreNat
  <2> HIDE DEF m
  <2> QED BY <2>1 DEF PlatformFeeCredit
<1> HIDE DEF m
<1>0. PICK g \in Int, q \in Int, f \in Int, h \in Int :
         g = -G /\ q = -Q /\ f = -F /\ h = -H
  OBVIOUS
<1>3. /\ "quote" \in Assets /\ "base" \in Assets
      /\ a \in OrderIds /\ b \in OrderIds
      /\ Q \in Int /\ G \in Int
      /\ g \in Int /\ q \in Int /\ f \in Int /\ h \in Int
  BY DEF Assets, Admitted
<1>4. /\ s1 \in Copies /\ s1.fees = s.fees
      /\ s1.hold = [s.hold EXCEPT
            ![b] = s.hold[b] - Freed(orders[b].req, fill.qty, holdPrice, s.hold[b])]
      /\ SameGaps(s, s1) /\ \A c \in Assets : ValueIn(s1, c) = ValueIn(s, c)
  <2> SUFFICES ASSUME NEW y, y = s1
               PROVE  /\ y \in Copies /\ y.fees = s.fees
                      /\ y.hold = [s.hold EXCEPT
                            ![b] = s.hold[b] - Freed(orders[b].req, fill.qty, holdPrice, s.hold[b])]
                      /\ SameGaps(s, y) /\ \A c \in Assets : ValueIn(y, c) = ValueIn(s, c)
    OBVIOUS
  <2> QED BY ReleaseMatchedEffect
<1>5. s2 = Move(s1, buyer, "quote", g, 0)
  BY <1>0, <1>2 DEF Debit
<1>6. s3 = Move(s2, buyer, "base", Q, 0)
  BY <1>2 DEF Credit
<1>7. s4 = Move(s3, buyer, "quote", f, 0)
  BY <1>0, <1>2 DEF Debit
<1>8. s6 = Move(s5, seller, "base", q, 0)
  BY <1>0, <1>2 DEF Debit
<1>9. s7 = Move(s6, seller, "quote", G, 0)
  BY <1>2 DEF Credit
<1>10. s8 = Move(s7, seller, "quote", h, 0)
  BY <1>0, <1>2 DEF Debit
<1>11. s5 = ReleaseMatched(s4, orders[a].req, a, fill.qty, fill.price)
  OBVIOUS
<1> HIDE DEF s1, s2, s3, s4, s5, s6, s7, s8, buyer, seller
<1>12. buyer \in Users /\ seller \in Users
  BY DEF buyer, seller
<1>13. /\ s2 \in Copies /\ s2.hold = s1.hold /\ s2.fees = s1.fees /\ SameGaps(s1, s2)
       /\ Gains(s1, s2, "quote", g)
  BY ONLY <1>3, <1>4, <1>5, <1>12, PaymentEffect
<1>14. /\ s3 \in Copies /\ s3.hold = s2.hold /\ s3.fees = s2.fees /\ SameGaps(s2, s3)
       /\ Gains(s2, s3, "base", Q)
  <2>1. s2 \in Copies
    BY <1>13
  <2> QED BY ONLY <1>3, <1>6, <1>12, <2>1, PaymentEffect
<1>15. /\ s4 \in Copies /\ s4.hold = s3.hold /\ s4.fees = s3.fees /\ SameGaps(s3, s4)
       /\ Gains(s3, s4, "quote", f)
  <2>1. s3 \in Copies
    BY <1>14
  <2> QED BY ONLY <1>3, <1>7, <1>12, <2>1, PaymentEffect
<1>16. /\ s5 \in Copies /\ s5.fees = s4.fees
       /\ s5.hold = [s4.hold EXCEPT
             ![a] = s4.hold[a] - Freed(orders[a].req, fill.qty, fill.price, s4.hold[a])]
       /\ SameGaps(s4, s5) /\ \A c \in Assets : ValueIn(s5, c) = ValueIn(s4, c)
  BY <1>11, <1>15, ReleaseMatchedEffect
<1>17. /\ s6 \in Copies /\ s6.hold = s5.hold /\ s6.fees = s5.fees /\ SameGaps(s5, s6)
       /\ Gains(s5, s6, "base", q)
  BY ONLY <1>3, <1>8, <1>12, <1>16, PaymentEffect
<1>18. /\ s7 \in Copies /\ s7.hold = s6.hold /\ s7.fees = s6.fees /\ SameGaps(s6, s7)
       /\ Gains(s6, s7, "quote", G)
  <2>1. s6 \in Copies
    BY <1>17
  <2> QED BY ONLY <1>3, <1>9, <1>12, <2>1, PaymentEffect
<1>19. /\ s8 \in Copies /\ s8.hold = s7.hold /\ s8.fees = s7.fees /\ SameGaps(s7, s8)
       /\ Gains(s7, s8, "quote", h)
  <2>1. s7 \in Copies
    BY <1>18
  <2> QED BY ONLY <1>3, <1>10, <1>12, <2>1, PaymentEffect
<1>20. /\ z \in Copies /\ z.hold = s8.hold /\ z.wallet = s8.wallet
       /\ z.fees = s8.fees + (F + H)
  <2>1. s8.fees \in Int /\ s8.fees + (F + H) \in Int
    BY <1>19 DEF Copies
  <2> QED BY <1>1, <1>2, <1>19, <2>1 DEF Copies
<1>21. SameGaps(s8, z)
  BY <1>20 DEF SameGaps, GapIn, HoldsIn
<1>22. SameGaps(s, z)
  BY <1>4, <1>13, <1>14, <1>15, <1>16, <1>17, <1>18, <1>19, <1>21 DEF SameGaps
<1>23. z.hold = [s.hold EXCEPT
          ![b] = s.hold[b] - Freed(orders[b].req, fill.qty, holdPrice, s.hold[b]),
          ![a] = s.hold[a] - Freed(orders[a].req, fill.qty, fill.price, s.hold[a])]
  <2>1. s4.hold[a] = s.hold[a]
    BY <1>3, <1>4, <1>13, <1>14, <1>15 DEF Copies
  <2> QED BY <1>3, <1>4, <1>13, <1>14, <1>15, <1>16, <1>17, <1>18, <1>19, <1>20, <2>1
<1>24. ASSUME NEW c \in Assets PROVE ValueIn(z, c) = ValueIn(s, c)
  <2>1. ValueIn(z, c) = ValueIn(s8, c) + (IF c = "quote" THEN F + H ELSE 0)
    <3>1. /\ ValueIn(s8, c) = SumFunctionOnSet(OwnedIn(s8, c), Users)
                                + (IF c = "quote" THEN s8.fees ELSE 0)
          /\ ValueIn(z, c) = SumFunctionOnSet(OwnedIn(s8, c), Users)
                                + (IF c = "quote" THEN s8.fees + (F + H) ELSE 0)
      BY <1>20 DEF ValueIn, OwnedIn
    <3>2. SumFunctionOnSet(OwnedIn(s8, c), Users) \in Int /\ s8.fees \in Int
      <4>1. \E u : u \in Users
        BY <1>12
      <4> QED BY <1>19, <4>1, CopySums
    <3> QED BY <3>1, <3>2
  <2>2. ValueIn(s, c) \in Int /\ ValueIn(s1, c) \in Int /\ ValueIn(s8, c) \in Int
    <3>1. \E u : u \in Users
      BY <1>12
    <3> QED BY <1>4, <1>19, <3>1, CopySums
  <2>3. /\ ValueIn(s1, c) = ValueIn(s, c)
        /\ ValueIn(s2, c) = ValueIn(s1, c) + (IF c = "quote" THEN -G ELSE 0)
        /\ ValueIn(s3, c) = ValueIn(s2, c) + (IF c = "base" THEN Q ELSE 0)
        /\ ValueIn(s4, c) = ValueIn(s3, c) + (IF c = "quote" THEN -F ELSE 0)
        /\ ValueIn(s5, c) = ValueIn(s4, c)
        /\ ValueIn(s6, c) = ValueIn(s5, c) + (IF c = "base" THEN -Q ELSE 0)
        /\ ValueIn(s7, c) = ValueIn(s6, c) + (IF c = "quote" THEN G ELSE 0)
        /\ ValueIn(s8, c) = ValueIn(s7, c) + (IF c = "quote" THEN -H ELSE 0)
    BY <1>0, <1>4, <1>13, <1>14, <1>15, <1>16, <1>17, <1>18, <1>19
        DEF Gains
  <2>4. CASE c = "quote"
    BY <2>1, <2>2, <2>3, <2>4
  <2>5. CASE c = "base"
    BY <2>1, <2>2, <2>3, <2>5
  <2> QED BY <2>4, <2>5 DEF Assets
<1> QED BY <1>20, <1>22, <1>23, <1>24 DEF Trades

(***************************************************************************)
(* One turn of the fill loop.                                              *)
(***************************************************************************)
TakerHoldPrice(t, f) ==
    IF orders[t].req.side = "buy" /\ orders[t].req.type # "market"
    THEN orders[t].req.price ELSE f.price

MakerHoldPrice(t, f) ==
    IF orders[t].req.side = "buy" THEN f.price ELSE orders[f.maker].req.price

FreedOfTaker(t, f, residual) ==
    Freed(orders[t].req, f.qty, TakerHoldPrice(t, f), residual)

FreedOfMaker(t, f, residual) ==
    IF f.qty = orders[f.maker].remaining THEN residual
    ELSE Freed(orders[f.maker].req, f.qty, MakerHoldPrice(t, f), residual)

(* The fills a taker may have: each of another admitted order.             *)
Settles(t, fills) ==
    /\ t \in Admitted
    /\ fills \subseteq Fills /\ IsFiniteSet(fills)
    /\ \A f \in fills : f.maker \in Admitted /\ f.maker # t
    /\ \A f, g \in fills : f.maker = g.maker => f = g

LEMMA SettleFillEffect ==
    ASSUME TypeOK, NEW s \in Copies, NEW t \in Admitted, NEW f \in Fills,
           f.maker \in Admitted, f.maker # t,
           NEW z, z = SettleFill(s, orders, t, f)
    PROVE  /\ z \in Copies
           /\ z.hold = [s.hold EXCEPT
                 ![t] = s.hold[t] - FreedOfTaker(t, f, s.hold[t]),
                 ![f.maker] = s.hold[f.maker] - FreedOfMaker(t, f, s.hold[f.maker])]
           /\ SameGaps(s, z)
           /\ \A c \in Assets : ValueIn(z, c) = ValueIn(s, c)
<1> DEFINE m == f.maker
           taker == orders[t].req
           maker == orders[m].req
           price == IF taker.type = "market" THEN f.price ELSE taker.price
           traded1 == IF taker.side = "buy"
                      THEN SettleTrade(s, t, taker, price, m, maker, f, maker.side)
                      ELSE SettleTrade(s, m, maker, maker.price, t, taker, f, maker.side)
           offT == Freed(taker, f.qty, TakerHoldPrice(t, f), s.hold[t])
           offM == Freed(maker, f.qty, MakerHoldPrice(t, f), s.hold[m])
<1>1. /\ t \in OrderIds /\ m \in OrderIds /\ m # t
      /\ taker.user \in Users /\ maker.user \in Users
      /\ taker.price \in Nat /\ maker.price \in Nat
      /\ f.qty \in Nat /\ f.price \in Nat
  <2>1. t \in OrderIds /\ m \in OrderIds
    BY DEF Admitted
  <2>2. taker \in RequestType /\ maker \in RequestType
    BY <2>1, OrderTypes
  <2> QED BY <2>1, <2>2 DEF RequestType, Fills
<1>2. z = IF f.qty = orders[m].remaining THEN ReleaseResidual(traded1, maker, m)
                                         ELSE traded1
  BY DEF SettleFill
<1>3. ASSUME NEW y, y = traded1
      PROVE  /\ y \in Copies
             /\ y.hold = [s.hold EXCEPT ![t] = s.hold[t] - offT,
                                        ![m] = s.hold[m] - offM]
             /\ SameGaps(s, y)
             /\ \A c \in Assets : ValueIn(y, c) = ValueIn(s, c)
  <2>1. CASE taker.side = "buy"
    <3>1. y = SettleTrade(s, t, taker, price, m, maker, f, maker.side)
      BY <1>3, <2>1
    <3>2. price \in Nat /\ price = TakerHoldPrice(t, f) /\ f.price = MakerHoldPrice(t, f)
      BY <1>1, <2>1 DEF TakerHoldPrice, MakerHoldPrice
    <3>3. /\ y \in Copies
          /\ y.hold = [s.hold EXCEPT
                ![t] = s.hold[t] - Freed(taker, f.qty, price, s.hold[t]),
                ![m] = s.hold[m] - Freed(maker, f.qty, f.price, s.hold[m])]
          /\ SameGaps(s, y)
          /\ \A c \in Assets : ValueIn(y, c) = ValueIn(s, c)
      <4>1. /\ m \in Admitted /\ orders[t].req.user \in Users
            /\ orders[m].req.user \in Users /\ price \in Nat
            /\ f.qty \in Nat /\ f.price \in Nat /\ t # m
        BY <1>1, <3>2
      <4>2. y = SettleTrade(s, t, orders[t].req, price, m, orders[m].req, f, maker.side)
        BY <3>1
      <4> HIDE DEF price, m
      <4>3. Trades(s, t, price, m, f, y)
        BY <4>1, <4>2, TradeEffect
      <4> QED BY <4>3 DEF Trades, m
    <3> QED BY <3>2, <3>3
  <2>2. CASE taker.side # "buy"
    <3>1. y = SettleTrade(s, m, maker, maker.price, t, taker, f, maker.side)
      BY <1>3, <2>2
    <3>2. f.price = TakerHoldPrice(t, f) /\ maker.price = MakerHoldPrice(t, f)
      BY <1>1, <2>2 DEF TakerHoldPrice, MakerHoldPrice
    <3>3. /\ y \in Copies
          /\ y.hold = [s.hold EXCEPT
                ![m] = s.hold[m] - Freed(maker, f.qty, maker.price, s.hold[m]),
                ![t] = s.hold[t] - Freed(taker, f.qty, f.price, s.hold[t])]
          /\ SameGaps(s, y)
          /\ \A c \in Assets : ValueIn(y, c) = ValueIn(s, c)
      <4>1. /\ m \in Admitted /\ orders[t].req.user \in Users
            /\ orders[m].req.user \in Users /\ maker.price \in Nat
            /\ f.qty \in Nat /\ f.price \in Nat /\ t # m
        BY <1>1
      <4>2. y = SettleTrade(s, m, orders[m].req, maker.price, t, orders[t].req, f,
                            maker.side)
        BY <3>1
      <4> HIDE DEF m
      <4>3. Trades(s, m, maker.price, t, f, y)
        BY <4>1, <4>2, TradeEffect
      <4> QED BY <4>3 DEF Trades
    <3>4. y.hold = [s.hold EXCEPT
                ![t] = s.hold[t] - Freed(taker, f.qty, f.price, s.hold[t]),
                ![m] = s.hold[m] - Freed(maker, f.qty, maker.price, s.hold[m])]
      BY <1>1, <3>3 DEF Copies
    <3> QED BY <3>2, <3>3, <3>4
  <2> QED BY <2>1, <2>2
<1>4. offT = FreedOfTaker(t, f, s.hold[t])
  BY DEF FreedOfTaker
<1>5. CASE f.qty # orders[m].remaining
  <2>1. z = traded1
    BY <1>2, <1>5
  <2>2. offM = FreedOfMaker(t, f, s.hold[m])
    BY <1>5 DEF FreedOfMaker
  <2> HIDE DEF traded1, offT, offM
  <2> QED BY <1>3, <1>4, <2>1, <2>2
<1>6. CASE f.qty = orders[m].remaining
  <2>1. PICK y : y = traded1
    OBVIOUS
  <2> HIDE DEF traded1
  <2>2. /\ y \in Copies
        /\ y.hold = [s.hold EXCEPT ![t] = s.hold[t] - offT, ![m] = s.hold[m] - offM]
        /\ SameGaps(s, y)
        /\ \A c \in Assets : ValueIn(y, c) = ValueIn(s, c)
    BY <1>3, <2>1
  <2>3. z = Release(y, orders[m].req, m, y.hold[m])
    BY <1>2, <1>6, <2>1 DEF ReleaseResidual
  <2>4. y.hold[m] \in Int
    BY <1>1, <2>2 DEF Copies
  <2>5. /\ z \in Copies
        /\ z.hold = [y.hold EXCEPT ![m] = y.hold[m] - y.hold[m]]
        /\ SameGaps(y, z)
        /\ \A c \in Assets : ValueIn(z, c) = ValueIn(y, c)
    <3>1. m \in Admitted /\ orders[m].req.user \in Users
      BY <1>1
    <3> HIDE DEF m
    <3> QED BY <2>2, <2>3, <2>4, <3>1, ReleaseEffect
  <2>6. s.hold[m] \in Int /\ FreedOfMaker(t, f, s.hold[m]) = s.hold[m]
    BY <1>1, <1>6 DEF Copies, FreedOfMaker
  <2>7. y.hold[m] - y.hold[m] = s.hold[m] - FreedOfMaker(t, f, s.hold[m])
    BY <2>4, <2>6
  <2>8. z.hold = [s.hold EXCEPT
                 ![t] = s.hold[t] - FreedOfTaker(t, f, s.hold[t]),
                 ![m] = s.hold[m] - FreedOfMaker(t, f, s.hold[m])]
    <3> HIDE DEF offT, offM, m
    <3> QED BY <1>1, <1>4, <2>2, <2>5, <2>7 DEF Copies
  <2> QED BY <2>2, <2>5, <2>8 DEF SameGaps
<1> QED BY <1>5, <1>6
(***************************************************************************)
(* The whole plan.                                                         *)
(***************************************************************************)
LastOf(t, F) == LastSettled(F, Opposite(orders[t].req.side))

(* Of the fills of a plan one is settled last: the priority of their       *)
(* makers is a total order.                                                *)
LEMMA LastIsOne ==
    ASSUME NEW t, NEW F, F # {}, Settles(t, F)
    PROVE  LastOf(t, F) \in F
<1> DEFINE side == Opposite(orders[t].req.side)
           Earlier(f, g) == SettledBefore(f, g, side)
<1>1. \A f \in F : f.maker \in Int /\ f.price \in Int
  BY OrdersAssumption DEF Settles, Fills, OrderIds
<1>2. \A f, g \in F : f # g => Earlier(f, g) \/ Earlier(g, f)
  <2> SUFFICES ASSUME NEW f \in F, NEW g \in F, f # g
               PROVE  Earlier(f, g) \/ Earlier(g, f)
    OBVIOUS
  <2>1. f.maker # g.maker
    BY DEF Settles
  <2> HIDE DEF side
  <2> QED BY <1>1, <2>1 DEF SettledBefore, Before, BetterPrice
<1>3. \A f, g, h \in F : Earlier(f, g) /\ Earlier(g, h) => Earlier(f, h)
  <2> HIDE DEF side
  <2> QED BY <1>1 DEF SettledBefore, Before, BetterPrice
<1> HIDE DEF Earlier
<1> DEFINE HasLast(U) == \E f \in U : \A g \in U \ {f} : Earlier(g, f)
<1>4. HasLast(F)
  <2> DEFINE B == {U \in SUBSET F : U # {} /\ ~HasLast(U)}
  <2>1. SUFFICES ASSUME B # {} PROVE FALSE
    OBVIOUS
  <2>2. \A U \in B : IsFiniteSet(U)
    BY FS_Subset DEF Settles
  <2>3. PICK U \in B : \A x \in U : U \ {x} \notin B
    BY <2>1, <2>2, SmallestSet
  <2>4. PICK x \in U : TRUE
    OBVIOUS
  <2>5. U \ {x} # {}
    <3>1. SUFFICES ASSUME U \ {x} = {} PROVE HasLast(U)
      BY <2>3
    <3> QED BY <2>4, <3>1
  <2>6. HasLast(U \ {x})
    BY <2>3, <2>4, <2>5
  <2>7. PICK l \in U \ {x} : \A g \in (U \ {x}) \ {l} : Earlier(g, l)
    BY <2>6
  <2>8. CASE Earlier(x, l)
    <3>1. \A g \in U \ {l} : Earlier(g, l)
      BY <2>7, <2>8
    <3> QED BY <2>3, <2>7, <3>1
  <2>9. CASE Earlier(l, x)
    <3>1. \A g \in U \ {x} : Earlier(g, x)
      BY <1>3, <2>3, <2>4, <2>7, <2>9
    <3> QED BY <2>3, <2>4, <3>1
  <2> QED BY <1>2, <2>3, <2>4, <2>7, <2>8, <2>9
<1> QED BY <1>4 DEF LastOf, LastSettled, Earlier

(* The recursion behind SettleFills over the subsets of the plan in D.     *)
IsSettling(g, s, t, D) ==
    g = [F \in D |-> IF F = {} THEN s
                     ELSE SettleFill(g[F \ {LastOf(t, F)}], orders, t, LastOf(t, F))]

LEMMA SettlingIsIter ==
    ASSUME NEW s, NEW t, NEW fills
    PROVE  SettleFills(s, orders, t, fills)
             = (CHOOSE g : IsSettling(g, s, t, SUBSET fills))[fills]
BY DEF SettleFills, MapThenFoldSet, IsSettling, LastOf

LEMMA SettlingExists ==
    ASSUME NEW s, NEW t, NEW fills, Settles(t, fills)
    PROVE  \E g : IsSettling(g, s, t, SUBSET fills)
<1> DEFINE D(n) == {F \in SUBSET fills : Cardinality(F) <= n}
           Bad == {n \in Nat : ~\E g : IsSettling(g, s, t, D(n))}
<1>1. \A F \in SUBSET fills :
         /\ IsFiniteSet(F) /\ Cardinality(F) \in Nat
         /\ Cardinality(F) <= Cardinality(fills)
         /\ F # {} => LastOf(t, F) \in F
  <2>1. \A F \in SUBSET fills : Settles(t, F)
    BY FS_Subset DEF Settles
  <2>2. IsFiniteSet(fills)
    BY DEF Settles
  <2> QED BY <2>1, <2>2, FS_Subset, FS_CardinalityType, LastIsOne
<1>2. Bad = {}
  <2>1. SUFFICES ASSUME Bad # {} PROVE FALSE
    OBVIOUS
  <2>2. PICK n \in Bad : \A m \in Bad : n <= m
    BY <2>1, LeastNatural
  <2>3. n # 0
    <3>1. D(0) = {{}}
      BY <1>1, FS_EmptySet
    <3>2. IsSettling([F \in D(0) |-> s], s, t, D(0))
      BY <3>1 DEF IsSettling
    <3> QED BY <3>2
  <2>4. n \in Nat /\ n - 1 \in Nat /\ n - 1 \notin Bad
    <3>1. n \in Nat /\ n - 1 \in Nat
      BY <2>3
    <3>2. ~(n <= n - 1)
      BY <3>1
    <3> HIDE DEF Bad
    <3> QED BY <2>2, <3>1, <3>2
  <2>5. PICK g : IsSettling(g, s, t, D(n - 1))
    BY <2>4
  <2> DEFINE h == [F \in D(n) |->
                     IF F = {} THEN s
                     ELSE SettleFill(g[F \ {LastOf(t, F)}], orders, t, LastOf(t, F))]
  <2>6. ASSUME NEW F \in D(n - 1) PROVE h[F] = g[F]
    <3>1. F \in D(n)
      BY <1>1, <2>4
    <3>2. g[F] = IF F = {} THEN s
                 ELSE SettleFill(g[F \ {LastOf(t, F)}], orders, t, LastOf(t, F))
      BY <2>5 DEF IsSettling
    <3> QED BY <3>1, <3>2
  <2>7. ASSUME NEW F \in D(n), F # {}
        PROVE  h[F \ {LastOf(t, F)}] = g[F \ {LastOf(t, F)}]
    <3>1. LastOf(t, F) \in F
      BY <1>1, <2>7
    <3>2. Cardinality(F \ {LastOf(t, F)}) = Cardinality(F) - 1
      BY <1>1, <3>1, FS_RemoveElement
    <3>3. F \ {LastOf(t, F)} \in D(n - 1)
      BY <1>1, <2>4, <3>2
    <3> QED BY <2>6, <3>3
  <2>8. IsSettling(h, s, t, D(n))
    BY <2>7 DEF IsSettling
  <2> QED BY <2>8, <2>4
<1>3. Cardinality(fills) \in Nat /\ D(Cardinality(fills)) = SUBSET fills
  BY <1>1
<1>4. Cardinality(fills) \notin Bad
  BY <1>2
<1>5. \E g : IsSettling(g, s, t, D(Cardinality(fills)))
  BY <1>3, <1>4
<1> QED BY <1>3, <1>5

LEMMA SettlingOfIter ==
    ASSUME NEW s, NEW t, NEW fills, Settles(t, fills)
    PROVE  \E g : /\ IsSettling(g, s, t, SUBSET fills)
                  /\ SettleFills(s, orders, t, fills) = g[fills]
<1>1. IsSettling(CHOOSE g : IsSettling(g, s, t, SUBSET fills), s, t, SUBSET fills)
  BY SettlingExists
<1> QED BY <1>1, SettlingIsIter

(* What settling the fills F for taker t leaves of a copy: each wallet's   *)
(* gap and the value of each asset, the holds of the orders that take no   *)
(* part, and nobody's hold above what it was.                              *)
Settled(s, t, F, z) ==
    /\ z \in Copies
    /\ SameGaps(s, z)
    /\ \A a \in Assets : ValueIn(z, a) = ValueIn(s, a)
    /\ \A o \in OrderIds :
          /\ z.hold[o] <= s.hold[o]
          /\ (o # t /\ \A f \in F : f.maker # o) => z.hold[o] = s.hold[o]

LEMMA FreedNeverAdds ==
    ASSUME NEW amount \in Int, NEW hold \in Int, NEW was \in Nat, hold <= was,
           amount \in Nat \/ amount = hold
    PROVE  hold - amount <= was
OBVIOUS

LEMMA SettlingEffect ==
    ASSUME TypeOK, NEW s \in Copies, \A o \in OrderIds : s.hold[o] \in Nat,
           NEW t \in Admitted, NEW fills, Settles(t, fills),
           NEW g, IsSettling(g, s, t, SUBSET fills)
    PROVE  \A F \in SUBSET fills : Settled(s, t, F, g[F])
<1>1. IsSettling(g, s, t, SUBSET fills)
  OBVIOUS
<1> DEFINE B == {F \in SUBSET fills : ~Settled(s, t, F, g[F])}
<1>2. SUFFICES ASSUME B # {} PROVE FALSE
  OBVIOUS
<1>3. \A F \in SUBSET fills : IsFiniteSet(F) /\ Settles(t, F)
  BY FS_Subset DEF Settles
<1>4. PICK F \in B : \A x \in F : F \ {x} \notin B
  BY <1>2, <1>3, SmallestSet
<1>5. F \in SUBSET fills /\ ~Settled(s, t, F, g[F])
  BY <1>4
<1>6. F # {}
  <2>1. SUFFICES ASSUME F = {} PROVE Settled(s, t, F, g[F])
    BY <1>5
  <2>2. g[F] = s
    BY <1>1, <1>5, <2>1 DEF IsSettling
  <2> QED BY <2>2 DEF Settled, SameGaps
<1> DEFINE f == LastOf(t, F)
           y == g[F \ {f}]
<1>7. f \in F
  BY <1>3, <1>5, <1>6, LastIsOne
<1>8. g[F] = SettleFill(y, orders, t, f)
  BY <1>1, <1>5, <1>6 DEF IsSettling
<1>9. Settled(s, t, F \ {f}, y)
  BY <1>4, <1>5, <1>7
<1>10. PICK z : z = g[F]
  OBVIOUS
<1> HIDE DEF f, y, B
<1>11. /\ f \in Fills /\ f.maker \in Admitted /\ f.maker # t
       /\ y \in Copies
  BY <1>5, <1>7, <1>9 DEF Settles, Settled
<1>12. /\ z \in Copies
       /\ z.hold = [y.hold EXCEPT
             ![t] = y.hold[t] - FreedOfTaker(t, f, y.hold[t]),
             ![f.maker] = y.hold[f.maker] - FreedOfMaker(t, f, y.hold[f.maker])]
       /\ SameGaps(y, z)
       /\ \A c \in Assets : ValueIn(z, c) = ValueIn(y, c)
  <2>1. z = SettleFill(y, orders, t, f)
    BY <1>8, <1>10
  <2> QED BY <1>11, <2>1, SettleFillEffect
<1>13. ASSUME NEW o \in OrderIds
       PROVE  /\ z.hold[o] <= s.hold[o]
              /\ (o # t /\ \A e \in F : e.maker # o) => z.hold[o] = s.hold[o]
  <2>1. /\ y.hold[o] <= s.hold[o] /\ y.hold[o] \in Int /\ s.hold[o] \in Nat
        /\ (o # t /\ \A e \in F : e.maker # o) => y.hold[o] = s.hold[o]
    BY <1>9 DEF Settled, Copies
  <2>2. CASE o = t
    <3> DEFINE amount == FreedOfTaker(t, f, y.hold[t])
    <3>1. amount \in Int /\ (amount \in Nat \/ amount = y.hold[t])
      <4>1. f.qty \in Nat /\ TakerHoldPrice(t, f) \in Nat
        BY <1>11, <2>2, OrderTypes DEF TakerHoldPrice, Fills, RequestType
      <4> QED BY <2>1, <2>2, <4>1, FreedTypes DEF FreedOfTaker
    <3>2. z.hold[o] = y.hold[o] - amount
      BY <1>11, <1>12, <2>2 DEF Copies
    <3> HIDE DEF amount
    <3> QED BY <2>1, <2>2, <3>1, <3>2, FreedNeverAdds
  <2>3. CASE o = f.maker
    <3> DEFINE amount == FreedOfMaker(t, f, y.hold[o])
    <3>1. amount \in Int /\ (amount \in Nat \/ amount = y.hold[o])
      <4>1. f.qty \in Nat /\ MakerHoldPrice(t, f) \in Nat
        BY <1>11, <2>3, OrderTypes DEF MakerHoldPrice, Fills, RequestType
      <4> QED BY <2>1, <4>1, FreedTypes DEF FreedOfMaker
    <3>2. z.hold[o] = y.hold[o] - amount
      BY <1>11, <1>12, <2>3 DEF Copies
    <3>3. \E e \in F : e.maker = o
      BY <1>7, <2>3
    <3> HIDE DEF amount
    <3> QED BY <2>1, <3>1, <3>2, <3>3, FreedNeverAdds
  <2>4. CASE o # t /\ o # f.maker
    <3>1. z.hold[o] = y.hold[o]
      BY <1>11, <1>12, <2>4 DEF Copies
    <3> QED BY <2>1, <3>1
  <2> QED BY <2>2, <2>3, <2>4
<1>14. Settled(s, t, F, z)
  BY <1>9, <1>12, <1>13 DEF Settled, SameGaps
<1> QED BY <1>5, <1>10, <1>14

LEMMA SettleFillsEffect ==
    ASSUME TypeOK, NEW s \in Copies, \A o \in OrderIds : s.hold[o] \in Nat,
           NEW t \in Admitted, NEW fills, Settles(t, fills)
    PROVE  Settled(s, t, fills, SettleFills(s, orders, t, fills))
<1>1. PICK g : /\ IsSettling(g, s, t, SUBSET fills)
               /\ SettleFills(s, orders, t, fills) = g[fills]
  BY SettlingOfIter
<1>2. fills \in SUBSET fills
  OBVIOUS
<1> QED BY <1>1, <1>2, SettlingEffect
(***************************************************************************)
(* A plan names a maker once.                                              *)
(***************************************************************************)
NamesMakersOnce(fills) == \A f, g \in fills : f.maker = g.maker => f = g

PlansNameMakersOnce ==
    \A w \in Workers : pc[w] = "planned" => NamesMakersOnce(plan[w].fills)

(* The rebuilt book has one entry per order, and an entry at most one      *)
(* fill.                                                                   *)
LEMMA ComputedOnce ==
    ASSUME NEW t, NEW r, NEW want
    PROVE  NamesMakersOnce(ComputeFills(RebuiltBook, t, r, want))
<1> DEFINE makers == Candidates(RebuiltBook, t, r)
           Taken(e) == {Least(e.remaining, want - Ahead(makers, e))} \cap 1..e.remaining
           fills == UNION {{[maker |-> e.id, remaining |-> e.remaining,
                             price |-> e.price, qty |-> q] : q \in Taken(e)} : e \in makers}
<1>1. \A e, d \in RebuiltBook : e.id = d.id => e = d
  BY DEF RebuiltBook
<1>2. makers \subseteq RebuiltBook
  BY DEF Candidates, Crossing
<1>3. \A f \in fills : \E e \in makers : \E q \in Taken(e) :
         f = [maker |-> e.id, remaining |-> e.remaining, price |-> e.price, qty |-> q]
  OBVIOUS
<1>4. \A e \in makers : \A p, q \in Taken(e) : p = q
  OBVIOUS
<1> HIDE DEF makers, Taken
<1>5. NamesMakersOnce(fills)
  <2> SUFFICES ASSUME NEW f \in fills, NEW g \in fills, f.maker = g.maker
               PROVE  f = g
    BY DEF NamesMakersOnce
  <2>1. PICK e \in makers : \E q \in Taken(e) :
           f = [maker |-> e.id, remaining |-> e.remaining, price |-> e.price, qty |-> q]
    BY <1>3
  <2>2. PICK d \in makers : \E q \in Taken(d) :
           g = [maker |-> d.id, remaining |-> d.remaining, price |-> d.price, qty |-> q]
    BY <1>3
  <2>3. e = d
    BY <1>1, <1>2, <2>1, <2>2
  <2> HIDE DEF fills
  <2> QED BY <1>4, <2>1, <2>2, <2>3
<1>6. ComputeFills(RebuiltBook, t, r, want) = fills
  BY DEF ComputeFills, makers, Taken
<1> QED BY <1>5, <1>6

LEMMA PlannedOnce ==
    ASSUME NEW t, NEW want
    PROVE  NamesMakersOnce(PlannedFills(t, want))
BY PlannedAreComputed, ComputedOnce DEF NamesMakersOnce

LEMMA NextPlansOnce ==
    ASSUME Typed, IInv, PlansNameMakersOnce, [Next]_vars
    PROVE  PlansNameMakersOnce'
<1>1. PlansKept
  BY NextKeeps
<1> SUFFICES ASSUME NEW v \in Workers, pc'[v] = "planned"
             PROVE  NamesMakersOnce(plan'[v].fills)
  BY DEF PlansNameMakersOnce, NamesMakersOnce
<1>2. CASE Plan(v)
  <2> DEFINE fills == PlannedFills(job[v], seen[v])
  <2>1. plan'[v].fills = fills
    BY <1>2 DEF Plan, Typed, TypeOK
  <2>2. NamesMakersOnce(fills)
    BY PlannedOnce
  <2> QED BY <2>1, <2>2
<1>3. CASE pc[v] = "planned" /\ plan'[v] = plan[v]
  BY <1>3 DEF PlansNameMakersOnce
<1> QED BY <1>1, <1>2, <1>3 DEF PlansKept

(* So a plan is finite.                                                    *)
LEMMA OnceIsFinite ==
    ASSUME NEW fills, fills \subseteq Fills, NamesMakersOnce(fills)
    PROVE  IsFiniteSet(fills)
<1> DEFINE makers == [f \in fills |-> f.maker]
<1>1. makers \in [fills -> OrderIds]
  BY DEF Fills
<1>2. \A f, g \in fills : f # g => makers[f] # makers[g]
  BY DEF NamesMakersOnce
<1>3. makers \in Injection(fills, OrderIds)
  BY <1>1, <1>2 DEF Injection, IsInjective
<1> QED BY <1>3, FiniteOrders, FS_Injection

(* The fills of a plan that passes validateLockedOrders.                   *)
LEMMA ValidatedSettles ==
    ASSUME Typed, IInv, PlansNameMakersOnce, NEW w \in Workers, CommitMatch(w)
    PROVE  Settles(job[w], plan[w].fills)
<1> DEFINE t == job[w]
           fills == plan[w].fills
<1>1. t \in OrderIds /\ orders[t].status = "NEW" /\ pc[w] = "planned"
  BY DEF CommitMatch, Validated, Typed, TypeOK
<1>2. fills \subseteq Fills /\ NamesMakersOnce(fills)
  BY <1>1 DEF Typed, TypeOK, Plans, PlansNameMakersOnce
<1>3. ASSUME NEW f \in fills PROVE f.maker \in Admitted /\ f.maker # t
  <2>1. f.maker \in OrderIds /\ orders[f.maker].status \in Open
    BY <1>2 DEF Fills, CommitMatch, Validated
  <2>2. orders[f.maker].req.user # orders[t].req.user
    BY <1>1 DEF IInv, PlansStand, PlanStands
  <2> QED BY <2>1, <2>2 DEF Admitted, Open
<1>4. IsFiniteSet(fills)
  BY <1>2, OnceIsFinite
<1> QED BY <1>1, <1>2, <1>3, <1>4 DEF Settles, NamesMakersOnce, Admitted

(***************************************************************************)
(* The tables.                                                             *)
(***************************************************************************)
LEMMA RowsAreACopy ==
    ASSUME Typed
    PROVE  /\ Rows \in Copies /\ Rows.wallet = wallet /\ Rows.fees = fees
           /\ \A o \in OrderIds : Rows.hold[o] = orders[o].hold /\ Rows.hold[o] \in Nat
<1>1. /\ Rows.wallet = wallet /\ Rows.fees = fees /\ Rows.ok = TRUE
      /\ Rows.hold = [o \in OrderIds |-> orders[o].hold]
  BY DEF Rows
<1>2. wallet \in [Users -> [Assets -> [available : Int, held : Int]]]
  BY DEF Typed, TypeOK, Wallets
<1>3. \A o \in OrderIds : orders[o].hold \in Nat
  BY OrderTypes DEF Typed
<1> QED BY <1>1, <1>2, <1>3 DEF Copies, Rows, Typed, TypeOK

(* The two invariants in terms of a copy.                                  *)
LEMMA TablesAsCopy ==
    ASSUME Typed
    PROVE  /\ HeldEqualsResiduals <=>
                 \A u \in Users, a \in Assets : GapIn(Rows, u, a) = 0
           /\ ValueConserved <=>
                 \A a \in Assets : ValueIn(Rows, a)
                                     = SumFunctionOnSet(Deposited(a), Users)
<1>1. \A u \in Users, a \in Assets : HoldsIn(Rows, u, a) = HoldsOn(u, a)
  BY DEF HoldsIn, HoldsOn, Rows
<1>2. \A a \in Assets : OwnedIn(Rows, a) = Owned(a)
  BY DEF OwnedIn, Owned, Rows
<1>3. ASSUME NEW u \in Users, NEW a \in Assets
      PROVE  GapIn(Rows, u, a) = 0
                <=> wallet[u][a].held = SumFunctionOnSet(HoldsOn(u, a), OrderIds)
  <2>1. /\ Rows.wallet[u][a].held \in Int
        /\ SumFunctionOnSet(HoldsIn(Rows, u, a), OrderIds) \in Int
    BY RowsAreACopy, CopySums
  <2> QED BY <1>1, <2>1, RowsAreACopy DEF GapIn
<1>4. \A a \in Assets : ValueIn(Rows, a)
         = SumFunctionOnSet(Owned(a), Users) + (IF a = "quote" THEN fees ELSE 0)
  BY <1>2, RowsAreACopy DEF ValueIn
<1> QED BY <1>3, <1>4 DEF HeldEqualsResiduals, ValueConserved

(* What a transaction writes back from its copy.                           *)
WrittenBack(s) ==
    /\ wallet' = s.wallet /\ fees' = s.fees
    /\ \A o \in OrderIds : /\ orders'[o].hold = s.hold[o]
                           /\ orders'[o].req = orders[o].req
    /\ Admitted' = Admitted

LEMMA WriteBackKeeps ==
    ASSUME Typed, Typed', HeldEqualsResiduals, ValueConserved,
           NEW s \in Copies, SameGaps(Rows, s),
           \A a \in Assets : ValueIn(s, a) = ValueIn(Rows, a), WrittenBack(s)
    PROVE  HeldEqualsResiduals' /\ ValueConserved'
<1>1. ASSUME NEW u \in Users, NEW a \in Assets
      PROVE  wallet'[u][a].held = SumFunctionOnSet(HoldsOn(u, a)', OrderIds)
  <2>1. HoldsOn(u, a)' = HoldsIn(s, u, a)
    <3>1. ASSUME NEW o \in OrderIds
          PROVE  /\ o \in Admitted' <=> o \in Admitted
                 /\ orders'[o].hold = s.hold[o]
                 /\ orders'[o].req = orders[o].req
      BY DEF WrittenBack
    <3> QED BY <3>1 DEF HoldsOn, HoldsIn
  <2>2. GapIn(s, u, a) = 0
    BY TablesAsCopy DEF SameGaps
  <2>3. s.wallet[u][a].held \in Int /\ SumFunctionOnSet(HoldsIn(s, u, a), OrderIds) \in Int
    BY CopySums
  <2>4. wallet'[u][a].held = s.wallet[u][a].held
    BY DEF WrittenBack
  <2> QED BY <2>1, <2>2, <2>3, <2>4 DEF GapIn
<1>2. ASSUME NEW a \in Assets
      PROVE  SumFunctionOnSet(Owned(a)', Users) + (IF a = "quote" THEN fees' ELSE 0)
                = SumFunctionOnSet(Deposited(a), Users)
  <2>1. Owned(a)' = OwnedIn(s, a)
    BY DEF Owned, OwnedIn, WrittenBack
  <2>2. ValueIn(s, a) = SumFunctionOnSet(Deposited(a), Users)
    BY TablesAsCopy
  <2> QED BY <2>1, <2>2 DEF ValueIn, WrittenBack
<1> QED BY <1>1, <1>2 DEF HeldEqualsResiduals, ValueConserved, Deposited
(* A transaction that works on a copy, writes it back and adds to no hold. *)
Balanced(s) ==
    /\ s \in Copies
    /\ SameGaps(Rows, s)
    /\ \A a \in Assets : ValueIn(s, a) = ValueIn(Rows, a)
    /\ \A o \in OrderIds : s.hold[o] <= orders[o].hold
    /\ WrittenBack(s)

LEMMA ResidualEffect ==
    ASSUME TypeOK, NEW s \in Copies, NEW o \in Admitted,
           NEW z, z = ReleaseResidual(s, orders[o].req, o)
    PROVE  /\ z \in Copies /\ z.fees = s.fees
           /\ z.hold = [s.hold EXCEPT ![o] = 0]
           /\ SameGaps(s, z)
           /\ \A a \in Assets : ValueIn(z, a) = ValueIn(s, a)
<1> DEFINE amount == s.hold[o]
<1>1. o \in OrderIds /\ amount \in Int /\ orders[o].req.user \in Users
  BY OrderTypes DEF Admitted, Copies, RequestType
<1>2. z = Release(s, orders[o].req, o, amount)
  BY DEF ReleaseResidual
<1> HIDE DEF amount
<1>3. /\ z \in Copies /\ z.fees = s.fees
      /\ z.hold = [s.hold EXCEPT ![o] = s.hold[o] - amount]
      /\ SameGaps(s, z)
      /\ \A a \in Assets : ValueIn(z, a) = ValueIn(s, a)
  BY <1>1, <1>2, ReleaseEffect
<1>4. s.hold[o] - amount = 0
  BY <1>1 DEF amount
<1> QED BY <1>3, <1>4

(* An admission reserves on the wallet what its order holds.               *)
LEMMA AdmitFunds ==
    ASSUME Typed, Typed', HeldEqualsResiduals, ValueConserved,
           NEW o \in OrderIds, NEW r \in Requests, Admit(o, r)
    PROVE  HeldEqualsResiduals' /\ ValueConserved'
<1> DEFINE hold == OrderHold(r)
           asset == HoldAsset(r)
           now == wallet[r.user][asset]
<1>1. /\ hold \in Nat /\ r.user \in Users /\ asset \in Assets
      /\ now.available \in Nat /\ now.held \in Nat
  <2>1. r.user \in Users /\ asset \in Assets
    BY OrdersAssumption DEF RequestType, HoldAsset, Assets
  <2>2. wallet \in Wallets
    BY DEF Typed, TypeOK
  <2>3. wallet[r.user][asset] \in [available : Nat, held : Nat]
    <3> HIDE DEF asset
    <3> QED BY ONLY <2>1, <2>2 DEF Wallets
  <2> QED BY <2>1, <2>3, HoldIsNat
<1>2. /\ orders[o].status = "none" /\ orders'[o].status = "NEW"
      /\ orders'[o].req = r /\ orders'[o].hold = hold
      /\ \A p \in OrderIds \ {o} : orders'[p] = orders[p]
      /\ fees' = fees
  BY DEF Admit, Admitted, Typed, TypeOK
<1>3. wallet' = [wallet EXCEPT ![r.user][asset] =
                   [available |-> now.available - hold, held |-> now.held + hold]]
  BY DEF Admit
<1> HIDE DEF hold, asset, now
<1>4. ASSUME NEW u \in Users, NEW a \in Assets
      PROVE  wallet'[u][a] = IF u = r.user /\ a = asset
                             THEN [available |-> now.available - hold,
                                   held |-> now.held + hold]
                             ELSE wallet[u][a]
  BY <1>1, <1>3 DEF Typed, TypeOK, Wallets
<1>5. ASSUME NEW u \in Users, NEW a \in Assets
      PROVE  wallet'[u][a].held = SumFunctionOnSet(HoldsOn(u, a)', OrderIds)
  <2> DEFINE f == HoldsOn(u, a)
             g == HoldsOn(u, a)'
             more == IF u = r.user /\ a = asset THEN hold ELSE 0
  <2>1. g[o] = more /\ f[o] = 0
    BY <1>2 DEF HoldsOn, Admitted, asset
  <2>2. \A p \in OrderIds \ {o} : g[p] = f[p]
    BY <1>2 DEF HoldsOn, Admitted
  <2>3. \A p \in OrderIds : f[p] \in Int /\ g[p] \in Int
    <3>1. \A p \in OrderIds : orders[p].hold \in Int
      BY RowsAreACopy
    <3>2. orders'[o].hold \in Int
      BY <1>1, <1>2
    <3>3. \A p \in OrderIds : orders'[p].hold \in Int
      BY <1>2, <3>1, <3>2
    <3> QED BY <3>1, <3>3 DEF HoldsOn
  <2> HIDE DEF f, g
  <2>4. SumFunctionOnSet(g, OrderIds) = SumFunctionOnSet(f, OrderIds) + g[o] - f[o]
    BY <2>2, <2>3, FiniteOrders, SumChange
  <2>5. wallet[u][a].held = SumFunctionOnSet(f, OrderIds)
    BY DEF HeldEqualsResiduals, f
  <2>6. wallet'[u][a].held = wallet[u][a].held + more
    <3>1. wallet[u][a].held \in Nat
      BY DEF Typed, TypeOK, Wallets
    <3> QED BY <1>1, <1>4, <3>1 DEF now
  <2>7. SumFunctionOnSet(f, OrderIds) \in Int /\ more \in Int
    BY <1>1, <2>3, FiniteOrders, SumInt
  <2> QED BY <2>1, <2>4, <2>5, <2>6, <2>7 DEF g
<1>6. ASSUME NEW a \in Assets PROVE Owned(a)' = Owned(a)
  <2>1. ASSUME NEW u \in Users
        PROVE  wallet'[u][a].available + wallet'[u][a].held
                 = wallet[u][a].available + wallet[u][a].held
    <3>1. CASE u = r.user /\ a = asset
      <4>1. wallet'[u][a].available = now.available - hold
        BY <1>4, <3>1
      <4>2. wallet'[u][a].held = now.held + hold
        BY <1>4, <3>1
      <4>3. wallet[u][a] = now
        BY <3>1 DEF now
      <4> QED BY <1>1, <4>1, <4>2, <4>3
    <3>2. CASE ~(u = r.user /\ a = asset)
      BY <1>4, <3>2
    <3> QED BY <3>1, <3>2
  <2> QED BY <2>1 DEF Owned
<1>7. ValueConserved'
  BY <1>2, <1>6 DEF ValueConserved, Deposited
<1> QED BY <1>5, <1>7 DEF HeldEqualsResiduals

LEMMA CancelFunds ==
    ASSUME Typed, NEW o \in OrderIds, Cancel(o)
    PROVE  Balanced(ReleaseResidual(Rows, orders[o].req, o))
<1>1. PICK s : s = ReleaseResidual(Rows, orders[o].req, o)
  OBVIOUS
<1>2. o \in Admitted /\ orders[o].status \in Open
  BY DEF Cancel, Cancellable, Admitted, Open
<1>3. /\ s \in Copies /\ s.fees = Rows.fees
      /\ s.hold = [Rows.hold EXCEPT ![o] = 0]
      /\ SameGaps(Rows, s)
      /\ \A a \in Assets : ValueIn(s, a) = ValueIn(Rows, a)
  BY <1>1, <1>2, RowsAreACopy, ResidualEffect DEF Typed
<1>4. /\ orders' = [orders EXCEPT ![o] =
                      [orders[o] EXCEPT !.status = "CANCELLED", !.hold = s.hold[o]]]
      /\ wallet' = s.wallet /\ fees' = fees
  BY <1>1 DEF Cancel, CancelOver
<1>5. /\ orders'[o].status = "CANCELLED" /\ orders'[o].hold = s.hold[o]
      /\ orders'[o].req = orders[o].req
      /\ \A p \in OrderIds \ {o} : orders'[p] = orders[p]
  BY <1>4, OrderTypes DEF Typed, TypeOK, OrderRows
<1>6. \A p \in OrderIds \ {o} : s.hold[p] = orders[p].hold
  BY <1>3, RowsAreACopy DEF Copies
<1>7. \A p \in OrderIds : s.hold[p] <= orders[p].hold
  <2>1. s.hold[o] = 0 /\ orders[o].hold \in Nat
    BY <1>3, RowsAreACopy DEF Copies
  <2>2. \A p \in OrderIds : orders[p].hold \in Nat
    BY RowsAreACopy
  <2> QED BY <1>6, <2>1, <2>2
<1>8. WrittenBack(s)
  BY <1>2, <1>3, <1>4, <1>5, <1>6, RowsAreACopy DEF WrittenBack, Admitted
<1> QED BY <1>1, <1>3, <1>7, <1>8 DEF Balanced

LEMMA CommitTerminalFunds ==
    ASSUME Typed, IInv, NEW w \in Workers, CommitTerminal(w)
    PROVE  Balanced(ReleaseResidual(Rows, orders[job[w]].req, job[w]))
<1> DEFINE t == job[w]
<1>1. PICK s : s = ReleaseResidual(Rows, orders[t].req, t)
  OBVIOUS
<1>2. t \in OrderIds /\ t \in Admitted
  <2>1. t \in OrderIds /\ commands[t].state # "none"
    BY DEF CommitTerminal, Typed, TypeOK, IInv, JobsAdmitted
  <2> QED BY <2>1 DEF Typed, InsertedAsPair, Admitted
<1>3. /\ s \in Copies /\ s.fees = Rows.fees
      /\ s.hold = [Rows.hold EXCEPT ![t] = 0]
      /\ SameGaps(Rows, s)
      /\ \A a \in Assets : ValueIn(s, a) = ValueIn(Rows, a)
  <2> HIDE DEF t
  <2> QED BY <1>1, <1>2, RowsAreACopy, ResidualEffect DEF Typed
<1>4. PICK status :
        /\ orders' = [orders EXCEPT ![t] =
                        [orders[t] EXCEPT !.status = status, !.hold = s.hold[t]]]
        /\ wallet' = s.wallet /\ fees' = fees
        /\ status # "none"
  BY <1>1, <1>2 DEF CommitTerminal, Admitted
<1>5. /\ orders'[t].status # "none" /\ orders'[t].hold = s.hold[t]
      /\ orders'[t].req = orders[t].req
      /\ \A p \in OrderIds \ {t} : orders'[p] = orders[p]
  BY <1>2, <1>4, OrderTypes DEF Typed, TypeOK, OrderRows
<1>6. \A p \in OrderIds \ {t} : s.hold[p] = orders[p].hold
  BY <1>3, RowsAreACopy DEF Copies
<1>7. \A p \in OrderIds : s.hold[p] <= orders[p].hold
  <2>1. s.hold[t] = 0 /\ orders[t].hold \in Nat
    BY <1>2, <1>3, RowsAreACopy DEF Copies
  <2>2. \A p \in OrderIds : orders[p].hold \in Nat
    BY RowsAreACopy
  <2> QED BY <1>6, <2>1, <2>2
<1>8. WrittenBack(s)
  BY <1>2, <1>3, <1>4, <1>5, <1>6, RowsAreACopy DEF WrittenBack, Admitted
<1> QED BY <1>1, <1>3, <1>7, <1>8 DEF Balanced

(* The plan's fills are settled on the copy, a taker that is over gets the *)
(* rest of its hold back, and the rows written are those of the copy.      *)
LEMMA CommitMatchFunds ==
    ASSUME Typed, IInv, PlansNameMakersOnce, NEW w \in Workers, CommitMatch(w)
    PROVE  Balanced(MatchedRows(job[w], seen[w], plan[w].fills))
<1> DEFINE t == job[w]
           fills == plan[w].fills
           over == TakerStatus(orders[t].req, seen[w], TotalFilled(fills)) \in Terminal
<1>1. PICK y : y = SettleFills(Rows, orders, t, fills)
  OBVIOUS
<1>2. PICK s : s = MatchedRows(t, seen[w], fills)
  OBVIOUS
<1>3. s = IF over THEN ReleaseResidual(y, orders[t].req, t) ELSE y
  BY <1>1, <1>2 DEF MatchedRows
<1>4. Settles(t, fills)
  BY ValidatedSettles
<1>5. t \in OrderIds /\ t \in Admitted
  BY <1>4 DEF Settles, Admitted
<1>6. Settled(Rows, t, fills, y)
  <2> HIDE DEF t, fills
  <2> QED BY <1>1, <1>4, <1>5, RowsAreACopy, SettleFillsEffect DEF Typed
<1>7. \A f \in fills : f.qty \in 1..orders[f.maker].remaining
  BY DEF CommitMatch, Validated
<1>8. /\ orders' = MatchedOrders(t, seen[w], fills, s.hold)
      /\ wallet' = s.wallet /\ fees' = s.fees
  BY <1>2 DEF CommitMatch
<1>9. TakerStatus(orders[t].req, seen[w], TotalFilled(fills)) # "none"
  <2> DEFINE total == TotalFilled(fills)
  <2> HIDE DEF total
  <2> QED BY Zenon DEF TakerStatus
<1>10. Settled(Rows, t, fills, s)
  <2> HIDE DEF t, fills
  <2>1. CASE ~over
    BY <1>3, <1>6, <2>1
  <2>2. CASE over
    <3>1. /\ s \in Copies /\ s.hold = [y.hold EXCEPT ![t] = 0]
          /\ SameGaps(y, s) /\ \A a \in Assets : ValueIn(s, a) = ValueIn(y, a)
      <4>1. s = ReleaseResidual(y, orders[t].req, t) /\ y \in Copies
        BY <1>3, <1>6, <2>2 DEF Settled
      <4> QED BY <1>5, <4>1, ResidualEffect DEF Typed
    <3>2. ASSUME NEW o \in OrderIds
          PROVE  /\ s.hold[o] <= Rows.hold[o]
                 /\ (o # t /\ \A f \in fills : f.maker # o) => s.hold[o] = Rows.hold[o]
      <4>1. /\ y.hold[o] <= Rows.hold[o]
            /\ (o # t /\ \A f \in fills : f.maker # o) => y.hold[o] = Rows.hold[o]
            /\ y \in Copies
        BY <1>6 DEF Settled
      <4>2. Rows.hold[o] \in Nat
        BY RowsAreACopy
      <4>3. s.hold[o] = IF o = t THEN 0 ELSE y.hold[o]
        BY <3>1, <4>1 DEF Copies
      <4> QED BY <4>1, <4>2, <4>3
    <3> QED BY <1>6, <3>1, <3>2 DEF Settled, SameGaps
  <2> QED BY <2>1, <2>2
<1>11. ASSUME NEW o \in OrderIds
       PROVE  /\ orders'[o].hold = s.hold[o] /\ orders'[o].req = orders[o].req
              /\ orders'[o].status = "none" <=> orders[o].status = "none"
  <2> DEFINE qty == FillOf(fills, o)
             total == TotalFilled(fills)
  <2>1. CASE o = t
    <3>1. orders'[o] = ApplyFill(orders[o], total,
                                 TakerStatus(orders[o].req, seen[w], total), s.hold[o])
      BY <1>8, <2>1 DEF MatchedOrders
    <3> HIDE DEF total
    <3>2. /\ orders'[o].hold = s.hold[o] /\ orders'[o].req = orders[o].req
          /\ orders'[o].status = TakerStatus(orders[o].req, seen[w], total)
      BY <3>1, OrderTypes DEF ApplyFill, OrderRows, Typed
    <3> QED BY <1>5, <1>9, <2>1, <3>2 DEF Admitted, total
  <2>2. CASE o # t /\ qty > 0
    <3>1. orders'[o] = ApplyFill(orders[o], qty, MakerStatus(o, qty), s.hold[o])
      BY <1>8, <2>2 DEF MatchedOrders
    <3>2. PICK f \in fills : f.maker = o
      <4>1. qty # 0
        BY <2>2
      <4> QED BY <4>1, FillOfPlanned
    <3>3. orders[o].status # "none"
      BY <1>4, <3>2 DEF Settles, Admitted
    <3> HIDE DEF qty
    <3> QED BY <3>1, <3>3, OrderTypes DEF ApplyFill, OrderRows, Typed, MakerStatus
  <2>3. CASE o # t /\ ~(qty > 0)
    <3>1. orders'[o] = orders[o]
      BY <1>8, <2>3 DEF MatchedOrders
    <3>2. \A f \in fills : f.maker # o
      <4> SUFFICES ASSUME NEW f \in fills, f.maker = o PROVE FALSE
        OBVIOUS
      <4>1. PICK e \in fills : e.maker = o /\ qty = e.qty
        BY DEF FillOf
      <4>2. e.qty \in 1..orders[o].remaining /\ orders[o].remaining \in Nat
        BY <1>7, <4>1, OrderTypes DEF Typed
      <4> QED BY <2>3, <4>1, <4>2
    <3>3. s.hold[o] = orders[o].hold
      BY <1>10, <2>3, <3>2, RowsAreACopy DEF Settled
    <3> QED BY <3>1, <3>3
  <2> QED BY <2>1, <2>2, <2>3
<1>12. WrittenBack(s)
  <2>1. Admitted' = Admitted
    BY <1>11 DEF Admitted
  <2> QED BY <1>8, <1>11, <2>1 DEF WrittenBack
<1>13. Balanced(s)
  BY <1>10, <1>12, RowsAreACopy DEF Balanced, Settled
<1> QED BY <1>2, <1>13
(***************************************************************************)
(* Fills and trades.                                                       *)
(***************************************************************************)
FilledIsTraded ==
    \A o \in Admitted : orders[o].filled = SumFunctionOnSet(TradesOf(o), OrderIds)

LEMMA FillOfIsQty ==
    ASSUME NEW fills, NamesMakersOnce(fills), NEW f \in fills
    PROVE  FillOf(fills, f.maker) = f.qty
BY DEF FillOf, NamesMakersOnce

(* A plan fills in all what it takes from each maker.                      *)
LEMMA TotalByMaker ==
    ASSUME NEW t, NEW fills, Settles(t, fills)
    PROVE  SumFunctionOnSet([m \in OrderIds |-> FillOf(fills, m)], OrderIds)
             = TotalFilled(fills)
<1> DEFINE q == [f \in fills |-> f.qty]
           by == [m \in OrderIds |-> FillOf(fills, m)]
           maker == [f \in fills |-> f.maker]
<1>1. NamesMakersOnce(fills) /\ IsFiniteSet(fills)
  BY DEF Settles, NamesMakersOnce
<1>2. \A f \in fills : maker[f] \in OrderIds /\ q[f] \in Int /\ by[maker[f]] = q[f]
  <2> SUFFICES ASSUME NEW f \in fills
               PROVE  f.maker \in OrderIds /\ f.qty \in Int
                        /\ FillOf(fills, f.maker) = f.qty
    OBVIOUS
  <2>1. f \in Fills
    BY DEF Settles
  <2> QED BY <1>1, <2>1, FillOfIsQty DEF Fills
<1>3. \A f, g \in fills : maker[f] = maker[g] => f = g
  BY <1>1 DEF NamesMakersOnce
<1>4. \A m \in OrderIds : (\A f \in fills : maker[f] # m) => by[m] = 0
  BY DEF FillOf
<1> HIDE DEF q, by, maker
<1>5. Reindexes(maker, q, fills, by, OrderIds)
  BY <1>2, <1>3, <1>4 DEF Reindexes
<1>6. SumFunctionOnSet(by, OrderIds) = SumFunctionOnSet(q, fills)
  BY <1>1, <1>5, FiniteOrders, SumReindex
<1> QED BY <1>6 DEF TotalFilled, q, by

(* An order nobody has admitted has not traded.                            *)
LEMMA UnadmittedUntraded ==
    ASSUME Typed, RowsInv, NEW o \in OrderIds, orders[o].status = "none"
    PROVE  \A m \in OrderIds : traded[o][m] = 0 /\ traded[m][o] = 0
<1>1. commands[o].state = "none" /\ evidence[o] = << >>
  BY DEF Typed, InsertedAsPair, RowsInv, PublishedWasExecuted
<1> SUFFICES ASSUME NEW m \in OrderIds
             PROVE  traded[o][m] = 0 /\ traded[m][o] = 0
  OBVIOUS
<1>2. traded[o][m] \in Nat /\ traded[m][o] \in Nat
  BY DEF Typed, TypeOK
<1>3. ~(traded[o][m] > 0)
  <2>1. Len(evidence[o]) = 0
    BY <1>1
  <2> QED BY <2>1, SMT DEF RowsInv, ExecutedOnce
<1>4. ~(traded[m][o] > 0)
  BY <1>1 DEF RowsInv, MakersPublished, Published
<1> QED BY <1>2, <1>3, <1>4, SMT

LEMMA AdmitFills ==
    ASSUME Typed, IInv, FilledIsTraded,
           NEW o \in OrderIds, NEW r \in Requests, Admit(o, r)
    PROVE  FilledIsTraded'
<1>1. /\ orders[o].status = "none" /\ orders'[o].filled = 0
      /\ \A p \in OrderIds \ {o} : orders'[p] = orders[p]
      /\ traded' = traded
  BY DEF Admit, Admitted, Typed, TypeOK
<1> SUFFICES ASSUME NEW p \in Admitted'
             PROVE  orders'[p].filled = SumFunctionOnSet(TradesOf(p)', OrderIds)
  BY DEF FilledIsTraded
<1>2. p \in OrderIds /\ TradesOf(p)' = TradesOf(p)
  BY <1>1 DEF Admitted, TradesOf
<1>3. CASE p = o
  <2>1. \A m \in OrderIds : TradesOf(o)[m] = 0
    BY <1>1, UnadmittedUntraded DEF TradesOf, IInv
  <2> QED BY <1>1, <1>2, <1>3, <2>1, FiniteOrders, SumZero
<1>4. CASE p # o
  BY <1>1, <1>2, <1>4 DEF FilledIsTraded, Admitted
<1> QED BY <1>3, <1>4

LEMMA QuietFills ==
    ASSUME FilledIsTraded, UNCHANGED traded, Admitted' = Admitted,
           \A o \in OrderIds : orders'[o].filled = orders[o].filled
    PROVE  FilledIsTraded'
<1>1. \A o \in OrderIds : TradesOf(o)' = TradesOf(o)
  BY DEF TradesOf
<1> QED BY <1>1 DEF FilledIsTraded, Admitted

(* A match adds the same quantities to the orders and to the trades.       *)
MatchedBy(fills, t) ==
    /\ \A o \in OrderIds \ {t} :
          orders'[o].filled = orders[o].filled + FillOf(fills, o)
    /\ orders'[t].filled = orders[t].filled + TotalFilled(fills)
    /\ \A o, m \in OrderIds :
          traded'[o][m] = traded[o][m] + (IF o = t THEN FillOf(fills, m) ELSE 0)
    /\ \A m \in OrderIds : FillOf(fills, m) \in Nat
    /\ FillOf(fills, t) = 0

LEMMA MatchAddsFills ==
    ASSUME Typed, IInv, PlansNameMakersOnce, NEW w \in Workers, CommitMatch(w)
    PROVE  MatchedBy(plan[w].fills, job[w])
<1> DEFINE t == job[w]
           fills == plan[w].fills
           s == MatchedRows(t, seen[w], fills)
<1>1. Settles(t, fills)
  BY ValidatedSettles
<1>2. t \in OrderIds /\ orders'[t].filled = orders[t].filled + TotalFilled(fills)
  BY CommitMatchEffect DEF MatchEffect
<1>3. orders' = MatchedOrders(t, seen[w], fills, s.hold)
  BY DEF CommitMatch
<1>4. traded' = [traded EXCEPT ![t] =
                    [m \in OrderIds |-> traded[t][m] + FillOf(fills, m)]]
  BY DEF CommitMatch
<1>5. \A m \in OrderIds : FillOf(fills, m) \in Nat
  <2> SUFFICES ASSUME NEW m \in OrderIds, FillOf(fills, m) # 0
               PROVE  FillOf(fills, m) \in Nat
    OBVIOUS
  <2>1. PICK f \in fills : FillOf(fills, m) = f.qty
    BY FillOfPlanned
  <2>2. f \in Fills
    BY <1>1 DEF Settles
  <2> QED BY <2>1, <2>2 DEF Fills
<1>6. FillOf(fills, t) = 0
  BY <1>1 DEF Settles, FillOf
<1>7. ASSUME NEW o \in OrderIds \ {t}
      PROVE  orders'[o].filled = orders[o].filled + FillOf(fills, o)
  <2> DEFINE qty == FillOf(fills, o)
  <2>1. qty \in Nat /\ orders[o].filled \in Nat
    BY <1>5, OrderTypes DEF Typed
  <2>2. CASE qty > 0
    <3>1. orders'[o] = ApplyFill(orders[o], qty, MakerStatus(o, qty), s.hold[o])
      BY <1>3, <2>2 DEF MatchedOrders
    <3> HIDE DEF qty, s
    <3> QED BY <3>1, OrderTypes DEF ApplyFill, OrderRows, Typed, qty
  <2>3. CASE ~(qty > 0)
    <3>1. orders'[o] = orders[o]
      BY <1>3, <2>3 DEF MatchedOrders
    <3> QED BY <2>1, <2>3, <3>1
  <2> QED BY <2>2, <2>3
<1>8. ASSUME NEW o \in OrderIds, NEW m \in OrderIds
      PROVE  traded'[o][m] = traded[o][m] + (IF o = t THEN FillOf(fills, m) ELSE 0)
  <2>1. traded[o][m] \in Nat /\ traded \in [OrderIds -> [OrderIds -> Nat]]
    BY DEF Typed, TypeOK
  <2> DEFINE row == [p \in OrderIds |-> traded[t][p] + FillOf(fills, p)]
  <2>2. traded' = [traded EXCEPT ![t] = row]
    BY <1>4
  <2>3. row[m] = traded[t][m] + FillOf(fills, m)
    OBVIOUS
  <2> HIDE DEF row, t, fills
  <2>4. CASE o = t
    BY <1>2, <2>1, <2>2, <2>3, <2>4
  <2>5. CASE o # t
    BY <1>2, <2>1, <2>2, <2>5
  <2> QED BY <2>4, <2>5
<1> QED BY <1>2, <1>5, <1>6, <1>7, <1>8 DEF MatchedBy

LEMMA CommitMatchFills ==
    ASSUME Typed, IInv, PlansNameMakersOnce, FilledIsTraded,
           NEW w \in Workers, CommitMatch(w)
    PROVE  FilledIsTraded'
<1> DEFINE t == job[w]
           fills == plan[w].fills
<1>1. MatchedBy(fills, t) /\ Settles(t, fills)
  BY MatchAddsFills, ValidatedSettles
<1>2. Admitted' = Admitted
  BY CommitMatchFunds DEF Balanced, WrittenBack
<1>3. \A o, m \in OrderIds : traded[o][m] \in Nat
  BY DEF Typed, TypeOK
<1> HIDE DEF t, fills
<1>4. t \in OrderIds
  BY <1>1 DEF Settles, Admitted
<1> SUFFICES ASSUME NEW o \in Admitted
             PROVE  orders'[o].filled = SumFunctionOnSet(TradesOf(o)', OrderIds)
  BY <1>2 DEF FilledIsTraded
<1> DEFINE f == TradesOf(o)
           g == TradesOf(o)'
<1>5. o \in OrderIds /\ orders[o].filled = SumFunctionOnSet(f, OrderIds)
      /\ orders[o].filled \in Nat
  BY OrderTypes DEF FilledIsTraded, Admitted, Typed
<1>6. \A p \in OrderIds : /\ f[p] = traded[o][p] + traded[p][o]
                          /\ g[p] = traded'[o][p] + traded'[p][o]
  BY DEF TradesOf
<1> HIDE DEF f, g
<1>7. \A p \in OrderIds : f[p] \in Int /\ g[p] \in Int
  <2> SUFFICES ASSUME NEW p \in OrderIds PROVE f[p] \in Int /\ g[p] \in Int
    OBVIOUS
  <2>1. traded'[o][p] \in Nat /\ traded'[p][o] \in Nat
    BY <1>1, <1>3, <1>5 DEF MatchedBy
  <2> QED BY <1>3, <1>5, <1>6, <2>1
<1>8. CASE o = t
  <2> DEFINE more == [m \in OrderIds |-> FillOf(fills, m)]
  <2>1. \A p \in OrderIds : more[p] \in Int /\ g[p] = f[p] + more[p]
    <3> SUFFICES ASSUME NEW p \in OrderIds
                 PROVE  more[p] \in Int /\ g[p] = f[p] + more[p]
      OBVIOUS
    <3>1. FillOf(fills, p) \in Nat /\ (p = t => FillOf(fills, p) = 0)
      BY <1>1 DEF MatchedBy
    <3>2. /\ traded'[o][p] = traded[o][p] + FillOf(fills, p)
          /\ traded'[p][o] = traded[p][o]
      <4>1. /\ traded'[o][p] = traded[o][p] + (IF o = t THEN FillOf(fills, p) ELSE 0)
            /\ traded'[p][o] = traded[p][o] + (IF p = t THEN FillOf(fills, o) ELSE 0)
        BY <1>1, <1>5 DEF MatchedBy
      <4>2. traded[p][o] \in Nat
        BY <1>3, <1>5
      <4> QED BY <1>8, <3>1, <4>1, <4>2
    <3>3. traded[o][p] \in Nat /\ traded[p][o] \in Nat
      BY <1>3, <1>5
    <3> QED BY <1>6, <3>1, <3>2, <3>3
  <2>2. SumFunctionOnSet(more, OrderIds) = TotalFilled(fills)
    BY <1>1, TotalByMaker
  <2> HIDE DEF more
  <2>3. SumFunctionOnSet(g, OrderIds)
           = SumFunctionOnSet(f, OrderIds) + SumFunctionOnSet(more, OrderIds)
    BY <1>7, <2>1, FiniteOrders, SumPlus
  <2>4. orders'[o].filled = orders[o].filled + TotalFilled(fills)
    BY <1>1, <1>8 DEF MatchedBy
  <2> QED BY <1>5, <2>2, <2>3, <2>4 DEF g
<1>9. CASE o # t
  <2>1. ASSUME NEW p \in OrderIds
        PROVE  /\ traded'[o][p] = traded[o][p]
               /\ traded'[p][o] = traded[p][o] + (IF p = t THEN FillOf(fills, o) ELSE 0)
    <3>1. traded[o][p] \in Nat
      BY <1>3, <1>5
    <3> QED BY <1>1, <1>5, <1>9, <3>1 DEF MatchedBy
  <2>2. FillOf(fills, o) \in Nat
    BY <1>1, <1>5 DEF MatchedBy
  <2>3. \A p \in OrderIds \ {t} : g[p] = f[p]
    BY <1>3, <1>5, <1>6, <2>1
  <2>4. g[t] - f[t] = FillOf(fills, o)
    <3>1. traded[o][t] \in Nat /\ traded[t][o] \in Nat
      BY <1>3, <1>4, <1>5
    <3> QED BY <1>4, <1>6, <2>1, <2>2, <3>1
  <2>5. SumFunctionOnSet(g, OrderIds) = SumFunctionOnSet(f, OrderIds) + g[t] - f[t]
    BY <1>4, <1>7, <2>3, FiniteOrders, SumChange
  <2>6. orders'[o].filled = orders[o].filled + FillOf(fills, o)
    BY <1>1, <1>5, <1>9 DEF MatchedBy
  <2>7. g[t] \in Int /\ f[t] \in Int
    BY <1>4, <1>7
  <2> QED BY <1>5, <2>2, <2>4, <2>5, <2>6, <2>7 DEF g
<1> QED BY <1>8, <1>9
(***************************************************************************)
(* The steps.                                                              *)
(***************************************************************************)
(* A step that is neither an admission, a cancellation nor one of the      *)
(* engine's transactions leaves orders, trades and funds as they are.      *)
LEMMA OtherSteps ==
    ASSUME Typed, [Next]_vars,
           ~(\E o \in OrderIds, r \in Requests : Admit(o, r)),
           ~(\E o \in OrderIds : Cancel(o)),
           ~(\E w \in Workers : CommitTerminal(w) \/ CommitMatch(w))
    PROVE  UNCHANGED <<orders, traded, wallet, fees>>
<1>1. CASE UNCHANGED vars
  BY <1>1 DEF vars
<1>2. ASSUME NEW o \in OrderIds, CancelBegin(o) \/ CancelRefused(o) \/ LockLost(o)
      PROVE  UNCHANGED <<orders, traded, wallet, fees>>
  BY <1>2 DEF CancelBegin, CancelRefused, CancelOver, LockLost, bookVars
<1>3. ASSUME NEW w \in Workers, WorkerStep(w) \/ Crash(w) \/ LockLost(w)
      PROVE  UNCHANGED <<orders, traded, wallet, fees>>
  BY <1>3 DEF WorkerStep, Claim, ExpireForGood, Reconstruct, ReadOrder, Plan,
              Finalize, FinalizeReplays, StepFails, Fail, Crash, LockLost, bookVars
<1> QED BY <1>1, <1>2, <1>3 DEF Next

(* The invariant of the funds.                                             *)
FundsInv ==
    /\ PlansNameMakersOnce
    /\ HeldEqualsResiduals
    /\ ValueConserved
    /\ FilledIsTraded

LEMMA InitFunds == Init => FundsInv
<1> SUFFICES ASSUME Init PROVE FundsInv
  OBVIOUS
<1>1. Typed
  BY InitTyped
<1>2. Admitted = {}
  BY DEF Init, Admitted
<1>3. PlansNameMakersOnce /\ FilledIsTraded
  BY <1>2 DEF Init, PlansNameMakersOnce, FilledIsTraded
<1>4. /\ wallet = [u \in Users |-> [a \in Assets |->
                      [available |-> Deposit[u][a], held |-> 0]]]
      /\ fees = 0
  BY DEF Init
<1>5. ASSUME NEW u \in Users, NEW a \in Assets
      PROVE  wallet[u][a].held = SumFunctionOnSet(HoldsOn(u, a), OrderIds)
  <2>1. \A o \in OrderIds : HoldsOn(u, a)[o] = 0
    BY <1>2 DEF HoldsOn
  <2>2. SumFunctionOnSet(HoldsOn(u, a), OrderIds) = 0
    BY <2>1, FiniteOrders, SumZero
  <2> QED BY <1>4, <2>2
<1>6. ASSUME NEW a \in Assets
      PROVE  SumFunctionOnSet(Owned(a), Users) + (IF a = "quote" THEN fees ELSE 0)
                = SumFunctionOnSet(Deposited(a), Users)
  <2>1. \A u \in Users : Deposit[u][a] \in Nat
    BY OrdersAssumption
  <2>2. Owned(a) = Deposited(a)
    <3>1. \A u \in Users : wallet[u][a].available + wallet[u][a].held = Deposit[u][a]
      BY <1>4, <2>1
    <3> QED BY <3>1 DEF Owned, Deposited
  <2>3. SumFunctionOnSet(Deposited(a), Users) \in Int
    <3>1. \A u \in Users : Deposited(a)[u] \in Int
      BY <2>1 DEF Deposited
    <3> QED BY <3>1, FiniteOrders, SumInt
  <2> QED BY <1>4, <2>2, <2>3
<1> QED BY <1>3, <1>5, <1>6 DEF FundsInv, HeldEqualsResiduals, ValueConserved

LEMMA BalancedKeeps ==
    ASSUME Typed, Typed', FundsInv, NEW s, Balanced(s)
    PROVE  HeldEqualsResiduals' /\ ValueConserved'
BY WriteBackKeeps DEF Balanced, FundsInv

LEMMA NextFunds == Typed /\ IInv /\ FundsInv /\ [Next]_vars => FundsInv'
<1> SUFFICES ASSUME Typed, IInv, FundsInv, [Next]_vars PROVE FundsInv'
  OBVIOUS
<1>1. Typed' /\ PlansNameMakersOnce'
  BY NextTyped, NextPlansOnce DEF FundsInv
<1>2. ASSUME NEW o \in OrderIds, NEW r \in Requests, Admit(o, r)
      PROVE  FundsInv'
  BY <1>1, <1>2, AdmitFunds, AdmitFills DEF FundsInv
<1>3. ASSUME NEW o \in OrderIds, Cancel(o) PROVE FundsInv'
  <2>1. PICK s : s = ReleaseResidual(Rows, orders[o].req, o) /\ Balanced(s)
    BY <1>3, CancelFunds
  <2>2. HeldEqualsResiduals' /\ ValueConserved'
    BY <1>1, <2>1, BalancedKeeps
  <2>3. UNCHANGED traded /\ \A p \in OrderIds : orders'[p].filled = orders[p].filled
    BY <1>3, OrderTypes DEF Cancel, CancelOver, Typed, TypeOK, OrderRows
  <2>4. FilledIsTraded'
    BY <2>1, <2>3, QuietFills DEF Balanced, WrittenBack, FundsInv
  <2> QED BY <1>1, <2>2, <2>4 DEF FundsInv
<1>4. ASSUME NEW w \in Workers, CommitTerminal(w) PROVE FundsInv'
  <2>1. PICK s : s = ReleaseResidual(Rows, orders[job[w]].req, job[w]) /\ Balanced(s)
    BY <1>4, CommitTerminalFunds
  <2>2. HeldEqualsResiduals' /\ ValueConserved'
    BY <1>1, <2>1, BalancedKeeps
  <2>3. UNCHANGED traded /\ \A p \in OrderIds : orders'[p].filled = orders[p].filled
    BY <1>4, OrderTypes DEF CommitTerminal, Typed, TypeOK, OrderRows
  <2>4. FilledIsTraded'
    BY <2>1, <2>3, QuietFills DEF Balanced, WrittenBack, FundsInv
  <2> QED BY <1>1, <2>2, <2>4 DEF FundsInv
<1>5. ASSUME NEW w \in Workers, CommitMatch(w) PROVE FundsInv'
  <2>1. PICK s : Balanced(s)
    BY <1>5, CommitMatchFunds DEF FundsInv
  <2>2. HeldEqualsResiduals' /\ ValueConserved'
    BY <1>1, <2>1, BalancedKeeps
  <2>3. FilledIsTraded'
    BY <1>5, CommitMatchFills DEF FundsInv
  <2> QED BY <1>1, <2>2, <2>3 DEF FundsInv
<1>6. CASE UNCHANGED <<orders, traded, wallet, fees>>
  <2>1. Admitted' = Admitted
    BY <1>6 DEF Admitted
  <2>2. HeldEqualsResiduals'
    BY <1>6, <2>1 DEF FundsInv, HeldEqualsResiduals, HoldsOn
  <2>3. ValueConserved'
    BY <1>6 DEF FundsInv, ValueConserved, Owned, Deposited
  <2>4. FilledIsTraded'
    BY <1>6, <2>1, QuietFills DEF FundsInv
  <2> QED BY <1>1, <2>2, <2>3, <2>4 DEF FundsInv
<1> QED BY <1>2, <1>3, <1>4, <1>5, <1>6, OtherSteps

LEMMA FundsInvariance == Spec => [](Typed /\ IInv /\ FundsInv)
<1>1. Typed /\ IInv /\ FundsInv /\ [Next]_vars => (Typed /\ IInv /\ FundsInv)'
  BY NextTyped, NextInv, NextFunds
<1> QED BY InitTyped, InitInv, InitFunds, <1>1, PTL DEF Spec

(* What a wallet shows held is what its orders have left of their holds,   *)
(* so no order can spend what is reserved for another.                     *)
THEOREM HeldFundsAreReserved == Spec => []HeldEqualsResiduals
<1>1. Typed /\ IInv /\ FundsInv => HeldEqualsResiduals
  BY DEF FundsInv
<1> QED BY FundsInvariance, <1>1, PTL

(* However many fills, releases, fees and cancellations there are, the     *)
(* wallets and the fee wallet have what was deposited.                     *)
THEOREM NothingIsMadeOrLost == Spec => []ValueConserved
<1>1. Typed /\ IInv /\ FundsInv => ValueConserved
  BY DEF FundsInv
<1> QED BY FundsInvariance, <1>1, PTL

(* An order's rows agree with the trades table.                            *)
THEOREM FillsAreTrades == Spec => []FillsAddUp
<1>1. Typed /\ IInv /\ FundsInv => FillsAddUp
  BY DEF IInv, RowsInv, RowsAddUp, FundsInv, FilledIsTraded, FillsAddUp
<1> QED BY FundsInvariance, <1>1, PTL

(* No step reopens an order that is over, takes a fill back or adds to a   *)
(* hold.                                                                   *)
LEMMA StepsProgress ==
    ASSUME Typed, IInv, FundsInv, [Next]_vars, NEW o \in Admitted
    PROVE  /\ orders[o].status \in Terminal => orders'[o].status = orders[o].status
           /\ orders'[o].filled >= orders[o].filled
           /\ orders'[o].hold <= orders[o].hold
<1>1. o \in OrderIds /\ orders[o].filled \in Nat /\ orders[o].hold \in Nat
  BY OrderTypes DEF Admitted, Typed
<1>2. ASSUME NEW p \in OrderIds, NEW r \in Requests, Admit(p, r)
      PROVE  orders'[o] = orders[o]
  BY <1>1, <1>2 DEF Admit, Typed, TypeOK
<1>3. ASSUME NEW s, Balanced(s) PROVE orders'[o].hold <= orders[o].hold
  BY <1>1, <1>3 DEF Balanced, WrittenBack
<1>4. ASSUME NEW p \in OrderIds, Cancel(p)
      PROVE  /\ orders[o].status \in Terminal => orders'[o].status = orders[o].status
             /\ orders'[o].filled = orders[o].filled
             /\ orders'[o].hold <= orders[o].hold
  <2>1. orders'[o].hold <= orders[o].hold
    BY <1>3, <1>4, CancelFunds
  <2>2. orders[p].status \in Open
    BY <1>4 DEF Cancel, Cancellable
  <2>3. p # o => orders'[o] = orders[o]
    BY <1>1, <1>4 DEF Cancel, Typed, TypeOK
  <2>4. orders'[o].filled = orders[o].filled
    BY <1>1, <1>4, OrderTypes DEF Cancel, Typed, TypeOK, OrderRows
  <2> QED BY <2>1, <2>2, <2>3, <2>4 DEF Open, Terminal
<1>5. ASSUME NEW w \in Workers, CommitTerminal(w)
      PROVE  /\ orders[o].status \in Terminal => orders'[o].status = orders[o].status
             /\ orders'[o].filled = orders[o].filled
             /\ orders'[o].hold <= orders[o].hold
  <2>1. orders'[o].hold <= orders[o].hold
    BY <1>3, <1>5, CommitTerminalFunds
  <2>2. orders'[o].filled = orders[o].filled
    BY <1>1, <1>5, OrderTypes DEF CommitTerminal, Typed, TypeOK, OrderRows
  <2>3. orders[o].status \in Terminal => orders'[o].status = orders[o].status
    BY <1>1, <1>5, OrderTypes DEF CommitTerminal, Typed, TypeOK, OrderRows, Open, Terminal
  <2> QED BY <2>1, <2>2, <2>3
<1>6. ASSUME NEW w \in Workers, CommitMatch(w)
      PROVE  /\ orders[o].status \in Terminal => orders'[o].status = orders[o].status
             /\ orders'[o].filled >= orders[o].filled
             /\ orders'[o].hold <= orders[o].hold
  <2> DEFINE t == job[w]
             fills == plan[w].fills
  <2>1. orders'[o].hold <= orders[o].hold
    BY <1>3, <1>6, CommitMatchFunds DEF FundsInv
  <2>2. MatchedBy(fills, t) /\ MatchEffect(t, fills, StatusAfter(w), EvidenceAfter(w))
    BY <1>6, MatchAddsFills, CommitMatchEffect DEF FundsInv
  <2>3. orders'[o].filled >= orders[o].filled
    <3>1. TotalFilled(fills) \in Nat
      BY <1>6 DEF CommitMatch, Validated, Typed, TypeOK
    <3>2. FillOf(fills, o) \in Nat
      BY <1>1, <2>2 DEF MatchedBy
    <3> HIDE DEF t, fills
    <3> QED BY <1>1, <2>2, <3>1, <3>2 DEF MatchedBy
  <2>4. orders[o].status \in Terminal => orders'[o].status = orders[o].status
    <3> HIDE DEF t, fills
    <3> QED BY <1>1, <2>2 DEF MatchEffect, Open, Terminal
  <2> QED BY <2>1, <2>3, <2>4
<1>7. CASE UNCHANGED <<orders, traded, wallet, fees>>
  BY <1>1, <1>7
<1> QED BY <1>1, <1>2, <1>4, <1>5, <1>6, <1>7, OtherSteps

(* So an order only ever moves towards its end.                            *)
THEOREM OrdersMoveForward == Spec => OrdersOnlyProgress
<1>1. Typed /\ IInv /\ FundsInv /\ [Next]_vars =>
        [\A o \in Admitted :
            /\ orders[o].status \in Terminal => orders'[o].status = orders[o].status
            /\ orders'[o].filled >= orders[o].filled
            /\ orders'[o].hold <= orders[o].hold]_vars
  BY StepsProgress
<1> QED BY FundsInvariance, <1>1, PTL DEF Spec, OrdersOnlyProgress
(***************************************************************************)
(* What a purchase costs.                                                  *)
(***************************************************************************)
(* Rounding down loses less than one unit, rounding up adds less than one. *)
LEMMA RoundingBounds ==
    ASSUME NEW a \in Nat, NEW b \in Nat \ {0}
    PROVE  /\ Floor(a, b) * b <= a
           /\ Ceiling(a, b) * b <= a + b
<1>1. \A c \in Nat : (c \div b) * b <= c
  BY SMT
<1>2. a + b - 1 \in Nat /\ a + b - 1 <= a + b
  OBVIOUS
<1>3. (a + b - 1) \div b \in Nat
  BY <1>2, Rounding DEF Ceiling
<1>4. ((a + b - 1) \div b) * b <= a + b - 1
  BY <1>1, <1>2
<1>5. ((a + b - 1) \div b) * b \in Nat
  BY <1>3
<1> QED BY <1>1, <1>2, <1>4, <1>5 DEF Floor, Ceiling

LEMMA FactorOrder ==
    ASSUME NEW a \in Int, NEW b \in Int, NEW c \in Nat, a <= b
    PROVE  a * c <= b * c /\ c * a <= c * b
<1>1. PICK d \in Nat : b = a + d
  <2>1. b - a \in Nat /\ b = a + (b - a)
    OBVIOUS
  <2> QED BY <2>1
<1>2. b * c = a * c + d * c /\ d * c \in Nat /\ a * c \in Int
  BY <1>1, SMT
<1>3. c * b = b * c /\ c * a = a * c
  BY SMT
<1> QED BY <1>2, <1>3

(* The rates of a fill are not above the one a purchase reserves for.      *)
LEMMA RatesAreNat ==
    /\ PriceScale \in Nat \ {0} /\ FeeDen \in Nat \ {0}
    /\ PriceScale * FeeDen \in Nat \ {0}
    /\ MaximumBuyFeeRate \in Nat
    /\ \A makerSide : /\ BuyerFeeRate(makerSide) \in Nat
                      /\ BuyerFeeRate(makerSide) <= MaximumBuyFeeRate
<1>1. PriceScale \in Nat \ {0} /\ FeeDen \in Nat \ {0} /\ MakerFee \in Nat /\ TakerFee \in Nat
  BY FinancialsAssumption
<1>2. PriceScale * FeeDen \in Nat \ {0}
  BY <1>1, SMT
<1> QED BY <1>1, <1>2 DEF MaximumBuyFeeRate, Greatest, BuyerFeeRate

(* A fill's rounded cost, fee included, is within its exact cost at any    *)
(* price that is no lower and the worst fee.                               *)
Cost(qty, price, makerSide) ==
    LET a == TradeAmounts(qty, price, makerSide) IN a.quoteGross + a.buyerFee

LEMMA CostIsNat ==
    ASSUME NEW qty \in Nat, NEW price \in Nat, NEW makerSide
    PROVE  Cost(qty, price, makerSide) \in Nat
BY AmountsAreNat DEF Cost

LEMMA CostWithin ==
    ASSUME NEW qty \in Nat, NEW price \in Nat, NEW limit \in Nat, price <= limit,
           NEW makerSide
    PROVE  Cost(qty, price, makerSide) * (PriceScale * FeeDen)
             <= qty * (limit * (FeeDen + MaximumBuyFeeRate))
<1> DEFINE P == PriceScale
           D == FeeDen
           M == MaximumBuyFeeRate
           rate == BuyerFeeRate(makerSide)
           G == QuoteGross(qty, price)
           fee == FeeOn(G, rate)
<1>1. /\ P \in Nat \ {0} /\ D \in Nat \ {0} /\ M \in Nat /\ rate \in Nat
      /\ rate <= M
  BY RatesAreNat
<1>2. G \in Nat /\ Cost(qty, price, makerSide) = G + fee
  BY AmountsAreNat DEF Cost, TradeAmounts
<1>3. qty * price \in Nat /\ G * rate \in Nat
  BY <1>1, <1>2, SMT
<1>4. G * P <= qty * price
  BY <1>1, <1>3, RoundingBounds DEF QuoteGross
<1>5. fee \in Nat /\ fee * D <= G * rate
  BY <1>1, <1>3, RoundingBounds, Rounding DEF FeeOn
<1> HIDE DEF P, D, M, rate, G, fee
<1>6. G * rate <= G * M
  BY <1>1, <1>2, FactorOrder
<1>7. (G + fee) * D <= G * (D + M)
  <2>1. (G + fee) * D = G * D + fee * D /\ G * (D + M) = G * D + G * M
    BY <1>1, <1>2, <1>5, SMT
  <2>2. G * D \in Nat /\ fee * D \in Nat /\ G * M \in Nat
    BY <1>1, <1>2, <1>5, SMT
  <2> QED BY <1>3, <1>5, <1>6, <2>1, <2>2
<1>8. ((G + fee) * D) * P <= (G * (D + M)) * P
  <2>1. (G + fee) * D \in Nat /\ G * (D + M) \in Nat
    BY <1>1, <1>2, <1>5, SMT
  <2> QED BY <1>1, <1>7, <2>1, FactorOrder
<1>9. (G * P) * (D + M) <= (qty * price) * (D + M)
  <2>1. G * P \in Nat /\ D + M \in Nat
    BY <1>1, <1>2, SMT
  <2> QED BY <1>3, <1>4, <2>1, FactorOrder
<1>10. (qty * price) * (D + M) <= (qty * limit) * (D + M)
  <2>1. qty * price <= qty * limit
    BY FactorOrder
  <2>2. qty * limit \in Nat /\ D + M \in Nat
    BY <1>1, SMT
  <2> QED BY <1>3, <2>1, <2>2, FactorOrder
<1>11. /\ ((G + fee) * D) * P = (G + fee) * (P * D)
       /\ (G * (D + M)) * P = (G * P) * (D + M)
       /\ (qty * limit) * (D + M) = qty * (limit * (D + M))
  BY <1>1, <1>2, <1>5, SMT
<1>12. /\ (G + fee) * (P * D) \in Nat /\ (G * P) * (D + M) \in Nat
       /\ (qty * price) * (D + M) \in Nat /\ qty * (limit * (D + M)) \in Nat
  <2>1. G + fee \in Nat /\ P * D \in Nat /\ G * P \in Nat /\ D + M \in Nat
        /\ limit * (D + M) \in Nat
    BY <1>1, <1>2, <1>5, SMT
  <2> QED BY <1>3, <2>1, SMT
<1>13. (G + fee) * (P * D) <= qty * (limit * (D + M))
  BY <1>8, <1>9, <1>10, <1>11, <1>12
<1> QED BY <1>2, <1>13 DEF P, D, M
LEMMA DivisionWithRest ==
    ASSUME NEW a \in Nat, NEW b \in Nat, b > 0
    PROVE  a = b * (a \div b) + (a % b)
BY SMT

(* What a limit purchase reserves is its exact cost at its limit and the   *)
(* worst fee.                                                              *)
LEMMA HoldIsExactCost ==
    ASSUME NEW r \in Requests, r.side = "buy", r.type # "market"
    PROVE  OrderHold(r) * (PriceScale * FeeDen)
             = r.qty * (r.price * (FeeDen + MaximumBuyFeeRate))
<1> DEFINE unit == PriceScale * FeeDen
           hold == OrderHold(r)
           exact == r.qty * r.price * (FeeDen + MaximumBuyFeeRate)
<1>1. exact % unit = 0 /\ hold = exact \div unit
  <2>1. HoldIsExact(r)
    BY OrdersAssumption
  <2> QED BY <2>1 DEF HoldIsExact, OrderHold, Floor
<1>2. r.qty \in Nat /\ r.price \in Nat /\ unit \in Nat \ {0} /\ hold \in Nat
  BY RatesAreNat, HoldIsNat, OrdersAssumption DEF RequestType
<1>3. exact = r.qty * (r.price * (FeeDen + MaximumBuyFeeRate)) /\ exact \in Nat
  <2>1. FeeDen + MaximumBuyFeeRate \in Nat
    BY RatesAreNat
  <2>2. r.qty * r.price \in Nat
    BY <1>2, SMT
  <2> QED BY <1>2, <2>1, <2>2, SMT
<1> HIDE DEF exact, unit, hold
<1>4. exact = unit * (exact \div unit) + (exact % unit)
  <2>1. unit \in Nat /\ unit > 0
    BY <1>2
  <2>2. exact \in Nat
    BY <1>3
  <2> QED BY <2>1, <2>2, DivisionWithRest, Zenon
<1>5. exact = unit * hold /\ unit * hold = hold * unit
  BY <1>1, <1>2, <1>4, SMT
<1> QED BY <1>3, <1>5 DEF unit, hold

LEMMA PaymentsAreNat ==
    ASSUME Typed, NEW b \in OrderIds, NEW p \in OrderIds
    PROVE  Payments(b)[p] \in Nat
<1>1. /\ traded[b][p] \in Nat /\ traded[p][b] \in Nat
      /\ orders[p].req.price \in Nat /\ orders[b].req.price \in Nat
  BY OrderTypes DEF RequestType, Typed, TypeOK
<1>2. Payments(b)[p] = (IF traded[b][p] > 0
                        THEN Cost(traded[b][p], orders[p].req.price, "sell") ELSE 0)
                     + (IF traded[p][b] > 0
                        THEN Cost(traded[p][b], orders[b].req.price, "buy") ELSE 0)
  BY DEF Payments, Cost
<1>3. /\ Cost(traded[b][p], orders[p].req.price, "sell") \in Nat
      /\ Cost(traded[p][b], orders[b].req.price, "buy") \in Nat
  BY <1>1, CostIsNat
<1> QED BY <1>2, <1>3

(* A limit purchase: every fill is at its price or better, and its fills   *)
(* make no more than its quantity, whose exact cost is its hold.           *)
LEMMA LimitBuysCovered ==
    ASSUME Typed, RowsInv, FilledIsTraded, NEW b \in Admitted,
           orders[b].req.side = "buy", orders[b].req.type # "market"
    PROVE  PaidBy(b) <= OrderHold(orders[b].req)
<1> DEFINE r == orders[b].req
           unit == PriceScale * FeeDen
           worst == r.price * (FeeDen + MaximumBuyFeeRate)
           hold == OrderHold(r)
           pays == Payments(b)
           fills == TradesOf(b)
<1>1. /\ b \in OrderIds /\ r \in Requests /\ r.price \in Nat /\ r.qty \in Nat
      /\ orders[b].remaining \in Nat /\ orders[b].filled \in Nat
  BY OrderTypes DEF Admitted, Typed, RequestType
<1>2. unit \in Nat \ {0} /\ worst \in Nat /\ hold \in Nat
  <2>1. FeeDen + MaximumBuyFeeRate \in Nat
    BY RatesAreNat
  <2>2. worst \in Nat
    BY <1>1, <2>1, SMT
  <2> QED BY <1>1, <2>2, RatesAreNat, HoldIsNat
<1>3. hold * unit = r.qty * worst
  BY <1>1, HoldIsExactCost
<1>4. ASSUME NEW p \in OrderIds
      PROVE  /\ pays[p] \in Nat /\ fills[p] \in Nat
             /\ pays[p] * unit <= fills[p] * worst
  <2> DEFINE x == traded[b][p]
             y == traded[p][b]
             first == IF x > 0 THEN Cost(x, orders[p].req.price, "sell") ELSE 0
             second == IF y > 0 THEN Cost(y, orders[b].req.price, "buy") ELSE 0
  <2>1. /\ x \in Nat /\ y \in Nat /\ orders[p].req.price \in Nat
    BY <1>1, OrderTypes DEF RequestType, Typed, TypeOK
  <2>2. pays[p] = first + second /\ fills[p] = x + y
    BY DEF Payments, TradesOf, Cost
  <2>3. first \in Nat /\ second \in Nat
    BY <1>1, <2>1, CostIsNat
  <2>4. first * unit <= x * worst
    <3>1. CASE x > 0
      <4>1. orders[p].req.price <= r.price
        BY <1>1, <3>1 DEF RowsInv, TradesRespectLimits, Crosses
      <4> QED BY <1>1, <2>1, <3>1, <4>1, CostWithin
    <3>2. CASE ~(x > 0)
      <4>1. x = 0 /\ first = 0
        BY <2>1, <3>2
      <4>2. 0 * unit = 0 /\ 0 * worst = 0
        BY <1>2, SMT
      <4> QED BY <4>1, <4>2
    <3> QED BY <3>1, <3>2
  <2>5. second * unit <= y * worst
    <3>1. CASE y > 0
      BY <1>1, <2>1, <3>1, CostWithin
    <3>2. CASE ~(y > 0)
      <4>1. y = 0 /\ second = 0
        BY <2>1, <3>2
      <4>2. 0 * unit = 0 /\ 0 * worst = 0
        BY <1>2, SMT
      <4> QED BY <4>1, <4>2
    <3> QED BY <3>1, <3>2
  <2> HIDE DEF first, second, x, y, unit, worst, pays, fills
  <2>6. /\ (first + second) * unit = first * unit + second * unit
        /\ (x + y) * worst = x * worst + y * worst
    BY <1>2, <2>1, <2>3, SMT
  <2>7. /\ first * unit \in Nat /\ second * unit \in Nat
        /\ x * worst \in Nat /\ y * worst \in Nat
    BY <1>2, <2>1, <2>3, SMT
  <2> QED BY <2>1, <2>2, <2>3, <2>4, <2>5, <2>6, <2>7
<1>5. SumFunctionOnSet(pays, OrderIds) * unit <= SumFunctionOnSet(fills, OrderIds) * worst
  <2> HIDE DEF pays, fills, unit, worst
  <2>1. \A p \in OrderIds : pays[p] \in Int /\ fills[p] \in Int
    BY <1>4
  <2> QED BY <1>2, <1>4, <2>1, FiniteOrders, SumScaled
<1>6. PaidBy(b) \in Nat /\ PaidBy(b) = SumFunctionOnSet(pays, OrderIds)
  <2>1. \A p \in OrderIds : pays[p] \in Nat
    BY <1>4
  <2> HIDE DEF pays
  <2>2. SumFunctionOnSet(pays, OrderIds) \in Nat
    BY <2>1, FiniteOrders, SumNat
  <2> QED BY <2>2 DEF PaidBy, pays
<1>7. SumFunctionOnSet(fills, OrderIds) = orders[b].filled /\ orders[b].filled <= r.qty
  <2>1. orders[b].filled + orders[b].remaining = r.qty
    BY DEF RowsInv, RowsAddUp
  <2>2. orders[b].filled = SumFunctionOnSet(fills, OrderIds)
    BY DEF FilledIsTraded
  <2> QED BY <1>1, <2>1, <2>2
<1> HIDE DEF r, unit, worst, hold, pays, fills
<1>8. PaidBy(b) * unit <= hold * unit
  <2>1. orders[b].filled * worst <= r.qty * worst
    BY <1>1, <1>2, <1>7, FactorOrder
  <2>2. /\ PaidBy(b) * unit \in Nat /\ orders[b].filled * worst \in Nat
        /\ hold * unit \in Nat
    BY <1>1, <1>2, <1>6, SMT
  <2>3. PaidBy(b) * unit <= orders[b].filled * worst
    BY <1>5, <1>6, <1>7
  <2> QED BY <1>3, <2>1, <2>2, <2>3
<1>9. PaidBy(b) <= hold
  <2> SUFFICES ASSUME hold < PaidBy(b) PROVE FALSE
    BY <1>2, <1>6
  <2>1. hold + 1 \in Nat /\ hold + 1 <= PaidBy(b)
    BY <1>2, <1>6
  <2>2. (hold + 1) * unit <= PaidBy(b) * unit
    BY <1>2, <1>6, <2>1, FactorOrder
  <2>3. (hold + 1) * unit = hold * unit + unit /\ hold * unit \in Nat
    BY <1>2, SMT
  <2>4. PaidBy(b) * unit \in Nat
    BY <1>2, <1>6, SMT
  <2> QED BY <1>2, <1>8, <2>2, <2>3, <2>4
<1> QED BY <1>9 DEF r, hold

(* A market purchase has no limit: what keeps it within its budget is the  *)
(* plan, which is turned away when it would cost more than the hold.  So   *)
(* the invariant follows the plan from the book it was made from to the    *)
(* transaction: its prices are those of its makers' requests, and holds,   *)
(* which only shrink, are never above what their orders reserved.          *)
HoldsWithinReserve == \A o \in Admitted : orders[o].hold <= OrderHold(orders[o].req)

PlanAffordable(r, p) ==
    /\ \A f \in p.fills : f.price = orders[f.maker].req.price
    /\ (p.reject = "none" /\ r.type = "market" /\ r.side = "buy") =>
          PlannedSpend(p.fills, "sell") <= OrderHold(r)

PlansAffordable ==
    \A w \in Workers :
        pc[w] = "planned" => PlanAffordable(orders[job[w]].req, plan[w])

MarketBuysCovered ==
    \A o \in Admitted :
        (orders[o].req.side = "buy" /\ orders[o].req.type = "market") =>
            PaidBy(o) <= OrderHold(orders[o].req)

CostInv == HoldsWithinReserve /\ PlansAffordable /\ MarketBuysCovered

LEMMA SpendIsNat ==
    ASSUME NEW fills, fills \subseteq Fills, IsFiniteSet(fills), NEW makerSide
    PROVE  PlannedSpend(fills, makerSide) \in Nat
<1> DEFINE debit == [f \in fills |-> BuyerQuoteDebit(f, makerSide)]
<1>1. \A f \in fills : debit[f] \in Nat
  <2> SUFFICES ASSUME NEW f \in fills PROVE BuyerQuoteDebit(f, makerSide) \in Nat
    OBVIOUS
  <2>1. f.qty \in Nat /\ f.price \in Nat
    BY DEF Fills
  <2> QED BY <2>1, AmountsAreNat DEF BuyerQuoteDebit
<1> HIDE DEF debit
<1>2. SumFunctionOnSet(debit, fills) \in Nat
  BY <1>1, SumNat
<1> QED BY <1>2 DEF PlannedSpend, debit

LEMMA MadePlanAffordable ==
    ASSUME Typed, Typed', IInv, HoldsWithinReserve, NEW w \in Workers, Plan(w)
    PROVE  PlanAffordable(orders[job[w]].req, plan'[w])
<1> DEFINE t == job[w]
           r == orders[t].req
           fills == PlannedFills(t, seen[w])
           reject == TakerReject(t, seen[w], fills)
<1>1. plan'[w] = [reject |-> reject, fills |-> fills]
  BY DEF Plan, Typed, TypeOK
<1>2. t \in Admitted /\ t \in OrderIds
  <2>1. pc[w] = "ready"
    BY DEF Plan, Step
  <2>2. t \in OrderIds /\ commands[t].state # "none"
    BY <2>1 DEF Typed, TypeOK, IInv, JobsAdmitted
  <2> QED BY <2>2 DEF Typed, InsertedAsPair, Admitted
<1>3. ASSUME NEW f \in fills PROVE f.price = orders[f.maker].req.price
  <2>1. PICK e \in Candidates(RebuiltBook, t, r) : f.maker = e.id /\ f.price = e.price
    BY PlannedAreComputed, FillsAreOffers
  <2>2. e \in RebuiltBook
    BY DEF Candidates, Crossing
  <2>3. e.price = orders[e.id].req.price
    BY <2>2 DEF RebuiltBook
  <2> QED BY <2>1, <2>3
<1>4. PlannedSpend(fills, "sell") \in Nat
  <2>1. plan'[w] \in Plans
    BY DEF Typed, TypeOK
  <2>2. fills \subseteq Fills
    BY <1>1, <2>1 DEF Plans
  <2>3. NamesMakersOnce(fills)
    BY PlannedOnce
  <2> HIDE DEF fills
  <2> QED BY <2>2, <2>3, OnceIsFinite, SpendIsNat
<1>5. ASSUME reject = "none", r.type = "market", r.side = "buy"
      PROVE  PlannedSpend(fills, "sell") <= OrderHold(r)
  <2>1. orders[t].hold \in Nat /\ orders[t].hold <= OrderHold(r) /\ OrderHold(r) \in Nat
    BY <1>2, OrderTypes, HoldIsNat DEF HoldsWithinReserve, Typed
  <2>2. CASE fills = {}
    <3>1. PlannedSpend(fills, "sell") = 0
      BY <2>2, SumEmpty DEF PlannedSpend
    <3> QED BY <2>1, <3>1
  <2>3. CASE fills # {}
    <3>1. ~(orders[t].hold < PlannedSpend(fills, "sell"))
      <4> HIDE DEF fills
      <4> QED BY <1>5, <2>3, Zenon DEF TakerReject, r
    <3> HIDE DEF fills, r
    <3> QED BY <1>4, <2>1, <3>1
  <2> QED BY <2>2, <2>3
<1> HIDE DEF fills, reject, r
<1> QED BY <1>1, <1>3, <1>5 DEF PlanAffordable, r

LEMMA NextAffordable ==
    ASSUME Typed, IInv, HoldsWithinReserve, PlansAffordable, [Next]_vars
    PROVE  PlansAffordable'
<1>1. Typed' /\ PlansKept /\ RequestsKept /\ PublishedWasExecuted
  BY NextTyped, NextKeeps DEF IInv, RowsInv
<1> SUFFICES ASSUME NEW v \in Workers, pc'[v] = "planned"
             PROVE  PlanAffordable(orders[job[v]].req, plan[v])'
  BY DEF PlansAffordable
<1>2. PICK t \in OrderIds : /\ t = job[v] /\ job'[v] = t
                            /\ commands[t].state # "none"
                            /\ PlanAffordable(orders[t].req, plan'[v])
                            /\ PlanStands(orders[t].req, seen[v], plan'[v])
  <2>1. CASE Plan(v)
    <3>1. job'[v] = job[v] /\ pc[v] = "ready"
      BY <2>1 DEF Plan, Step
    <3>2. job[v] \in OrderIds /\ commands[job[v]].state # "none"
      BY <3>1 DEF Typed, TypeOK, IInv, JobsAdmitted
    <3> QED BY <1>1, <2>1, <3>1, <3>2, MadePlanStands, MadePlanAffordable
  <2>2. CASE pc[v] = "planned" /\ plan'[v] = plan[v] /\ job'[v] = job[v]
    <3>1. job[v] \in OrderIds /\ commands[job[v]].state # "none"
      BY <2>2 DEF Typed, TypeOK, IInv, JobsAdmitted
    <3>2. PlanStands(orders[job[v]].req, seen[v], plan[v])
      BY <2>2 DEF IInv, PlansStand
    <3>3. PlanAffordable(orders[job[v]].req, plan[v])
      BY <2>2 DEF PlansAffordable
    <3> QED BY <2>2, <3>1, <3>2, <3>3
  <2> QED BY <1>1, <2>1, <2>2 DEF PlansKept
<1>3. orders'[t].req = orders[t].req
  BY <1>1, <1>2 DEF RequestsKept
<1>4. ASSUME NEW f \in plan'[v].fills
      PROVE  orders'[f.maker].req = orders[f.maker].req
  <2>1. plan'[v] \in Plans
    BY <1>1 DEF Typed, TypeOK
  <2>2. f.maker \in OrderIds
    BY <2>1 DEF Plans, Fills
  <2>3. commands[f.maker].state # "none"
    BY <1>2 DEF PlanStands, Published
  <2> QED BY <1>1, <2>2, <2>3 DEF RequestsKept
<1>5. \A f \in plan'[v].fills : f.price = orders'[f.maker].req.price
  BY <1>2, <1>4 DEF PlanAffordable
<1> QED BY <1>2, <1>3, <1>5 DEF PlanAffordable
(* Only an admission admits.                                               *)
LEMMA AdmittedByAdmit ==
    ASSUME Typed, IInv, FundsInv, [Next]_vars, NEW o \in Admitted', o \notin Admitted
    PROVE  \E r \in Requests : Admit(o, r)
<1>1. ASSUME NEW s, Balanced(s) PROVE FALSE
  BY <1>1 DEF Balanced, WrittenBack
<1>2. ASSUME NEW p \in OrderIds, Cancel(p) PROVE FALSE
  BY <1>1, <1>2, CancelFunds
<1>3. ASSUME NEW w \in Workers, CommitTerminal(w) \/ CommitMatch(w) PROVE FALSE
  BY <1>1, <1>3, CommitTerminalFunds, CommitMatchFunds DEF FundsInv
<1>4. CASE UNCHANGED <<orders, traded, wallet, fees>>
  BY <1>4 DEF Admitted
<1>5. ASSUME NEW p \in OrderIds, NEW r \in Requests, Admit(p, r)
      PROVE  Admit(o, r)
  <2>1. o \in OrderIds
    BY DEF Admitted
  <2>2. o # p => orders'[o] = orders[o]
    BY <1>5, <2>1 DEF Admit, Typed, TypeOK
  <2>3. o = p
    BY <2>1, <2>2 DEF Admitted
  <2> QED BY <1>5, <2>3
<1> QED BY <1>2, <1>3, <1>4, <1>5, OtherSteps

LEMMA NextReserve ==
    ASSUME Typed, IInv, FundsInv, HoldsWithinReserve, [Next]_vars
    PROVE  HoldsWithinReserve'
<1> SUFFICES ASSUME NEW o \in Admitted'
             PROVE  orders'[o].hold <= OrderHold(orders'[o].req)
  BY DEF HoldsWithinReserve
<1>1. o \in OrderIds
  BY DEF Admitted
<1>2. CASE o \in Admitted
  <2>1. commands[o].state # "none"
    BY <1>1, <1>2 DEF Typed, InsertedAsPair, Admitted
  <2>2. orders'[o].req = orders[o].req
    BY <1>1, <2>1, NextKeeps DEF RequestsKept
  <2>3. orders'[o].hold <= orders[o].hold
    BY <1>2, StepsProgress
  <2>4. /\ orders[o].hold \in Nat /\ orders'[o].hold \in Nat
        /\ OrderHold(orders[o].req) \in Nat
    <3>1. Typed'
      BY NextTyped
    <3>2. orders'[o] \in OrderRows
      BY <1>1, <3>1 DEF Typed, TypeOK
    <3> QED BY <1>1, <3>2, OrderTypes, HoldIsNat DEF Typed, OrderRows
  <2> QED BY <1>2, <2>2, <2>3, <2>4 DEF HoldsWithinReserve
<1>3. CASE o \notin Admitted
  <2>1. PICK r \in Requests : Admit(o, r)
    BY <1>3, AdmittedByAdmit
  <2>2. orders'[o].req = r /\ orders'[o].hold = OrderHold(r)
    BY <1>1, <2>1 DEF Admit, Typed, TypeOK
  <2> QED BY <2>1, <2>2, HoldIsNat
<1> QED BY <1>2, <1>3

(* What a market purchase has paid changes only when it trades.            *)
LEMMA SamePayments ==
    ASSUME Typed, Typed', RowsInv, RowsInv', RequestsKept, NEW b \in Admitted,
           orders[b].req.type = "market",
           \A p \in OrderIds : traded'[b][p] = traded[b][p]
    PROVE  PaidBy(b)' = PaidBy(b)
<1>1. b \in OrderIds /\ orders'[b].req = orders[b].req
  BY DEF Typed, InsertedAsPair, Admitted, RequestsKept
<1>2. ASSUME NEW p \in OrderIds PROVE Payments(b)'[p] = Payments(b)[p]
  <2>1. ~(traded[p][b] > 0) /\ ~(traded'[p][b] > 0)
    BY <1>1 DEF RowsInv, MakersPublished
  <2>2. traded[b][p] > 0 => orders'[p].req = orders[p].req
    BY <1>1 DEF RowsInv, MakersPublished, Published, RequestsKept
  <2> QED BY <2>1, <2>2 DEF Payments
<1>3. Payments(b)' = Payments(b)
  BY <1>2 DEF Payments
<1> QED BY <1>3 DEF PaidBy

(* A match pays for the taker what its plan spends.                        *)
LEMMA MatchPaysPlan ==
    ASSUME Typed, Typed', IInv, FundsInv, PlansAffordable, RequestsKept,
           NEW w \in Workers, NEW t \in Admitted, CommitMatch(w), job[w] = t,
           orders[t].req.type = "market", orders[t].req.side = "buy"
    PROVE  PaidBy(t)' = PlannedSpend(plan[w].fills, "sell")
<1> DEFINE fills == plan[w].fills
           debit == [f \in fills |-> BuyerQuoteDebit(f, "sell")]
           pays == Payments(t)'
           maker == [f \in fills |-> f.maker]
<1>1. Settles(t, fills) /\ MatchedBy(fills, t)
  BY ValidatedSettles, MatchAddsFills DEF FundsInv
<1>2. t \in OrderIds
  BY DEF Admitted
<1>3. pc[w] = "planned" /\ orders[t].status = "NEW" /\ \A f \in fills : f.qty > 0
  <2>1. \A f \in fills : f.qty \in 1..orders[f.maker].remaining
    BY DEF CommitMatch, Validated
  <2>2. \A f \in fills : f.qty \in Nat
    BY <1>1 DEF Settles, Fills
  <2> QED BY <2>1, <2>2 DEF CommitMatch, Validated
<1>4. ~HasTraded(t)
  <2>1. evidence[t] = << >>
    BY <1>2, <1>3 DEF IInv, RowsInv, ExecutedIsDecided, IsGTC, Terminal
  <2> QED BY <1>2, <2>1, UnexecutedIsFresh DEF IInv
<1>5. ASSUME NEW p \in OrderIds
      PROVE  /\ traded'[t][p] = FillOf(fills, p) /\ ~(traded'[p][t] > 0)
             /\ FillOf(fills, p) \in Nat
  <2>1. traded[t][p] \in Nat /\ traded[p][t] \in Nat
    BY <1>2 DEF Typed, TypeOK
  <2>2. traded[t][p] = 0 /\ traded[p][t] = 0
    BY <1>4, <2>1 DEF HasTraded
  <2> HIDE DEF fills
  <2>3. FillOf(fills, p) \in Nat /\ FillOf(fills, t) = 0
    BY <1>1 DEF MatchedBy
  <2>4. /\ traded'[t][p] = traded[t][p] + FillOf(fills, p)
        /\ traded'[p][t] = traded[p][t] + (IF p = t THEN FillOf(fills, t) ELSE 0)
    BY <1>1, <1>2 DEF MatchedBy
  <2> QED BY <2>2, <2>3, <2>4
<1>6. ASSUME NEW p \in OrderIds
      PROVE  pays[p] = IF FillOf(fills, p) > 0
                       THEN Cost(FillOf(fills, p), orders'[p].req.price, "sell")
                       ELSE 0
  <2> DEFINE first == IF FillOf(fills, p) > 0
                      THEN Cost(FillOf(fills, p), orders'[p].req.price, "sell")
                      ELSE 0
  <2>1. pays[p] = first + 0
    BY <1>5 DEF Payments, Cost
  <2>2. first \in Nat
    <3>1. orders' \in [OrderIds -> OrderRows]
      BY DEF Typed, TypeOK
    <3>2. orders'[p].req \in Requests
      BY ONLY <3>1, p \in OrderIds DEF OrderRows
    <3>3. orders'[p].req.price \in Nat
      BY ONLY <3>2, OrdersAssumption DEF RequestType
    <3> QED BY <1>5, <3>3, CostIsNat
  <2> QED BY <2>1, <2>2
<1>7. ASSUME NEW f \in fills
      PROVE  /\ f.maker \in OrderIds /\ debit[f] \in Int
             /\ pays[f.maker] = debit[f]
  <2>1. f.maker \in OrderIds /\ f.qty \in Nat /\ f.price \in Nat
    BY <1>1 DEF Settles, Fills
  <2>2. FillOf(fills, f.maker) = f.qty
    <3>1. NamesMakersOnce(fills)
      BY <1>1 DEF Settles, NamesMakersOnce
    <3> QED BY <3>1, FillOfIsQty
  <2>3. f.price = orders[f.maker].req.price
    BY <1>3 DEF PlansAffordable, PlanAffordable
  <2>4. commands[f.maker].state # "none"
    <3>1. orders[f.maker].status # "none"
      BY <1>1 DEF Settles, Admitted
    <3> QED BY <2>1, <3>1 DEF Typed, InsertedAsPair
  <2>5. orders'[f.maker].req.price = f.price
    BY <2>1, <2>3, <2>4 DEF RequestsKept
  <2>6. debit[f] = Cost(f.qty, f.price, "sell")
    BY DEF BuyerQuoteDebit, Cost
  <2>7. pays[f.maker] = Cost(f.qty, f.price, "sell")
    <3> HIDE DEF pays, fills
    <3> QED BY <1>3, <1>6, <2>1, <2>2, <2>5
  <2>8. Cost(f.qty, f.price, "sell") \in Nat
    BY <2>1, CostIsNat
  <2> QED BY <2>1, <2>6, <2>7, <2>8
<1>8. ASSUME NEW p \in OrderIds, \A f \in fills : f.maker # p PROVE pays[p] = 0
  <2>1. FillOf(fills, p) = 0
    BY <1>8 DEF FillOf
  <2> HIDE DEF pays, fills
  <2> QED BY <1>6, <2>1
<1>9. SumFunctionOnSet(pays, OrderIds) = SumFunctionOnSet(debit, fills)
  <2>1. IsFiniteSet(fills) /\ \A f, g \in fills : maker[f] = maker[g] => f = g
    BY <1>1 DEF Settles
  <2>2. \A f \in fills : maker[f] = f.maker
    OBVIOUS
  <2>3. \A f \in fills :
           maker[f] \in OrderIds /\ debit[f] \in Int /\ pays[maker[f]] = debit[f]
    BY <1>7
  <2>4. \A p \in OrderIds : (\A f \in fills : maker[f] # p) => pays[p] = 0
    BY <1>8, <2>2
  <2> HIDE DEF pays, debit, fills, maker
  <2>5. Reindexes(maker, debit, fills, pays, OrderIds)
    BY <2>1, <2>3, <2>4 DEF Reindexes
  <2> QED BY <2>1, <2>5, FiniteOrders, SumReindex
<1> QED BY <1>9 DEF PaidBy, PlannedSpend

LEMMA NextMarketBuys ==
    ASSUME Typed, IInv, FundsInv, CostInv, [Next]_vars
    PROVE  MarketBuysCovered'
<1>1. Typed' /\ RowsInv' /\ RequestsKept
  BY NextTyped, NextKeeps
<1> SUFFICES ASSUME NEW b \in Admitted', orders'[b].req.side = "buy",
                    orders'[b].req.type = "market"
             PROVE  PaidBy(b)' <= OrderHold(orders'[b].req)
  BY DEF MarketBuysCovered
<1>2. b \in OrderIds
  BY DEF Admitted
<1>3. CASE b \notin Admitted
  <2>1. PICK r \in Requests : Admit(b, r)
    BY <1>3, AdmittedByAdmit
  <2>2. traded' = traded /\ orders'[b].req \in Requests
    BY <1>1, <1>2, <2>1 DEF Admit, Typed, TypeOK, OrderRows
  <2>3. \A p \in OrderIds : traded'[b][p] = 0 /\ traded'[p][b] = 0
    BY <1>2, <1>3, <2>2, UnadmittedUntraded DEF IInv, Admitted
  <2>4. \A p \in OrderIds : Payments(b)'[p] = 0
    BY <2>3 DEF Payments
  <2>5. PaidBy(b)' = 0
    BY <2>4, FiniteOrders, SumZero DEF PaidBy
  <2> QED BY <2>2, <2>5, HoldIsNat
<1>4. CASE b \in Admitted
  <2>1. orders'[b].req = orders[b].req
    BY <1>1, <1>2, <1>4 DEF Typed, InsertedAsPair, Admitted, RequestsKept
  <2>2. PaidBy(b) <= OrderHold(orders[b].req)
    BY <1>4, <2>1 DEF CostInv, MarketBuysCovered
  <2>3. ASSUME \A p \in OrderIds : traded'[b][p] = traded[b][p]
        PROVE  PaidBy(b)' <= OrderHold(orders'[b].req)
    <3>1. PaidBy(b)' = PaidBy(b)
      BY <1>1, <1>4, <2>1, <2>3, SamePayments DEF IInv
    <3> QED BY <2>1, <2>2, <3>1
  <2>4. ASSUME NEW w \in Workers, CommitMatch(w)
        PROVE  PaidBy(b)' <= OrderHold(orders'[b].req)
    <3>1. CASE job[w] = b
      <4>1. PaidBy(b)' = PlannedSpend(plan[w].fills, "sell")
        BY <1>1, <1>4, <2>1, <2>4, <3>1, MatchPaysPlan DEF CostInv
      <4>2. pc[w] = "planned" /\ plan[w].reject = "none"
        BY <2>4 DEF CommitMatch
      <4>3. PlannedSpend(plan[w].fills, "sell") <= OrderHold(orders[b].req)
        BY <2>1, <3>1, <4>2 DEF CostInv, PlansAffordable, PlanAffordable
      <4> QED BY <2>1, <4>1, <4>3
    <3>2. CASE job[w] # b
      <4>1. MatchedBy(plan[w].fills, job[w])
        BY <2>4, MatchAddsFills DEF FundsInv
      <4>2. \A p \in OrderIds : traded[b][p] \in Nat
        BY <1>2 DEF Typed, TypeOK
      <4>3. \A p \in OrderIds : traded'[b][p] = traded[b][p]
        BY <1>2, <3>2, <4>1, <4>2 DEF MatchedBy
      <4> QED BY <2>3, <4>3
    <3> QED BY <3>1, <3>2
  <2>5. CASE ~\E w \in Workers : CommitMatch(w)
    <3>1. traded' = traded
      <4>1. ASSUME NEW o \in OrderIds, NEW r \in Requests, Admit(o, r)
            PROVE  traded' = traded
        BY <4>1 DEF Admit
      <4>2. ASSUME NEW o \in OrderIds, Cancel(o) PROVE traded' = traded
        BY <4>2 DEF Cancel, CancelOver
      <4>3. ASSUME NEW w \in Workers, CommitTerminal(w) PROVE traded' = traded
        BY <4>3 DEF CommitTerminal
      <4> QED BY <2>5, <4>1, <4>2, <4>3, OtherSteps
    <3> QED BY <2>3, <3>1
  <2> QED BY <2>4, <2>5
<1> QED BY <1>3, <1>4

LEMMA InitCost == Init => CostInv
<1> SUFFICES ASSUME Init PROVE CostInv
  OBVIOUS
<1>1. Admitted = {}
  BY DEF Init, Admitted
<1>2. PlansAffordable
  BY DEF Init, PlansAffordable
<1> QED BY <1>1, <1>2 DEF CostInv, HoldsWithinReserve, MarketBuysCovered

LEMMA CostInvariance == Spec => [](Typed /\ IInv /\ FundsInv /\ CostInv)
<1>1. Typed /\ IInv /\ FundsInv /\ CostInv /\ [Next]_vars
        => (Typed /\ IInv /\ FundsInv /\ CostInv)'
  <2>1. Typed /\ IInv /\ FundsInv /\ CostInv /\ [Next]_vars => CostInv'
    BY NextReserve, NextAffordable, NextMarketBuys DEF CostInv
  <2> QED BY <2>1, NextTyped, NextInv, NextFunds
<1> QED BY InitTyped, InitInv, InitFunds, InitCost, <1>1, PTL DEF Spec

(* A purchase, whatever its type, pays for all its fills and their fees no *)
(* more than the amount reserved when it was admitted.                     *)
THEOREM PurchasesStayWithinReserve == Spec => []NeverOverpays
<1>1. Typed /\ IInv /\ FundsInv /\ CostInv => NeverOverpays
  BY LimitBuysCovered DEF IInv, FundsInv, CostInv, MarketBuysCovered, NeverOverpays
<1> QED BY CostInvariance, <1>1, PTL
(***************************************************************************)
(* Open orders stay covered.                                               *)
(***************************************************************************)
(* What a limit purchase would cost per unit, in the units of its hold.    *)
Unit == PriceScale * FeeDen
Worst(r) == r.price * (FeeDen + MaximumBuyFeeRate)

LEMMA UnitsAreNat ==
    ASSUME NEW r \in Requests
    PROVE  Unit \in Nat \ {0} /\ Worst(r) \in Nat
<1>1. r.price \in Nat /\ FeeDen + MaximumBuyFeeRate \in Nat
  BY RatesAreNat, OrdersAssumption DEF RequestType
<1> QED BY <1>1, RatesAreNat, SMT DEF Unit, Worst

(* A fill frees no more of a purchase's hold than its exact cost at the    *)
(* limit and the worst fee, rounded up.                                    *)
LEMMA FreedWithin ==
    ASSUME NEW r \in Requests, r.side # "sell", r.type # "market",
           NEW qty \in Nat, NEW residual \in Int
    PROVE  /\ Freed(r, qty, r.price, residual) \in Int
           /\ Freed(r, qty, r.price, residual) * Unit <= qty * Worst(r) + Unit
<1> DEFINE P == PriceScale
           D == FeeDen
           N == FeeDen + MaximumBuyFeeRate
           price == r.price
           G == QuoteGross(qty, price)
           cover == FeeCovered(G, r.type)
           freed == Freed(r, qty, price, residual)
<1>1. P \in Nat \ {0} /\ D \in Nat \ {0} /\ N \in Nat /\ price \in Nat
  BY RatesAreNat, OrdersAssumption DEF RequestType
<1>2. G \in Nat /\ cover \in Nat
  BY <1>1, AmountsAreNat, CoveredIsNat
<1>3. freed \in Int /\ freed <= cover
  BY <1>2 DEF Freed, MatchedRelease, Least
<1>4. G * P <= qty * price
  <2>1. qty * price \in Nat
    BY <1>1, SMT
  <2> QED BY <1>1, <2>1, RoundingBounds DEF QuoteGross
<1>5. cover * D <= G * N + D
  <2>1. G * N \in Nat
    BY <1>1, <1>2, SMT
  <2>2. cover = Ceiling(G * N, D)
    BY DEF FeeCovered
  <2> QED BY <1>1, <2>1, <2>2, RoundingBounds
<1> HIDE DEF P, D, N, price, G, cover, freed
<1>6. freed * (P * D) <= cover * (P * D)
  <2>1. P * D \in Nat
    BY <1>1, SMT
  <2> QED BY <1>2, <1>3, <2>1, FactorOrder
<1>7. (cover * D) * P <= (G * N + D) * P
  <2>1. cover * D \in Int /\ G * N + D \in Int /\ P \in Nat
    BY <1>1, <1>2, SMT
  <2> QED BY <1>5, <2>1, FactorOrder
<1>8. (G * P) * N <= (qty * price) * N
  <2>1. G * P \in Int /\ qty * price \in Int
    BY <1>1, <1>2, SMT
  <2> QED BY <1>1, <1>4, <2>1, FactorOrder
<1>9. /\ cover * (P * D) = (cover * D) * P
      /\ (G * N + D) * P = (G * P) * N + P * D
      /\ (qty * price) * N = qty * (price * N)
  BY <1>1, <1>2, SMT
<1>10. /\ freed * (P * D) \in Int /\ cover * (P * D) \in Int /\ (G * P) * N \in Int
       /\ P * D \in Int /\ qty * (price * N) \in Int
  <2>1. P * D \in Nat /\ G * P \in Nat /\ price * N \in Nat
    BY <1>1, <1>2, SMT
  <2> QED BY <1>1, <1>2, <1>3, <2>1, SMT
<1>11. freed * (P * D) <= qty * (price * N) + P * D
  BY <1>6, <1>7, <1>8, <1>9, <1>10
<1> QED BY <1>3, <1>11 DEF Unit, Worst, P, D, N, price, freed

(* What one more fill adds to a plan.                                      *)
LEMMA TotalOfOneMore ==
    ASSUME NEW F, F \subseteq Fills, IsFiniteSet(F), NEW f \in F
    PROVE  /\ TotalFilled(F) = f.qty + TotalFilled(F \ {f})
           /\ TotalFilled(F \ {f}) \in Nat /\ f.qty \in Nat
<1> DEFINE q == [e \in F |-> e.qty]
           rest == [e \in F \ {f} |-> e.qty]
<1>1. /\ \A e \in F : q[e] \in Nat /\ q[e] = e.qty
      /\ \A e \in F \ {f} : rest[e] = q[e]
  BY DEF Fills
<1>2. IsFiniteSet(F \ {f})
  BY FS_RemoveElement
<1> HIDE DEF q, rest
<1>3. SumFunctionOnSet(q, F) = q[f] + SumFunctionOnSet(q, F \ {f})
  BY <1>1, SumRemove
<1>4. SumFunctionOnSet(rest, F \ {f}) = SumFunctionOnSet(q, F \ {f})
  BY <1>1, <1>2, SumEqual
<1>5. SumFunctionOnSet(q, F \ {f}) \in Nat
  BY <1>1, <1>2, SumNat
<1> QED BY <1>1, <1>3, <1>4, <1>5 DEF TotalFilled, q, rest

(* The holds a settled plan leaves: each maker's less what its one fill    *)
(* frees, a selling taker's less what it sold, and a limit purchase's less *)
(* no more than its fills cost and one unit for each.                      *)
Spent(t, F, before, after) ==
    (after + Cardinality(F)) * Unit + TotalFilled(F) * Worst(orders[t].req)
        >= before * Unit

HoldsSettled(s, t, F, z) ==
    /\ \A f \in F :
          z.hold[f.maker] = s.hold[f.maker] - FreedOfMaker(t, f, s.hold[f.maker])
    /\ orders[t].req.side = "sell" => z.hold[t] = s.hold[t] - TotalFilled(F)
    /\ (orders[t].req.side # "sell" /\ orders[t].req.type # "market") =>
          Spent(t, F, s.hold[t], z.hold[t])

(* The arithmetic of one more fill.                                        *)
LEMMA OneMoreSpent ==
    ASSUME NEW before \in Int, NEW was \in Int, NEW freed \in Int,
           NEW n \in Nat, NEW total \in Nat, NEW q \in Nat, NEW u \in Nat, NEW c \in Nat,
           (was + n) * u + total * c >= before * u,
           freed * u <= q * c + u
    PROVE  ((was - freed) + (n + 1)) * u + (q + total) * c >= before * u
<1>1. /\ ((was - freed) + (n + 1)) * u = (was + n) * u - freed * u + u
      /\ (q + total) * c = q * c + total * c
  BY SMT
<1>2. /\ (was + n) * u \in Int /\ freed * u \in Int /\ q * c \in Int
      /\ total * c \in Int /\ before * u \in Int
  BY SMT
<1> QED BY <1>1, <1>2

LEMMA SettlingHolds ==
    ASSUME TypeOK, NEW s \in Copies, \A o \in OrderIds : s.hold[o] \in Nat,
           NEW t \in Admitted, NEW fills, Settles(t, fills)
    PROVE  HoldsSettled(s, t, fills, SettleFills(s, orders, t, fills))
<1>1. PICK g : /\ IsSettling(g, s, t, SUBSET fills)
               /\ SettleFills(s, orders, t, fills) = g[fills]
  BY SettlingOfIter
<1> DEFINE B == {F \in SUBSET fills : ~HoldsSettled(s, t, F, g[F])}
           r == orders[t].req
<1>2. SUFFICES ASSUME B # {} PROVE FALSE
  BY <1>1
<1>3. \A F \in SUBSET fills : IsFiniteSet(F) /\ Settles(t, F)
  BY FS_Subset DEF Settles
<1>4. PICK F \in B : \A x \in F : F \ {x} \notin B
  BY <1>2, <1>3, SmallestSet
<1>5. F \in SUBSET fills /\ ~HoldsSettled(s, t, F, g[F])
  BY <1>4
<1>6. /\ t \in OrderIds /\ r \in Requests /\ s.hold[t] \in Nat
      /\ Unit \in Nat \ {0} /\ Worst(r) \in Nat
  BY OrderTypes, UnitsAreNat DEF Admitted
<1>7. F # {}
  <2>1. SUFFICES ASSUME F = {} PROVE HoldsSettled(s, t, F, g[F])
    BY <1>5
  <2>2. g[F] = s
    BY <1>1, <1>5, <2>1 DEF IsSettling
  <2>3. TotalFilled(F) = 0 /\ Cardinality(F) = 0
    BY <2>1, NoFillsNoTotal, FS_EmptySet
  <2>4. (s.hold[t] + 0) * Unit + 0 * Worst(r) >= s.hold[t] * Unit
    <3>1. s.hold[t] * Unit \in Nat /\ 0 * Worst(r) = 0
      BY <1>6, SMT
    <3> QED BY <1>6, <3>1
  <2> HIDE DEF r
  <2> QED BY <1>6, <2>1, <2>2, <2>3, <2>4 DEF HoldsSettled, Spent, r
<1> DEFINE f == LastOf(t, F)
           y == g[F \ {f}]
<1>8. f \in F
  BY <1>3, <1>5, <1>7, LastIsOne
<1>9. g[F] = SettleFill(y, orders, t, f)
  BY <1>1, <1>5, <1>7 DEF IsSettling
<1>10. HoldsSettled(s, t, F \ {f}, y)
  BY <1>4, <1>5, <1>8
<1>11. Settled(s, t, F \ {f}, y)
  <2>1. F \ {f} \in SUBSET fills
    BY <1>5
  <2> QED BY <1>1, <2>1, SettlingEffect
<1>12. PICK z : z = g[F]
  OBVIOUS
<1> HIDE DEF f, y, B
<1>13. /\ f \in Fills /\ f.maker \in Admitted /\ f.maker # t /\ f.maker \in OrderIds
       /\ y \in Copies
       /\ \A e \in F \ {f} : e.maker # f.maker /\ e.maker # t /\ e.maker \in OrderIds
  BY <1>5, <1>8, <1>11 DEF Settles, Settled, Admitted
<1>14. z.hold = [y.hold EXCEPT
             ![t] = y.hold[t] - FreedOfTaker(t, f, y.hold[t]),
             ![f.maker] = y.hold[f.maker] - FreedOfMaker(t, f, y.hold[f.maker])]
  <2>1. z = SettleFill(y, orders, t, f)
    BY <1>9, <1>12
  <2> QED BY <1>13, <2>1, SettleFillEffect
<1>15. /\ z.hold[t] = y.hold[t] - FreedOfTaker(t, f, y.hold[t])
       /\ z.hold[f.maker] = y.hold[f.maker] - FreedOfMaker(t, f, y.hold[f.maker])
       /\ \A e \in F \ {f} : z.hold[e.maker] = y.hold[e.maker]
       /\ y.hold[t] \in Int
  BY <1>6, <1>13, <1>14 DEF Copies
<1>16. y.hold[f.maker] = s.hold[f.maker]
  BY <1>13, <1>11 DEF Settled
<1>17. ASSUME NEW e \in F
       PROVE  z.hold[e.maker] = s.hold[e.maker] - FreedOfMaker(t, e, s.hold[e.maker])
  BY <1>10, <1>15, <1>16 DEF HoldsSettled
<1>18. /\ TotalFilled(F) = f.qty + TotalFilled(F \ {f})
       /\ TotalFilled(F \ {f}) \in Nat /\ f.qty \in Nat
       /\ Cardinality(F) = Cardinality(F \ {f}) + 1
       /\ Cardinality(F \ {f}) \in Nat
  <2>1. F \subseteq Fills /\ IsFiniteSet(F)
    BY <1>3, <1>5 DEF Settles
  <2>2. /\ IsFiniteSet(F \ {f}) /\ Cardinality(F \ {f}) = Cardinality(F) - 1
        /\ Cardinality(F) \in Nat /\ Cardinality(F \ {f}) \in Nat
    BY <1>8, <2>1, FS_RemoveElement, FS_CardinalityType
  <2> QED BY <1>8, <2>1, <2>2, TotalOfOneMore
<1>19. ASSUME r.side = "sell" PROVE z.hold[t] = s.hold[t] - TotalFilled(F)
  <2>1. FreedOfTaker(t, f, y.hold[t]) = f.qty
    BY <1>19 DEF FreedOfTaker, Freed
  <2>2. y.hold[t] = s.hold[t] - TotalFilled(F \ {f})
    BY <1>10, <1>19 DEF HoldsSettled
  <2> QED BY <1>6, <1>15, <1>18, <2>1, <2>2
<1>20. ASSUME r.side # "sell", r.type # "market"
       PROVE  Spent(t, F, s.hold[t], z.hold[t])
  <2> DEFINE freed == FreedOfTaker(t, f, y.hold[t])
             n == Cardinality(F \ {f})
             total == TotalFilled(F \ {f})
  <2>1. freed \in Int /\ freed * Unit <= f.qty * Worst(r) + Unit
    <3>1. freed = Freed(r, f.qty, r.price, y.hold[t])
      <4>1. r.side = "buy"
        BY <1>6, <1>20, OrdersAssumption DEF RequestType, Sides
      <4> QED BY <1>20, <4>1 DEF FreedOfTaker, TakerHoldPrice
    <3> HIDE DEF freed, r
    <3> QED BY <1>6, <1>15, <1>18, <1>20, <3>1, FreedWithin
  <2>2. (y.hold[t] + n) * Unit + total * Worst(r) >= s.hold[t] * Unit
    BY <1>10, <1>20 DEF HoldsSettled, Spent
  <2> HIDE DEF freed, n, total
  <2>3. ((y.hold[t] - freed) + (n + 1)) * Unit + (f.qty + total) * Worst(r)
            >= s.hold[t] * Unit
    <3>1. PICK before \in Int : before = s.hold[t]
      BY <1>6
    <3>2. PICK was \in Int : was = y.hold[t]
      BY <1>15
    <3>3. PICK N \in Nat : N = n
      BY <1>18 DEF n
    <3>4. PICK T \in Nat : T = total
      BY <1>18 DEF total
    <3>5. PICK q \in Nat : q = f.qty
      BY <1>18
    <3>6. PICK R \in Int : R = freed
      BY <2>1
    <3>7. PICK u \in Nat : u = Unit
      BY <1>6
    <3>8. PICK c \in Nat : c = Worst(r)
      BY <1>6
    <3>9. (was + N) * u + T * c >= before * u /\ R * u <= q * c + u
      BY <2>1, <2>2, <3>1, <3>2, <3>3, <3>4, <3>5, <3>6, <3>7, <3>8
    <3>10. ((was - R) + (N + 1)) * u + (q + T) * c >= before * u
      BY <3>9, OneMoreSpent
    <3> QED BY <3>1, <3>2, <3>3, <3>4, <3>5, <3>6, <3>7, <3>8, <3>10
  <2> QED BY <1>15, <1>18, <2>3 DEF Spent, freed, n, total
<1> QED BY <1>5, <1>12, <1>17, <1>19, <1>20 DEF HoldsSettled
(* What a match leaves of the orders that took part.                       *)
MatchLeaves(F, t) ==
    /\ orders[t].status = "NEW"
    /\ \A o \in OrderIds \ {t} : (\A f \in F : f.maker # o) => orders'[o] = orders[o]
    /\ \A f \in F :
          LET m == f.maker
          IN  /\ f.qty \in 1..orders[m].remaining
              /\ orders[m].status \in Open
              /\ orders[m].req.type = "limit"
              /\ orders[m].req.side = Opposite(orders[t].req.side)
              /\ orders'[m].hold = orders[m].hold - FreedOfMaker(t, f, orders[m].hold)
              /\ orders'[m].status \in Open => f.qty # orders[m].remaining
    /\ orders'[t].status \in Open =>
          /\ orders[t].req.side = "sell" =>
                orders'[t].hold = orders[t].hold - TotalFilled(F)
          /\ (orders[t].req.side # "sell" /\ orders[t].req.type # "market") =>
                Spent(t, F, orders[t].hold, orders'[t].hold)

LEMMA MatchHolds ==
    ASSUME Typed, IInv, FundsInv, NEW w \in Workers, NEW t, CommitMatch(w), job[w] = t
    PROVE  MatchLeaves(plan[w].fills, t)
<1> DEFINE F == plan[w].fills
           status == TakerStatus(orders[t].req, seen[w], TotalFilled(F))
<1>1. PICK y : y = SettleFills(Rows, orders, t, F)
  OBVIOUS
<1>2. PICK s : s = MatchedRows(t, seen[w], F)
  OBVIOUS
<1>3. s = IF status \in Terminal THEN ReleaseResidual(y, orders[t].req, t) ELSE y
  BY <1>1, <1>2 DEF MatchedRows
<1>4. Settles(t, F) /\ t \in OrderIds /\ t \in Admitted
  BY ValidatedSettles DEF Settles, Admitted, FundsInv
<1>5. /\ orders' = MatchedOrders(t, seen[w], F, s.hold)
      /\ pc[w] = "planned" /\ plan[w].reject = "none"
      /\ orders[t].status = "NEW"
      /\ \A f \in F : /\ orders[f.maker].status \in Open
                      /\ orders[f.maker].req.type = "limit"
                      /\ f.qty \in 1..orders[f.maker].remaining
  BY <1>2 DEF CommitMatch, Validated
<1>6. \A f \in F : orders[f.maker].req.side = Opposite(orders[t].req.side)
  BY <1>5 DEF IInv, PlansStand, PlanStands
<1>7. Balanced(s)
  BY <1>2, CommitMatchFunds DEF FundsInv
<1>8. orders'[t].status = status
  BY CommitMatchEffect DEF MatchEffect, StatusAfter
<1> HIDE DEF F, status
<1>9. /\ Settled(Rows, t, F, y) /\ HoldsSettled(Rows, t, F, y)
      /\ \A o \in OrderIds : Rows.hold[o] = orders[o].hold
  <2>1. /\ Rows \in Copies /\ \A o \in OrderIds : Rows.hold[o] \in Nat
        /\ \A o \in OrderIds : Rows.hold[o] = orders[o].hold
    BY RowsAreACopy
  <2> QED BY <1>1, <1>4, <2>1, SettleFillsEffect, SettlingHolds DEF Typed
<1>10. /\ \A o \in OrderIds \ {t} : s.hold[o] = y.hold[o]
       /\ status \notin Terminal => s = y
  <2>1. CASE status \in Terminal
    <3>1. y \in Copies
      BY <1>9 DEF Settled
    <3>2. s.hold = [y.hold EXCEPT ![t] = 0]
      BY <1>3, <1>4, <2>1, <3>1, ResidualEffect DEF Typed
    <3> QED BY <2>1, <3>1, <3>2 DEF Copies
  <2>2. CASE status \notin Terminal
    BY <1>3, <2>2
  <2> QED BY <2>1, <2>2
<1>11. \A o \in OrderIds : orders'[o].hold = s.hold[o]
  BY <1>7 DEF Balanced, WrittenBack
<1>12. ASSUME NEW o \in OrderIds \ {t}, \A f \in F : f.maker # o
       PROVE  orders'[o] = orders[o]
  <2>1. FillOf(F, o) = 0
    BY <1>12 DEF FillOf
  <2> QED BY <1>5, <2>1 DEF MatchedOrders
<1>13. ASSUME NEW f \in F
       PROVE  /\ orders'[f.maker].hold
                    = orders[f.maker].hold - FreedOfMaker(t, f, orders[f.maker].hold)
              /\ orders'[f.maker].status \in Open => f.qty # orders[f.maker].remaining
  <2>1. f.maker \in OrderIds /\ f.maker # t /\ f.qty \in 1..orders[f.maker].remaining
        /\ f.qty \in Nat
    BY <1>4, <1>5 DEF Settles, Admitted, Fills
  <2>2. orders'[f.maker].hold = y.hold[f.maker]
    BY <1>10, <1>11, <2>1
  <2>3. y.hold[f.maker] = Rows.hold[f.maker] - FreedOfMaker(t, f, Rows.hold[f.maker])
    BY <1>9 DEF HoldsSettled
  <2>4. ASSUME f.qty = orders[f.maker].remaining PROVE orders'[f.maker].status = "FILLED"
    <3>1. FillOf(F, f.maker) = f.qty
      <4>1. NamesMakersOnce(F)
        BY <1>4 DEF Settles, NamesMakersOnce
      <4> QED BY <4>1, FillOfIsQty
    <3>2. f.qty > 0
      BY <2>1
    <3>3. orders'[f.maker] = ApplyFill(orders[f.maker], f.qty, MakerStatus(f.maker, f.qty),
                                       s.hold[f.maker])
      BY <1>5, <2>1, <3>1, <3>2 DEF MatchedOrders
    <3>4. MakerStatus(f.maker, f.qty) = "FILLED"
      BY <2>4 DEF MakerStatus
    <3>5. orders[f.maker] \in OrderRows
      BY <2>1, OrderTypes DEF Typed
    <3> QED BY <3>3, <3>4, <3>5 DEF ApplyFill, OrderRows
  <2> QED BY <1>9, <2>1, <2>2, <2>3, <2>4 DEF Open
<1>14. ASSUME orders'[t].status \in Open
       PROVE  /\ orders[t].req.side = "sell" =>
                    orders'[t].hold = orders[t].hold - TotalFilled(F)
              /\ (orders[t].req.side # "sell" /\ orders[t].req.type # "market") =>
                    Spent(t, F, orders[t].hold, orders'[t].hold)
  <2>1. s = y
    BY <1>8, <1>10, <1>14 DEF Open, Terminal
  <2>2. orders'[t].hold = y.hold[t] /\ Rows.hold[t] = orders[t].hold
    BY <1>4, <1>9, <1>11, <2>1
  <2> QED BY <1>9, <2>2 DEF HoldsSettled
<1>15. MatchLeaves(F, t)
  BY <1>5, <1>6, <1>12, <1>13, <1>14 DEF MatchLeaves
<1> QED BY <1>15 DEF F
(* The orders an order has traded with: one fill each, as a plan names a   *)
(* maker once and a taker is matched once.                                 *)
Partners(o) == {p \in OrderIds : traded[o][p] + traded[p][o] > 0}

LEMMA PartnersAreFinite ==
    ASSUME NEW P, P \subseteq OrderIds
    PROVE  IsFiniteSet(P) /\ Cardinality(P) \in Nat
BY FiniteOrders, FS_Subset, FS_CardinalityType

(* All that is needed of a match of taker t.                               *)
Matched(F, t) ==
    /\ Settles(t, F)
    /\ MatchedBy(F, t)
    /\ MatchLeaves(F, t)
    /\ \A p \in OrderIds : traded[t][p] = 0 /\ traded[p][t] = 0
    /\ \A o \in OrderIds :
          /\ orders'[o].req = orders[o].req
          /\ orders'[o].remaining \in Nat /\ orders'[o].hold \in Nat
          /\ orders'[o].filled + orders'[o].remaining
                = orders[o].filled + orders[o].remaining

LEMMA MatchIsOfFresh ==
    ASSUME Typed, IInv, FundsInv, NEW w \in Workers, NEW t, CommitMatch(w), job[w] = t
    PROVE  Matched(plan[w].fills, t)
<1> DEFINE F == plan[w].fills
<1>1. Settles(t, F) /\ MatchedBy(F, t) /\ MatchLeaves(F, t) /\ t \in OrderIds
  BY ValidatedSettles, MatchAddsFills, MatchHolds DEF Settles, Admitted, FundsInv
<1>2. MatchEffect(t, F, StatusAfter(w), EvidenceAfter(w))
  BY CommitMatchEffect
<1>3. evidence[t] = << >>
  <2>1. /\ evidence[t] \in Seq(Evidence) /\ EvidenceAfter(w) \in Evidence
        /\ evidence'[t] = Append(evidence[t], EvidenceAfter(w))
    BY <1>1, <1>2 DEF MatchEffect, Typed, TypeOK
  <2>2. Len(evidence'[t]) <= 1
    BY <1>1, CommitMatchRows DEF RowsInv, ExecutedOnce
  <2> HIDE DEF F
  <2>3. Len(evidence[t]) + 1 <= 1 /\ Len(evidence[t]) \in Nat
    BY <2>1, <2>2
  <2> QED BY <2>1, <2>3
<1>4. \A p \in OrderIds : traded[t][p] = 0 /\ traded[p][t] = 0
  <2>1. ~HasTraded(t)
    BY <1>1, <1>3, UnexecutedIsFresh DEF IInv
  <2>2. \A p \in OrderIds : traded[t][p] \in Nat /\ traded[p][t] \in Nat
    BY <1>1 DEF Typed, TypeOK
  <2> QED BY <2>1, <2>2 DEF HasTraded
<1>5. \A o \in OrderIds : orders'[o].req = orders[o].req
  BY CommitMatchFunds DEF FundsInv, Balanced, WrittenBack
<1>6. \A o \in OrderIds : /\ orders'[o].remaining \in Nat /\ orders'[o].hold \in Nat
                          /\ orders'[o].filled + orders'[o].remaining
                                = orders[o].filled + orders[o].remaining
  BY <1>2 DEF MatchEffect, OrderRows
<1> QED BY <1>1, <1>4, <1>5, <1>6 DEF Matched

(* Who has traded with whom after a match.                                 *)
LEMMA PartnersOfMatch ==
    ASSUME Typed, NEW F, NEW t, Matched(F, t)
    PROVE  /\ Cardinality(F) <= Cardinality(Partners(t)')
           /\ \A f \in F : Cardinality(Partners(f.maker)')
                              = Cardinality(Partners(f.maker)) + 1
           /\ \A o \in OrderIds \ {t} :
                 (\A f \in F : f.maker # o) => Partners(o)' = Partners(o)
<1>1. /\ t \in OrderIds /\ F \subseteq Fills /\ IsFiniteSet(F)
      /\ \A f \in F : f.maker \in OrderIds /\ f.maker # t
      /\ NamesMakersOnce(F)
      /\ \A f \in F : FillOf(F, f.maker) = f.qty /\ f.qty \in Nat /\ f.qty > 0
  <2>1. \A f \in F : f.qty \in 1..orders[f.maker].remaining
    BY DEF Matched, MatchLeaves
  <2>2. NamesMakersOnce(F) /\ F \subseteq Fills
    BY DEF Matched, Settles, NamesMakersOnce
  <2>3. \A f \in F : f.qty \in Nat /\ f.qty > 0
    BY <2>1, <2>2 DEF Fills
  <2> QED BY <2>2, <2>3, FillOfIsQty DEF Matched, Settles, Admitted
<1>2. ASSUME NEW o \in OrderIds, NEW p \in OrderIds
      PROVE  /\ traded'[o][p] = traded[o][p] + (IF o = t THEN FillOf(F, p) ELSE 0)
             /\ traded[o][p] \in Nat /\ FillOf(F, p) \in Nat
             /\ o = t => traded[o][p] = 0
             /\ p = t => traded[o][p] = 0 /\ FillOf(F, p) = 0
  BY DEF Matched, MatchedBy, Typed, TypeOK
<1>3. ASSUME NEW p \in OrderIds
      PROVE  p \in Partners(t)' <=> FillOf(F, p) > 0
  <2>1. /\ traded'[t][p] = FillOf(F, p) /\ FillOf(F, p) \in Nat
        /\ traded'[p][t] = 0
    BY <1>1, <1>2
  <2>2. traded'[t][p] + traded'[p][t] = FillOf(F, p)
    BY <2>1
  <2> QED BY <2>2 DEF Partners
<1>4. Cardinality(F) <= Cardinality(Partners(t)')
  <2> DEFINE maker == [f \in F |-> f.maker]
  <2>1. \A f \in F : f.maker \in Partners(t)'
    BY <1>1, <1>3
  <2>2. maker \in [F -> Partners(t)']
    BY <2>1
  <2>3. \A f, g \in F : f # g => maker[f] # maker[g]
    BY <1>1 DEF NamesMakersOnce
  <2>4. maker \in Injection(F, Partners(t)')
    BY <2>2, <2>3 DEF Injection, IsInjective
  <2>5. IsFiniteSet(Partners(t)')
    <3>1. Partners(t)' \subseteq OrderIds
      BY DEF Partners
    <3> QED BY <3>1, PartnersAreFinite
  <2> HIDE DEF maker
  <2> QED BY <2>4, <2>5, FS_Injection
<1>5. ASSUME NEW f \in F
      PROVE  Cardinality(Partners(f.maker)') = Cardinality(Partners(f.maker)) + 1
  <2> DEFINE m == f.maker
  <2>1. m \in OrderIds /\ m # t /\ FillOf(F, m) > 0
    BY <1>1
  <2> HIDE DEF m
  <2>2. ASSUME NEW p \in OrderIds
        PROVE  p \in Partners(m)' <=> p \in Partners(m) \/ p = t
    <3>1. /\ traded'[m][p] = traded[m][p] /\ traded[m][p] \in Nat
          /\ traded'[p][m] = traded[p][m] + (IF p = t THEN FillOf(F, m) ELSE 0)
          /\ traded[p][m] \in Nat /\ FillOf(F, m) \in Nat
      BY <1>2, <2>1
    <3>2. CASE p = t
      <4>1. traded'[m][p] + traded'[p][m] > 0
        BY <2>1, <3>1, <3>2
      <4> QED BY <3>2, <4>1 DEF Partners
    <3>3. CASE p # t
      <4>1. traded'[m][p] + traded'[p][m] = traded[m][p] + traded[p][m]
        BY <3>1, <3>3
      <4> QED BY <3>3, <4>1 DEF Partners
    <3> QED BY <3>2, <3>3
  <2>3. /\ Partners(m)' \subseteq OrderIds /\ Partners(m) \subseteq OrderIds
    BY DEF Partners
  <2>4. Partners(m)' = Partners(m) \cup {t}
    BY <1>1, <2>2, <2>3
  <2>5. t \notin Partners(m)
    <3>1. traded[m][t] = 0 /\ traded[t][m] = 0
      BY <1>1, <1>2, <2>1
    <3> QED BY <3>1 DEF Partners
  <2>6. IsFiniteSet(Partners(m))
    BY <2>3, PartnersAreFinite
  <2>7. Cardinality(Partners(m) \cup {t}) = Cardinality(Partners(m)) + 1
    BY <2>5, <2>6, FS_AddElement
  <2> QED BY <2>4, <2>7 DEF m
<1>6. ASSUME NEW o \in OrderIds \ {t}, \A f \in F : f.maker # o
      PROVE  Partners(o)' = Partners(o)
  <2>1. FillOf(F, o) = 0
    BY <1>6 DEF FillOf
  <2>2. ASSUME NEW p \in OrderIds
        PROVE  traded'[o][p] + traded'[p][o] = traded[o][p] + traded[p][o]
    <3>1. /\ traded'[o][p] = traded[o][p] + 0
          /\ traded'[p][o] = traded[p][o] + 0
          /\ traded[o][p] \in Nat /\ traded[p][o] \in Nat
      BY <1>2, <2>1
    <3> QED BY <3>1
  <2> QED BY <2>2 DEF Partners
<1> QED BY <1>4, <1>5, <1>6

(* An open order is covered.  A market purchase does not rest, so while it *)
(* is open it is untouched and its hold is its whole budget.               *)
Covers(r, hold, remaining, fills) ==
    /\ r.side = "sell" => hold = remaining
    /\ (r.side # "sell" /\ r.type # "market") =>
          (hold + fills) * Unit >= remaining * Worst(r)

IsCovered(o) ==
    Covers(orders[o].req, orders[o].hold, orders[o].remaining, Cardinality(Partners(o)))

CoverInv == \A o \in Admitted : orders[o].status \in Open => IsCovered(o)

(* The arithmetic of a fill of a resting purchase, and of its first match. *)
LEMMA CoverAfterFill ==
    ASSUME NEW hold \in Int, NEW freed \in Int, NEW n \in Nat, NEW rem \in Nat,
           NEW q \in Nat, NEW u \in Nat, NEW c \in Nat,
           (hold + n) * u >= rem * c, freed * u <= q * c + u
    PROVE  ((hold - freed) + (n + 1)) * u >= (rem - q) * c
<1>1. /\ ((hold - freed) + (n + 1)) * u = (hold + n) * u - freed * u + u
      /\ (rem - q) * c = rem * c - q * c
  BY SMT
<1>2. /\ (hold + n) * u \in Int /\ freed * u \in Int /\ q * c \in Int
      /\ rem * c \in Int
  BY SMT
<1> QED BY <1>1, <1>2

LEMMA CoverAfterMatch ==
    ASSUME NEW before \in Int, NEW after \in Int, NEW n \in Nat, NEW k \in Nat, n <= k,
           NEW rem \in Nat, NEW total \in Nat, NEW u \in Nat, NEW c \in Nat,
           before * u >= rem * c, (after + n) * u + total * c >= before * u
    PROVE  (after + k) * u >= (rem - total) * c
<1>1. (rem - total) * c = rem * c - total * c
  BY SMT
<1>2. (after + k) * u >= (after + n) * u
  <2>1. after + n \in Int /\ after + k \in Int /\ after + n <= after + k
    OBVIOUS
  <2> QED BY <2>1, FactorOrder
<1>3. /\ (after + n) * u \in Int /\ (after + k) * u \in Int /\ before * u \in Int
      /\ rem * c \in Int /\ total * c \in Int
  BY SMT
<1> QED BY <1>1, <1>2, <1>3

LEMMA MakerStaysCovered ==
    ASSUME Typed, NEW F, NEW t, Matched(F, t), NEW f \in F,
           IsCovered(f.maker), orders'[f.maker].status \in Open
    PROVE  IsCovered(f.maker)'
<1> DEFINE m == f.maker
           r == orders[m].req
           freed == FreedOfMaker(t, f, orders[m].hold)
<1>1. /\ m \in OrderIds /\ t \in OrderIds /\ m # t /\ f.qty \in Nat
      /\ orders[m].req \in Requests /\ orders[t].req \in Requests
      /\ orders[m].hold \in Nat /\ orders[m].remaining \in Nat
      /\ orders[m].filled \in Nat
  <2>1. f \in Fills /\ m \in OrderIds /\ t \in OrderIds /\ m # t
    BY DEF Matched, Settles, Admitted
  <2> QED BY <2>1, OrderTypes DEF Typed, Fills
<1>2. /\ orders'[m].req = r
      /\ r.type = "limit" /\ r.side = Opposite(orders[t].req.side)
      /\ orders'[m].hold = orders[m].hold - freed
      /\ f.qty # orders[m].remaining
  BY <1>1 DEF Matched, MatchLeaves
<1>3. freed = Freed(r, f.qty, MakerHoldPrice(t, f), orders[m].hold)
  BY <1>2 DEF FreedOfMaker
<1>4. orders'[m].remaining = orders[m].remaining - f.qty
  <2>1. NamesMakersOnce(F)
    BY DEF Matched, Settles, NamesMakersOnce
  <2>2. orders'[m].filled = orders[m].filled + f.qty
    BY <1>1, <2>1, FillOfIsQty DEF Matched, MatchedBy
  <2>3. orders'[m].filled + orders'[m].remaining = orders[m].filled + orders[m].remaining
    BY <1>1 DEF Matched
  <2>4. orders'[m].remaining \in Nat
    BY <1>1 DEF Matched
  <2> QED BY <1>1, <2>2, <2>3, <2>4
<1>5. Cardinality(Partners(m)') = Cardinality(Partners(m)) + 1
  BY PartnersOfMatch
<1>6. Cardinality(Partners(m)) \in Nat
  <2>1. Partners(m) \subseteq OrderIds
    BY DEF Partners
  <2> QED BY <2>1, PartnersAreFinite
<1>7. ASSUME r.side = "sell" PROVE orders'[m].hold = orders'[m].remaining
  <2>1. freed = f.qty
    BY <1>3, <1>7 DEF Freed
  <2>2. orders[m].hold = orders[m].remaining
    BY <1>7 DEF IsCovered, Covers
  <2> QED BY <1>2, <1>4, <2>1, <2>2
<1>8. ASSUME r.side # "sell"
      PROVE  (orders'[m].hold + Cardinality(Partners(m)')) * Unit
                >= orders'[m].remaining * Worst(r)
  <2>1. MakerHoldPrice(t, f) = r.price
    <3>1. orders[t].req.side # "buy"
      BY <1>2, <1>8 DEF Opposite
    <3> QED BY <3>1 DEF MakerHoldPrice
  <2>2. freed \in Int /\ freed * Unit <= f.qty * Worst(r) + Unit
    <3>1. r.type # "market" /\ orders[m].hold \in Int /\ r \in Requests
      BY <1>1, <1>2
    <3>2. freed = Freed(r, f.qty, r.price, orders[m].hold)
      BY <1>3, <2>1
    <3> HIDE DEF freed, r
    <3> QED BY <1>1, <1>8, <3>1, <3>2, FreedWithin
  <2>3. (orders[m].hold + Cardinality(Partners(m))) * Unit
            >= orders[m].remaining * Worst(r)
    BY <1>2, <1>8 DEF IsCovered, Covers
  <2>4. Unit \in Nat /\ Worst(r) \in Nat
    BY <1>1, UnitsAreNat
  <2> HIDE DEF freed, r, m
  <2>5. PICK hold \in Int : hold = orders[m].hold
    BY <1>1
  <2>6. PICK n \in Nat : n = Cardinality(Partners(m))
    BY <1>6
  <2>7. PICK rem \in Nat : rem = orders[m].remaining
    BY <1>1
  <2>8. PICK q \in Nat : q = f.qty
    BY <1>1
  <2>9. PICK u \in Nat : u = Unit
    BY <2>4
  <2>10. PICK c \in Nat : c = Worst(r)
    BY <2>4
  <2>11. PICK R \in Int : R = freed
    BY <2>2
  <2>12. (hold + n) * u >= rem * c /\ R * u <= q * c + u
    BY <2>2, <2>3, <2>5, <2>6, <2>7, <2>8, <2>9, <2>10, <2>11
  <2>13. ((hold - R) + (n + 1)) * u >= (rem - q) * c
    BY <2>12, CoverAfterFill
  <2> QED BY <1>2, <1>4, <1>5, <2>5, <2>6, <2>7, <2>8, <2>9, <2>10, <2>11, <2>13
<1> HIDE DEF r, freed
<1>9. orders'[m].req = r
  BY <1>2
<1> QED BY <1>7, <1>8, <1>9 DEF IsCovered, Covers, Worst
LEMMA TotalIsNat ==
    ASSUME NEW F, F \subseteq Fills, IsFiniteSet(F)
    PROVE  TotalFilled(F) \in Nat
<1> DEFINE q == [f \in F |-> f.qty]
<1>1. \A f \in F : q[f] \in Nat
  BY DEF Fills
<1> HIDE DEF q
<1>2. SumFunctionOnSet(q, F) \in Nat
  BY <1>1, SumNat
<1> QED BY <1>2 DEF TotalFilled, q

LEMMA TakerStaysCovered ==
    ASSUME Typed, NEW F, NEW t, Matched(F, t), IsCovered(t), orders'[t].status \in Open
    PROVE  IsCovered(t)'
<1> DEFINE r == orders[t].req
<1>1. /\ t \in OrderIds /\ r \in Requests
      /\ orders[t].hold \in Nat /\ orders[t].remaining \in Nat
      /\ orders[t].filled \in Nat
  <2>1. t \in OrderIds
    BY DEF Matched, Settles, Admitted
  <2> QED BY <2>1, OrderTypes DEF Typed
<1>2. IsFiniteSet(F) /\ TotalFilled(F) \in Nat
  BY TotalIsNat DEF Matched, Settles
<1>3. /\ orders'[t].req = r
      /\ r.side = "sell" => orders'[t].hold = orders[t].hold - TotalFilled(F)
      /\ (r.side # "sell" /\ r.type # "market") =>
            Spent(t, F, orders[t].hold, orders'[t].hold)
  BY <1>1 DEF Matched, MatchLeaves
<1>4. orders'[t].remaining = orders[t].remaining - TotalFilled(F)
  <2>1. orders'[t].filled = orders[t].filled + TotalFilled(F)
    BY DEF Matched, MatchedBy
  <2>2. /\ orders'[t].filled + orders'[t].remaining
              = orders[t].filled + orders[t].remaining
        /\ orders'[t].remaining \in Nat
    BY <1>1 DEF Matched
  <2> QED BY <1>1, <1>2, <2>1, <2>2
<1>5. Cardinality(Partners(t)) = 0
  <2>1. Partners(t) = {}
    BY DEF Matched, Partners
  <2> QED BY <2>1, FS_EmptySet
<1>6. /\ Cardinality(F) <= Cardinality(Partners(t)')
      /\ Cardinality(F) \in Nat /\ Cardinality(Partners(t)') \in Nat
  <2>1. Partners(t)' \subseteq OrderIds
    BY DEF Partners
  <2> QED BY <1>2, <2>1, PartnersOfMatch, PartnersAreFinite, FS_CardinalityType
<1>7. ASSUME r.side = "sell" PROVE orders'[t].hold = orders'[t].remaining
  <2>1. orders[t].hold = orders[t].remaining
    BY <1>7 DEF IsCovered, Covers
  <2> QED BY <1>3, <1>4, <1>7, <2>1
<1>8. ASSUME r.side # "sell", r.type # "market"
      PROVE  (orders'[t].hold + Cardinality(Partners(t)')) * Unit
                >= orders'[t].remaining * Worst(r)
  <2>1. orders[t].hold * Unit >= orders[t].remaining * Worst(r)
    <3>1. (orders[t].hold + 0) * Unit >= orders[t].remaining * Worst(r)
      BY <1>5, <1>8 DEF IsCovered, Covers
    <3>2. orders[t].hold + 0 = orders[t].hold
      BY <1>1
    <3> QED BY <3>1, <3>2
  <2>2. (orders'[t].hold + Cardinality(F)) * Unit + TotalFilled(F) * Worst(r)
            >= orders[t].hold * Unit
    BY <1>3, <1>8 DEF Spent
  <2>3. Unit \in Nat /\ Worst(r) \in Nat
    BY <1>1, UnitsAreNat
  <2> HIDE DEF r
  <2>4. PICK before \in Int : before = orders[t].hold
    BY <1>1
  <2>5. PICK after \in Int : after = orders'[t].hold
    BY <1>1 DEF Matched
  <2>6. PICK n \in Nat : n = Cardinality(F)
    BY <1>6
  <2>7. PICK k \in Nat : k = Cardinality(Partners(t)')
    BY <1>6
  <2>8. PICK rem \in Nat : rem = orders[t].remaining
    BY <1>1
  <2>9. PICK total \in Nat : total = TotalFilled(F)
    BY <1>2
  <2>10. PICK u \in Nat : u = Unit
    BY <2>3
  <2>11. PICK c \in Nat : c = Worst(r)
    BY <2>3
  <2>12. /\ n <= k /\ before * u >= rem * c
         /\ (after + n) * u + total * c >= before * u
    BY <1>6, <2>1, <2>2, <2>4, <2>5, <2>6, <2>7, <2>8, <2>9, <2>10, <2>11
  <2>13. (after + k) * u >= (rem - total) * c
    BY <2>12, CoverAfterMatch
  <2> QED BY <1>4, <2>5, <2>7, <2>8, <2>9, <2>10, <2>11, <2>13
<1> HIDE DEF r
<1> QED BY <1>3, <1>7, <1>8 DEF IsCovered, Covers, Worst

(* An order that takes no part in a step stays covered.                    *)
LEMMA UntouchedStaysCovered ==
    ASSUME NEW o, IsCovered(o), orders'[o] = orders[o], Partners(o)' = Partners(o)
    PROVE  IsCovered(o)'
BY DEF IsCovered, Covers, Worst

LEMMA AdmittedIsCovered ==
    ASSUME Typed, IInv, NEW o \in OrderIds, NEW r \in Requests, Admit(o, r)
    PROVE  IsCovered(o)'
<1>1. /\ orders'[o].req = r /\ orders'[o].hold = OrderHold(r)
      /\ orders'[o].remaining = r.qty /\ orders[o].status = "none" /\ traded' = traded
  BY DEF Admit, Admitted, Typed, TypeOK
<1>2. Cardinality(Partners(o)') = 0
  <2>1. \A p \in OrderIds : traded[o][p] = 0 /\ traded[p][o] = 0
    BY <1>1, UnadmittedUntraded DEF IInv
  <2>2. Partners(o)' = {}
    BY <1>1, <2>1 DEF Partners
  <2> QED BY <2>2, FS_EmptySet
<1>3. r.side = "sell" => OrderHold(r) = r.qty
  BY DEF OrderHold
<1>4. ASSUME r.side # "sell", r.type # "market"
      PROVE  (OrderHold(r) + 0) * Unit >= r.qty * Worst(r)
  <2>1. r.side = "buy"
    BY <1>4, OrdersAssumption DEF RequestType, Sides
  <2>2. OrderHold(r) * Unit = r.qty * Worst(r)
    BY <1>4, <2>1, HoldIsExactCost DEF Unit, Worst
  <2>3. OrderHold(r) \in Nat /\ Unit \in Nat
    BY HoldIsNat, UnitsAreNat
  <2>4. OrderHold(r) + 0 = OrderHold(r) /\ OrderHold(r) * Unit \in Int
    BY <2>3, SMT
  <2> QED BY <2>2, <2>4
<1> QED BY <1>1, <1>2, <1>3, <1>4 DEF IsCovered, Covers, Worst

LEMMA NextCover ==
    ASSUME Typed, IInv, FundsInv, CoverInv, [Next]_vars
    PROVE  CoverInv'
<1> SUFFICES ASSUME NEW o \in Admitted', orders'[o].status \in Open
             PROVE  IsCovered(o)'
  BY DEF CoverInv
<1>1. o \in OrderIds
  BY DEF Admitted
<1>2. CASE o \notin Admitted
  <2>1. PICK r \in Requests : Admit(o, r)
    BY <1>2, AdmittedByAdmit
  <2> QED BY <1>1, <2>1, AdmittedIsCovered
<1>3. CASE o \in Admitted
  <2>1. orders[o].status \in Open /\ IsCovered(o)
    <3>1. orders[o].status \notin Terminal
      BY <1>3, StepsProgress DEF Open, Terminal
    <3>2. orders[o].status \in Open
      BY <1>1, <1>3, <3>1, OrderTypes DEF Typed, Admitted
    <3> QED BY <1>3, <3>2 DEF CoverInv
  <2>2. ASSUME orders'[o] = orders[o], traded' = traded PROVE IsCovered(o)'
    <3>1. Partners(o)' = Partners(o)
      BY <2>2 DEF Partners
    <3> QED BY <2>1, <2>2, <3>1, UntouchedStaysCovered
  <2>3. ASSUME NEW p \in OrderIds, NEW r \in Requests, Admit(p, r) PROVE IsCovered(o)'
    <3>1. p # o
      BY <1>3, <2>3 DEF Admit
    <3>2. orders'[o] = orders[o] /\ traded' = traded
      BY <1>1, <2>3, <3>1 DEF Admit, Typed, TypeOK
    <3> QED BY <2>2, <3>2
  <2>4. ASSUME NEW p \in OrderIds, Cancel(p) PROVE IsCovered(o)'
    <3>1. orders'[p].status = "CANCELLED"
      BY <2>4, OrderTypes DEF Cancel, Typed, TypeOK, OrderRows
    <3>2. p # o
      BY <3>1 DEF Open
    <3>3. orders'[o] = orders[o] /\ traded' = traded
      BY <1>1, <2>4, <3>2 DEF Cancel, CancelOver, Typed, TypeOK
    <3> QED BY <2>2, <3>3
  <2>5. ASSUME NEW w \in Workers, NEW t \in OrderIds, CommitTerminal(w), job[w] = t
        PROVE  IsCovered(o)'
    <3>1. orders'[t].status \notin Open
      <4>1. PICK hold :
              orders' = [orders EXCEPT ![t] =
                           [orders[t] EXCEPT
                              !.status = IF orders[t].status \in Open THEN "EXPIRED"
                                         ELSE orders[t].status,
                              !.hold = hold]]
        BY <2>5 DEF CommitTerminal
      <4>2. orders[t] \in OrderRows /\ orders \in [OrderIds -> OrderRows]
        BY OrderTypes DEF Typed, TypeOK
      <4>3. orders'[t].status = IF orders[t].status \in Open THEN "EXPIRED"
                                ELSE orders[t].status
        BY <4>1, <4>2 DEF OrderRows
      <4> QED BY <4>3 DEF Open
    <3>2. orders'[o] = orders[o] /\ traded' = traded
      BY <1>1, <2>5, <3>1 DEF CommitTerminal, Typed, TypeOK
    <3> QED BY <2>2, <3>2
  <2>6. ASSUME NEW w \in Workers, NEW t, CommitMatch(w), job[w] = t
        PROVE  IsCovered(o)'
    <3>1. PICK F : Matched(F, t)
      BY <2>6, MatchIsOfFresh
    <3>2. CASE o = t
      BY <2>1, <3>1, <3>2, TakerStaysCovered
    <3>3. ASSUME NEW f \in F, f.maker = o PROVE IsCovered(o)'
      BY <2>1, <3>1, <3>3, MakerStaysCovered
    <3>4. CASE o # t /\ \A f \in F : f.maker # o
      <4>1. orders'[o] = orders[o]
        BY <1>1, <3>1, <3>4 DEF Matched, MatchLeaves
      <4>2. Partners(o)' = Partners(o)
        BY <1>1, <3>1, <3>4, PartnersOfMatch
      <4> QED BY <2>1, <4>1, <4>2, UntouchedStaysCovered
    <3> QED BY <3>2, <3>3, <3>4
  <2>7. \A w \in Workers : CommitTerminal(w) => job[w] \in OrderIds
    BY DEF CommitTerminal, Typed, TypeOK
  <2>8. CASE UNCHANGED <<orders, traded, wallet, fees>>
    BY <2>2, <2>8
  <2> QED BY <2>3, <2>4, <2>5, <2>6, <2>7, <2>8, OtherSteps
<1> QED BY <1>2, <1>3

(* What the invariant says of an open order of each kind.                  *)
LEMMA CoverIsCover ==
    ASSUME Typed, IInv, CoverInv
    PROVE  OpenOrdersCovered
<1> SUFFICES ASSUME NEW o \in Admitted, orders[o].status \in Open
             PROVE  LET r == orders[o].req
                        fills == Cardinality({p \in OrderIds :
                                                 traded[o][p] + traded[p][o] > 0})
                    IN  CASE r.side = "sell" -> orders[o].hold = orders[o].remaining
                          [] r.side = "buy" /\ r.type = "market" -> orders[o].hold = r.budget
                          [] OTHER -> (orders[o].hold + fills) * PriceScale * FeeDen
                                        >= orders[o].remaining * r.price
                                             * (FeeDen + MaximumBuyFeeRate)
  BY DEF OpenOrdersCovered
<1> DEFINE r == orders[o].req
           fills == Cardinality(Partners(o))
<1>1. /\ o \in OrderIds /\ r \in Requests /\ orders[o].hold \in Nat
      /\ orders[o].remaining \in Nat /\ r.side \in Sides
  BY OrderTypes, OrdersAssumption DEF Admitted, Typed, RequestType
<1>2. fills \in Nat
  <2>1. Partners(o) \subseteq OrderIds
    BY DEF Partners
  <2> QED BY <2>1, PartnersAreFinite
<1>3. Covers(r, orders[o].hold, orders[o].remaining, fills)
  BY DEF CoverInv, IsCovered
<1>4. ASSUME r.side # "sell", r.type = "market" PROVE orders[o].hold = r.budget
  <2>1. evidence[o] = << >>
    BY <1>1, <1>4 DEF IInv, RowsInv, ExecutedIsDecided, IsGTC, Open, Terminal
  <2>2. commands[o].state # "final"
    BY <1>1, <2>1, UnexecutedIsFresh DEF IInv
  <2>3. orders[o].hold = OrderHold(r)
    BY <2>1, <2>2 DEF IInv, RowsInv, UnpublishedUntouched
  <2> QED BY <1>1, <1>4, <2>3 DEF OrderHold, Sides
<1>5. ASSUME r.side # "sell", r.type # "market"
      PROVE  (orders[o].hold + fills) * PriceScale * FeeDen
                >= orders[o].remaining * r.price * (FeeDen + MaximumBuyFeeRate)
  <2>1. (orders[o].hold + fills) * (PriceScale * FeeDen)
            >= orders[o].remaining * (r.price * (FeeDen + MaximumBuyFeeRate))
    BY <1>3, <1>5 DEF Covers, Unit, Worst
  <2>2. /\ r.price \in Nat /\ PriceScale \in Nat /\ FeeDen \in Nat
        /\ FeeDen + MaximumBuyFeeRate \in Nat
    BY <1>1, RatesAreNat, OrdersAssumption DEF RequestType
  <2> HIDE DEF r, fills
  <2>3. /\ (orders[o].hold + fills) * PriceScale * FeeDen
              = (orders[o].hold + fills) * (PriceScale * FeeDen)
        /\ orders[o].remaining * r.price * (FeeDen + MaximumBuyFeeRate)
              = orders[o].remaining * (r.price * (FeeDen + MaximumBuyFeeRate))
    BY <1>1, <1>2, <2>2, SMT
  <2> QED BY <2>1, <2>3
<1> HIDE DEF r
<1>6. (CASE r.side = "sell" -> orders[o].hold = orders[o].remaining
         [] r.side = "buy" /\ r.type = "market" -> orders[o].hold = r.budget
         [] OTHER -> (orders[o].hold + fills) * PriceScale * FeeDen
                       >= orders[o].remaining * r.price * (FeeDen + MaximumBuyFeeRate))
  <2>1. CASE r.side = "sell"
    <3>1. orders[o].hold = orders[o].remaining
      BY <1>3, <2>1 DEF Covers
    <3> QED BY <2>1, <3>1
  <2>2. CASE r.side = "buy" /\ r.type = "market"
    BY <1>4, <2>2
  <2>3. CASE r.side # "sell" /\ ~(r.side = "buy" /\ r.type = "market")
    <3>1. r.side # "sell" /\ r.type # "market"
      BY <1>1, <2>3 DEF Sides
    <3> QED BY <1>5, <2>3, <3>1
  <2> QED BY <2>1, <2>2, <2>3
<1> QED BY <1>6 DEF r, Partners

LEMMA CoverInvariance == Spec => [](Typed /\ IInv /\ FundsInv /\ CoverInv)
<1>1. Init => CoverInv
  BY DEF Init, CoverInv, Admitted
<1>2. Typed /\ IInv /\ FundsInv /\ CoverInv /\ [Next]_vars
        => (Typed /\ IInv /\ FundsInv /\ CoverInv)'
  BY NextTyped, NextInv, NextFunds, NextCover
<1> QED BY InitTyped, InitInv, InitFunds, <1>1, <1>2, PTL DEF Spec

(* However often it has been filled, an open order still holds what it     *)
(* needs: a sale all it has left to deliver, a limit purchase the exact    *)
(* cost of the rest at its limit and the worst fee, less at most one       *)
(* settlement unit for each fill.                                          *)
THEOREM OpenOrdersStayCovered == Spec => []OpenOrdersCovered
<1>1. Typed /\ IInv /\ FundsInv /\ CoverInv => OpenOrdersCovered
  BY CoverIsCover
<1> QED BY CoverInvariance, <1>1, PTL

(***************************************************************************)
(* ExchangeOrders implements OrderPromise: each step of the workers, with  *)
(* their races, lost answers, retries and crashes, is a step of the        *)
(* promise or leaves it as it is.                                          *)
(***************************************************************************)
PromiseStep == [Promise!Next]_(Promise!promiseVars)

(* The promise's own copy of the sum.                                      *)
LEMMA PromiseSum ==
    ASSUME NEW f, NEW S
    PROVE  Promise!SumFunctionOnSet(f, S) = SumFunctionOnSet(f, S)
BY DEF SumFunctionOnSet, FoldFunctionOnSet, MapThenFoldSet,
       Promise!SumFunctionOnSet, Promise!FoldFunctionOnSet, Promise!MapThenFoldSet

LEMMA PromiseIds == Promise!OrderIds = OrderIds
BY DEF Promise!OrderIds, OrderIds

LEMMA Stages ==
    ASSUME NEW state \in CommandStates
    PROVE  /\ state = "none" => StageFor(state) = "none"
           /\ state = "final" => StageFor(state) = "published"
           /\ state = "failed_terminal" => StageFor(state) = "abandoned"
           /\ state \in {"admitted", "processing", "retryable"}
                 => StageFor(state) = "pending"
BY DEF StageFor, CommandStates

LEMMA Same ==
    ASSUME UNCHANGED <<orders, evidence>>, Stage' = Stage, Answered' = Answered
    PROVE  PromiseStep
BY DEF PromiseStep, Promise!promiseVars, Decided, Live, Filled

LEMMA UntouchedPromises ==
    ASSUME UNCHANGED <<orders, evidence, commands>>
    PROVE  PromiseStep
BY Same DEF Stage, Answered

(* Steps that write one command row.                                       *)
LEMMA CommandStep ==
    ASSUME Typed, NEW o \in OrderIds, NEW row,
           row.state \in CommandStates, commands[o].state # "final",
           commands' = [commands EXCEPT ![o] = row]
    PROVE  /\ Stage' = [Stage EXCEPT ![o] = StageFor(row.state)]
           /\ Answered' = [Answered EXCEPT ![o] =
                IF row.state = "final" THEN Verdict(row.result.accepted) ELSE "none"]
           /\ Stage[o] = StageFor(commands[o].state) /\ Answered[o] = "none"
<1>1. \A p \in OrderIds : commands'[p] = IF p = o THEN row ELSE commands[p]
  BY DEF Typed, TypeOK
<1>2. /\ Stage = [p \in OrderIds |-> StageFor(commands[p].state)]
      /\ Stage' = [p \in OrderIds |-> StageFor(commands'[p].state)]
  BY DEF Stage
<1>3. Stage' = [Stage EXCEPT ![o] = StageFor(row.state)]
  BY <1>1, <1>2
<1> DEFINE ans(c) == IF c.state = "final" THEN Verdict(c.result.accepted) ELSE "none"
<1>4. /\ Answered = [p \in OrderIds |-> ans(commands[p])]
      /\ Answered' = [p \in OrderIds |-> ans(commands'[p])]
  BY DEF Answered
<1>5. Answered[o] = "none"
  BY <1>4
<1>6. ans(row) = IF row.state = "final" THEN Verdict(row.result.accepted) ELSE "none"
  OBVIOUS
<1> HIDE DEF ans
<1>7. Answered' = [Answered EXCEPT ![o] = ans(row)]
  BY <1>1, <1>4
<1> QED BY <1>2, <1>3, <1>5, <1>6, <1>7

Pending(state) == state \in {"admitted", "processing", "retryable"}

LEMMA KeptCommand ==
    ASSUME Typed, NEW o \in OrderIds, NEW row,
           Pending(row.state), Pending(commands[o].state),
           commands' = [commands EXCEPT ![o] = row], UNCHANGED <<orders, evidence>>
    PROVE  PromiseStep
<1>0. row.state \in CommandStates /\ commands[o].state \in CommandStates
      /\ row.state # "final" /\ commands[o].state # "final"
  BY DEF Pending, CommandStates
<1>1. /\ Stage' = [Stage EXCEPT ![o] = StageFor(row.state)]
      /\ Answered' = [Answered EXCEPT ![o] = "none"]
      /\ Stage[o] = StageFor(commands[o].state) /\ Answered[o] = "none"
  BY <1>0, CommandStep
<1>2. StageFor(row.state) = "pending" /\ StageFor(commands[o].state) = "pending"
  BY <1>0, Stages DEF Pending
<1>3. Stage' = Stage /\ Answered' = Answered
  <2>1. Stage \in [OrderIds -> {StageFor(commands[p].state) : p \in OrderIds}]
    BY DEF Stage
  <2>2. DOMAIN Answered = OrderIds /\ Answered = [p \in OrderIds |-> Answered[p]]
    BY DEF Answered
  <2> QED BY <1>1, <1>2, <2>1, <2>2
<1> QED BY <1>3, Same

LEMMA AbandonedCommand ==
    ASSUME Typed, NEW o \in OrderIds, NEW row, row.state = "failed_terminal",
           commands[o].state = "processing",
           commands' = [commands EXCEPT ![o] = row], UNCHANGED <<orders, evidence>>
    PROVE  PromiseStep
<1>0. row.state \in CommandStates /\ commands[o].state \in CommandStates
      /\ row.state # "final" /\ commands[o].state # "final"
  BY DEF CommandStates
<1>1. /\ Stage' = [Stage EXCEPT ![o] = StageFor(row.state)]
      /\ Answered' = [Answered EXCEPT ![o] = "none"]
      /\ Stage[o] = StageFor(commands[o].state) /\ Answered[o] = "none"
  BY <1>0, CommandStep
<1>2. StageFor(row.state) = "abandoned" /\ StageFor(commands[o].state) = "pending"
  BY <1>0, Stages
<1>3. Answered' = Answered
  <2>1. DOMAIN Answered = OrderIds /\ Answered = [p \in OrderIds |-> Answered[p]]
    BY DEF Answered
  <2> QED BY <1>1, <2>1
<1>4. Promise!Abandon(o)
  BY <1>1, <1>2, <1>3 DEF Promise!Abandon, Decided, Live, Filled
<1> QED BY <1>4, PromiseIds DEF PromiseStep, Promise!Next

LEMMA PublishedCommand ==
    ASSUME Typed, ExecutedOnce, NEW o \in OrderIds, NEW row,
           row.state = "final", commands[o].state = "processing",
           \E i \in DOMAIN evidence[o] :
              evidence[o][i].accepted = row.result.accepted,
           commands' = [commands EXCEPT ![o] = row], UNCHANGED <<orders, evidence>>
    PROVE  PromiseStep
<1>0. row.state \in CommandStates /\ commands[o].state \in CommandStates
      /\ commands[o].state # "final"
  BY DEF CommandStates
<1>1. /\ Stage' = [Stage EXCEPT ![o] = StageFor(row.state)]
      /\ Answered' = [Answered EXCEPT ![o] = Verdict(row.result.accepted)]
      /\ Stage[o] = StageFor(commands[o].state)
  BY <1>0, CommandStep
<1>2. StageFor(row.state) = "published" /\ StageFor(commands[o].state) = "pending"
  BY <1>0, Stages
<1>3. evidence[o] # << >> /\ evidence[o][1].accepted = row.result.accepted
  <2>1. evidence[o] \in Seq(Evidence) /\ Len(evidence[o]) <= 1
    BY DEF Typed, TypeOK, ExecutedOnce
  <2> QED BY <2>1
<1>4. Decided[o] = Verdict(row.result.accepted) /\ Decided[o] # "none"
  BY <1>3 DEF Decided, Verdict
<1>5. Promise!Publish(o)
  BY <1>1, <1>2, <1>4 DEF Promise!Publish, Decided, Live, Filled
<1> QED BY <1>5, PromiseIds DEF PromiseStep, Promise!Next
-------------------------------------------------------------------------------
(* An order nobody has admitted is blank.                                  *)
UnadmittedBlank ==
    \A o \in OrderIds : orders[o].status = "none" => orders[o].filled = 0

LEMMA AdmitPromises ==
    ASSUME Typed, IInv, UnadmittedBlank,
           NEW o \in OrderIds, NEW r \in Requests, Admit(o, r)
    PROVE  PromiseStep
<1>1. /\ orders[o].status = "none" /\ orders'[o].status = "NEW"
      /\ orders'[o].filled = 0
      /\ \A p \in OrderIds \ {o} : orders'[p] = orders[p]
      /\ evidence' = evidence
      /\ commands[o].state = "none"
  BY DEF Admit, Admitted, Typed, TypeOK, InsertedAsPair
<1> DEFINE row == [commands[o] EXCEPT !.state = "admitted"]
<1>2. commands' = [commands EXCEPT ![o] = row]
  BY DEF Admit
<1>3. row.state = "admitted"
  BY CommandTypes DEF CommandRows, Typed
<1> HIDE DEF row
<1>4. /\ Stage' = [Stage EXCEPT ![o] = StageFor(row.state)]
      /\ Answered' = [Answered EXCEPT ![o] = "none"]
      /\ Stage[o] = StageFor(commands[o].state) /\ Answered[o] = "none"
  <2>1. row.state \in CommandStates /\ row.state # "final"
    BY <1>3 DEF CommandStates
  <2>2. commands[o].state # "final"
    BY <1>1
  <2> QED BY <1>2, <2>1, <2>2, CommandStep
<1>5. StageFor(row.state) = "pending" /\ StageFor(commands[o].state) = "none"
  <2>1. row.state \in CommandStates /\ commands[o].state \in CommandStates
    BY <1>1, <1>3 DEF CommandStates
  <2> QED BY <1>1, <1>3, <2>1, Stages
<1>6. Answered' = Answered /\ Decided' = Decided
  <2>1. DOMAIN Answered = OrderIds /\ Answered = [p \in OrderIds |-> Answered[p]]
    BY DEF Answered
  <2>2. Decided' = Decided
    BY <1>1 DEF Decided
  <2> QED BY <1>4, <2>1, <2>2
<1>7. Live' = [Live EXCEPT ![o] = TRUE]
  BY <1>1 DEF Live, Open
<1>8. Filled' = Filled
  BY <1>1 DEF Filled, UnadmittedBlank
<1>9. Promise!Admit(o)
  BY <1>4, <1>5, <1>6, <1>7, <1>8 DEF Promise!Admit
<1> QED BY <1>9, PromiseIds DEF PromiseStep, Promise!Next

LEMMA CancelPromises ==
    ASSUME Typed, NEW o \in OrderIds, Cancel(o)
    PROVE  PromiseStep
<1>1. /\ orders[o].status \in Open /\ commands[o].state = "final"
      /\ UNCHANGED <<evidence, commands>>
      /\ \A p \in OrderIds \ {o} : orders'[p] = orders[p]
      /\ orders'[o].status = "CANCELLED" /\ orders'[o].filled = orders[o].filled
  BY OrderTypes DEF Cancel, Cancellable, CancelOver, Typed, TypeOK, OrderRows
<1>2. Live[o] /\ Live' = [Live EXCEPT ![o] = FALSE]
  <2>1. Live[o]
    BY <1>1 DEF Live
  <2>2. Live'[o] = FALSE
    <3>1. orders'[o].status \notin Open
      BY <1>1 DEF Open
    <3>2. Live' = [p \in OrderIds |-> orders'[p].status \in Open]
      BY DEF Live
    <3>3. Live'[o] = (orders'[o].status \in Open)
      BY <3>2
    <3>4. (orders'[o].status \in Open) = FALSE
      BY <3>1
    <3> QED BY <3>3, <3>4
  <2>3. \A p \in OrderIds \ {o} : Live'[p] = Live[p]
    BY <1>1 DEF Live
  <2>4. Live' = [p \in OrderIds |-> Live'[p]] /\ Live = [p \in OrderIds |-> Live[p]]
    BY DEF Live
  <2> HIDE DEF Live
  <2> QED BY <2>1, <2>2, <2>3, <2>4
<1>3. UNCHANGED <<Stage, Decided, Answered, Filled>>
  BY <1>1 DEF Stage, Decided, Answered, Filled
<1>4. Stage[o] = "published"
  BY <1>1, Stages DEF Stage, CommandStates
<1>5. Promise!Close(o)
  BY <1>2, <1>3, <1>4 DEF Promise!Close
<1> QED BY <1>5, PromiseIds DEF PromiseStep, Promise!Next
-------------------------------------------------------------------------------
(* The one execution of order t, against the orders it moves.              *)
Executes(t, accepted, moved) ==
    /\ UNCHANGED commands
    /\ \A m \in OrderIds \ {t} : evidence'[m] = evidence[m]
    /\ evidence[t] = << >>
    /\ evidence'[t] # << >> /\ evidence'[t][1].accepted = accepted
    /\ \A m \in OrderIds : Filled'[m] \in Nat
    /\ moved \subseteq OrderIds \ {t}
    /\ \A m \in OrderIds \ ({t} \cup moved) :
          Filled'[m] = Filled[m] /\ Live'[m] = Live[m]
    /\ \A m \in moved :
          Filled'[m] > Filled[m] /\ Published(m) /\ orders[m].status \in Open
    /\ Filled'[t] = Filled[t]
          + SumFunctionOnSet([m \in moved |-> Filled'[m] - Filled[m]], moved)
    /\ ~accepted => moved = {} /\ ~Live'[t]

LEMMA ExecutionPromises ==
    ASSUME Typed, IInv, NEW t \in Admitted, NEW accepted \in BOOLEAN,
           NEW moved, Executes(t, accepted, moved)
    PROVE  PromiseStep
<1> USE DEF Executes
<1>1. t \in OrderIds /\ \A m \in OrderIds : Filled[m] \in Nat
  BY OrderTypes DEF Admitted, Filled, Typed
<1>2. Stage[t] \in {"pending", "abandoned"} /\ Decided[t] = "none"
  <2>1. commands[t].state \in CommandStates \ {"none", "final"}
    <3>1. commands[t].state # "none"
      BY <1>1 DEF Typed, InsertedAsPair, Admitted
    <3>2. commands[t].state # "final"
      BY <1>1, UnexecutedIsFresh DEF IInv
    <3> QED BY <1>1, <3>1, <3>2, CommandTypes DEF Typed
  <2> QED BY <1>1, <2>1, Stages DEF Stage, Decided, CommandStates
<1>3. UNCHANGED <<Stage, Answered>>
  BY DEF Stage, Answered
<1>4. Decided' = [Decided EXCEPT ![t] = Verdict(accepted)]
  <2>2. Decided'[t] = Verdict(accepted)
    BY <1>1 DEF Decided
  <2>3. \A m \in OrderIds \ {t} : Decided'[m] = Decided[m]
    BY <1>1 DEF Decided
  <2>4. /\ Decided' = [m \in OrderIds |-> Decided'[m]]
        /\ Decided = [m \in OrderIds |-> Decided[m]]
    BY DEF Decided
  <2> QED BY <1>1, <2>2, <2>3, <2>4
<1> DEFINE L == Promise!Liquidity(t)
<1>5. ASSUME NEW m \in moved PROVE m \in L
  <2>1. m \in OrderIds \ {t} /\ Published(m) /\ orders[m].status \in Open
    OBVIOUS
  <2>2. Stage[m] = "published" /\ Live[m]
    BY <2>1, Stages DEF Stage, Live, Published, CommandStates
  <2>3. \E i \in DOMAIN evidence[m] : evidence[m][i].accepted
    BY <2>1 DEF IInv, RowsInv, FinalOutcomeTruthful, Published
  <2>4. evidence[m] # << >> /\ evidence[m][1].accepted
    <3>1. evidence[m] \in Seq(Evidence) /\ Len(evidence[m]) <= 1
      BY <2>1 DEF Typed, TypeOK, IInv, RowsInv, ExecutedOnce
    <3> QED BY <2>3, <3>1
  <2>5. Decided[m] = "accepted"
    BY <2>1, <2>4 DEF Decided, Verdict
  <2> QED BY <2>1, <2>2, <2>5, PromiseIds DEF Promise!Liquidity
<1>6. L \subseteq OrderIds \ {t}
  BY PromiseIds DEF Promise!Liquidity
<1> HIDE DEF L
<1>7. ASSUME NEW m \in L
      PROVE  Filled'[m] >= Filled[m] /\ (Filled'[m] = Filled[m] => Live'[m] = Live[m])
  <2>1. CASE m \in moved
    <3>1. Filled'[m] > Filled[m] /\ Filled[m] \in Nat /\ Filled'[m] \in Nat
      BY <1>1, <1>6, <2>1
    <3> QED BY <3>1
  <2>2. CASE m \notin moved
    <3>1. Filled'[m] = Filled[m] /\ Live'[m] = Live[m] /\ Filled[m] \in Nat
      BY <1>1, <1>6, <2>2
    <3> QED BY <3>1
  <2> QED BY <2>1, <2>2
<1>8. SumFunctionOnSet([m \in L |-> Filled'[m] - Filled[m]], L)
        = SumFunctionOnSet([m \in moved |-> Filled'[m] - Filled[m]], moved)
  <2> DEFINE f == [m \in L |-> Filled'[m] - Filled[m]]
             e == [m \in moved |-> Filled'[m] - Filled[m]]
  <2>1. IsFiniteSet(L) /\ IsFiniteSet(moved)
    BY <1>5, <1>6, FiniteOrders, FS_Subset
  <2>2. \A m \in L : f[m] \in Int
    BY <1>1, <1>6
  <2>3. \A m \in L \ moved : f[m] = 0
    BY <1>1, <1>6
  <2>4. \A m \in moved : f[m] = e[m]
    BY <1>5
  <2> HIDE DEF f, e
  <2>5. moved \subseteq L
    BY <1>5
  <2>6. SumFunctionOnSet(f, L) = SumFunctionOnSet(f, moved)
    BY <2>1, <2>2, <2>3, <2>5, SumRestrict
  <2>7. SumFunctionOnSet(f, moved) = SumFunctionOnSet(e, moved)
    BY <2>1, <2>4, SumEqual
  <2> QED BY <2>6, <2>7 DEF f, e
<1>9. ~accepted => Filled' = Filled
  <2> SUFFICES ASSUME moved = {} PROVE Filled' = Filled
    OBVIOUS
  <2>1. SumFunctionOnSet([m \in moved |-> Filled'[m] - Filled[m]], moved) = 0
    BY SumEmpty
  <2>2. Filled'[t] = Filled[t]
    BY <1>1, <2>1
  <2>3. \A m \in OrderIds : Filled'[m] = Filled[m]
    BY <2>2
  <2> QED BY <2>3 DEF Filled
<1>10. Live' \in [OrderIds -> BOOLEAN]
  BY DEF Live
<1>11. Promise!Execute(t)
  <2>1. Filled'[t] = Filled[t]
           + Promise!SumFunctionOnSet([m \in L |-> Filled'[m] - Filled[m]], L)
    BY <1>8, PromiseSum
  <2>2. \A m \in OrderIds \ ({t} \cup L) : Filled'[m] = Filled[m] /\ Live'[m] = Live[m]
    BY <1>5
  <2>3. \/ Decided' = [Decided EXCEPT ![t] = "accepted"]
        \/ /\ Decided' = [Decided EXCEPT ![t] = "rejected"]
           /\ Filled' = Filled
           /\ ~Live'[t]
    BY <1>4, <1>9 DEF Verdict
  <2> QED BY <1>2, <1>3, <1>7, <1>10, <2>1, <2>2, <2>3, PromiseIds
          DEF Promise!Execute, L
<1> QED BY <1>1, <1>11, PromiseIds DEF PromiseStep, Promise!Next

LEMMA CommitTerminalPromises ==
    ASSUME Typed, IInv, NEW w \in Workers, CommitTerminal(w)
    PROVE  PromiseStep
<1> DEFINE t == job[w]
           fresh == orders[t].status \in Open
           row == EvidenceRow("EXPIRED", HasTraded(t), plan[w].reject)
<1>1. t \in OrderIds /\ t \in Admitted /\ ~IsGTC(orders[t].req)
  <2>1. t \in OrderIds /\ commands[t].state # "none"
    BY DEF CommitTerminal, Typed, TypeOK, IInv, JobsAdmitted
  <2>2. ~IsGTC(orders[t].req)
    BY DEF CommitTerminal, IInv, PlansStand, PlanStands
  <2> QED BY <2>1, <2>2 DEF Typed, InsertedAsPair, Admitted
<1>2. UNCHANGED commands
  BY DEF CommitTerminal, Return
<1>3. /\ \A p \in OrderIds \ {t} : orders'[p] = orders[p]
      /\ orders'[t].filled = orders[t].filled
      /\ orders'[t].status = IF fresh THEN "EXPIRED" ELSE orders[t].status
  BY <1>1, OrderTypes DEF CommitTerminal, Typed, TypeOK, OrderRows
<1>4. \A p \in OrderIds : orders'[p].filled = orders[p].filled
  BY <1>3
<1>5. Filled' = Filled /\ \A p \in OrderIds \ {t} : Live'[p] = Live[p]
  BY <1>3, <1>4 DEF Filled, Live
<1>6. CASE ~fresh
  <2>1. evidence' = evidence
    BY <1>6 DEF CommitTerminal
  <2>2. Live' = Live
    BY <1>1, <1>3, <1>6 DEF Live
  <2> QED BY <1>2, <1>5, <2>1, <2>2
          DEF PromiseStep, Promise!promiseVars, Stage, Answered, Decided
<1>7. CASE fresh
  <2>1. evidence[t] = << >>
    BY <1>1, <1>7 DEF IInv, RowsInv, ExecutedIsDecided, Open, Terminal
  <2>2. evidence' = [evidence EXCEPT ![t] = Append(evidence[t], row)]
    BY <1>7 DEF CommitTerminal
  <2>3. row.accepted = FALSE
    <3>1. ~HasTraded(t)
      BY <1>1, <2>1, UnexecutedIsFresh DEF IInv
    <3> QED BY <3>1 DEF EvidenceRow, VerdictOf, Open
  <2>4. ~Live'[t]
    BY <1>1, <1>3, <1>7 DEF Live, Open
  <2>5. \A m \in OrderIds : Filled'[m] \in Nat /\ Filled[m] \in Nat
    BY <1>5, OrderTypes DEF Filled, Typed
  <2>6. Filled'[t] = Filled[t]
           + SumFunctionOnSet([m \in {} |-> Filled'[m] - Filled[m]], {})
    BY <1>1, <1>5, <2>5, SumEmpty
  <2>7. \A m \in OrderIds \ {t} : evidence'[m] = evidence[m]
    BY <2>2 DEF Typed, TypeOK
  <2>8. evidence'[t] # << >> /\ evidence'[t][1].accepted = FALSE
    BY <1>1, <2>1, <2>2, <2>3 DEF Typed, TypeOK
  <2> HIDE DEF t, row, fresh
  <2>9. Executes(t, FALSE, {})
    BY <1>2, <1>5, <2>1, <2>4, <2>5, <2>6, <2>7, <2>8 DEF Executes
  <2> QED BY <1>1, <2>9, ExecutionPromises
<1> QED BY <1>6, <1>7

(* A match takes from each maker what it adds to it, and from all of them  *)
(* what it adds to the taker.                                              *)
LEMMA CommitMatchPromises ==
    ASSUME Typed, IInv, FundsInv, NEW w \in Workers, CommitMatch(w)
    PROVE  PromiseStep
<1> DEFINE t == job[w]
           fills == plan[w].fills
           row == EvidenceAfter(w)
           moved == {f.maker : f \in fills}
           more == [m \in OrderIds |-> FillOf(fills, m)]
           gained == [m \in moved |-> Filled'[m] - Filled[m]]
<1>1. MatchedBy(fills, t) /\ MatchEffect(t, fills, StatusAfter(w), row) /\ Settles(t, fills)
  BY MatchAddsFills, CommitMatchEffect, ValidatedSettles DEF FundsInv
<1>2. RowsInv'
  BY CommitMatchRows
<1>3. t \in Admitted /\ t \in OrderIds /\ row \in Evidence
  BY <1>1 DEF MatchEffect, Admitted
<1>4. /\ evidence[t] = << >> /\ evidence'[t] # << >> /\ evidence'[t][1].accepted = row.accepted
      /\ \A m \in OrderIds \ {t} : evidence'[m] = evidence[m]
  <2>1. evidence' = [evidence EXCEPT ![t] = Append(evidence[t], row)]
    BY <1>1 DEF MatchEffect
  <2>2. /\ evidence'[t] = Append(evidence[t], row)
        /\ \A m \in OrderIds \ {t} : evidence'[m] = evidence[m]
        /\ evidence[t] \in Seq(Evidence)
    BY <1>3, <2>1 DEF Typed, TypeOK
  <2>3. Len(evidence'[t]) <= 1
    BY <1>2, <1>3 DEF RowsInv, ExecutedOnce
  <2> HIDE DEF t, row
  <2>4. evidence[t] = << >>
    BY <1>3, <2>2, <2>3
  <2> QED BY <1>3, <2>2, <2>4
<1>5. UNCHANGED commands
  BY DEF CommitMatch, Return
<1>6. ASSUME NEW f \in fills
      PROVE  /\ f.maker \in OrderIds \ {t} /\ Published(f.maker)
             /\ orders[f.maker].status \in Open /\ FillOf(fills, f.maker) > 0
  <2>1. f.maker \in OrderIds \ {t}
    BY <1>1 DEF Settles, Fills
  <2>2. Published(f.maker)
    BY DEF IInv, PlansStand, PlanStands, CommitMatch
  <2>3. orders[f.maker].status \in Open /\ f.qty \in 1..orders[f.maker].remaining
    BY DEF CommitMatch, Validated
  <2>4. FillOf(fills, f.maker) = f.qty
    BY <1>1, FillOfIsQty DEF Settles, NamesMakersOnce
  <2>5. orders[f.maker].remaining \in Nat
    BY <2>1, OrderTypes DEF Typed
  <2> QED BY <2>1, <2>2, <2>3, <2>4, <2>5
<1>7. \A m \in OrderIds \ moved : FillOf(fills, m) = 0
  BY FillOfPlanned
<1>8. TotalFilled(fills) \in Nat
  BY DEF CommitMatch, Validated, Typed, TypeOK
<1>9. row.accepted \in BOOLEAN
      /\ (~row.accepted => StatusAfter(w) = "EXPIRED" /\ fills = {})
  <2>1. HasTraded(t) \in BOOLEAN
    BY DEF HasTraded
  <2> HIDE DEF t, fills, row
  <2> QED BY <2>1, VerdictOfMatch DEF StatusAfter, EvidenceAfter, t, fills, row
<1>10. ASSUME NEW m \in OrderIds
       PROVE  /\ Filled[m] \in Nat /\ Filled'[m] \in Nat
              /\ Filled'[m] = Filled[m] + (IF m = t THEN TotalFilled(fills)
                                                   ELSE FillOf(fills, m))
  <2>1. Filled[m] = orders[m].filled /\ Filled'[m] = orders'[m].filled
    BY DEF Filled
  <2>2. orders[m].filled \in Nat /\ FillOf(fills, m) \in Nat
    BY <1>1, OrderTypes DEF Typed, MatchedBy
  <2> HIDE DEF t, fills
  <2> QED BY <1>1, <1>8, <2>1, <2>2 DEF MatchedBy
<1>11. \A m \in OrderIds \ ({t} \cup moved) : Live'[m] = Live[m]
  <2> SUFFICES ASSUME NEW m \in OrderIds \ ({t} \cup moved) PROVE Live'[m] = Live[m]
    OBVIOUS
  <2>1. orders'[m] = orders[m]
    <3>1. ~\E f \in fills : f.maker = m
      OBVIOUS
    <3>2. m \in OrderIds \ {t}
      OBVIOUS
    <3> HIDE DEF t, fills, moved, row
    <3> QED BY <1>1, <3>1, <3>2 DEF MatchEffect
  <2> QED BY <2>1 DEF Live
<1>12. \A m \in moved : m \in OrderIds \ {t}
  BY <1>6
<1>13. SumFunctionOnSet(gained, moved) = TotalFilled(fills)
  <2>1. SumFunctionOnSet(more, OrderIds) = TotalFilled(fills)
    BY <1>1, TotalByMaker
  <2>2. \A m \in OrderIds : more[m] \in Int
    BY <1>1 DEF MatchedBy
  <2>3. \A m \in OrderIds \ moved : more[m] = 0
    BY <1>7
  <2>4. \A m \in moved : gained[m] = more[m]
    <3> SUFFICES ASSUME NEW m \in moved PROVE Filled'[m] - Filled[m] = FillOf(fills, m)
      BY <1>12
    <3>1. FillOf(fills, m) \in Nat /\ m # t /\ m \in OrderIds
      BY <1>1, <1>12 DEF MatchedBy
    <3> HIDE DEF t, fills, moved
    <3> QED BY <1>10, <3>1
  <2>5. moved \subseteq OrderIds
    BY <1>12
  <2> HIDE DEF more, gained, moved
  <2>6. IsFiniteSet(moved)
    BY <2>5, FiniteOrders, FS_Subset
  <2>7. SumFunctionOnSet(gained, moved) = SumFunctionOnSet(more, moved)
    BY <2>4, <2>6, SumEqual
  <2> QED BY <2>1, <2>2, <2>3, <2>5, <2>7, FiniteOrders, SumRestrict
<1>14. ~row.accepted => moved = {} /\ ~Live'[t]
  <2> SUFFICES ASSUME ~row.accepted PROVE moved = {} /\ ~Live'[t]
    OBVIOUS
  <2>1. orders'[t].status = "EXPIRED"
    BY <1>1, <1>9 DEF MatchEffect
  <2>2. ~Live'[t]
    <3>1. Live'[t] = (orders'[t].status \in Open)
      BY <1>3 DEF Live
    <3>2. orders'[t].status \notin Open
      BY <2>1 DEF Open
    <3> QED BY <3>1, <3>2
  <2> QED BY <1>9, <2>2
<1>15. \A m \in moved :
          Filled'[m] > Filled[m] /\ Published(m) /\ orders[m].status \in Open
  <2> SUFFICES ASSUME NEW f \in fills PROVE Filled'[f.maker] > Filled[f.maker]
    BY <1>6
  <2>1. /\ Filled'[f.maker] = Filled[f.maker] + FillOf(fills, f.maker)
        /\ Filled[f.maker] \in Nat
    BY <1>6, <1>10
  <2>2. FillOf(fills, f.maker) \in Nat /\ FillOf(fills, f.maker) > 0
    BY <1>1, <1>6 DEF MatchedBy
  <2> QED BY <2>1, <2>2
<1>16. \A m \in OrderIds \ ({t} \cup moved) : Filled'[m] = Filled[m]
  <2> HIDE DEF t, fills, moved
  <2> QED BY <1>7, <1>10
<1>17. Filled'[t] = Filled[t] + SumFunctionOnSet(gained, moved)
  <2> HIDE DEF t, fills, gained, moved
  <2> QED BY <1>3, <1>10, <1>13
<1> HIDE DEF t, fills, row, moved
<1>18. Executes(t, row.accepted, moved)
  BY <1>4, <1>5, <1>10, <1>11, <1>12, <1>14, <1>15, <1>16, <1>17 DEF Executes
<1> QED BY <1>3, <1>9, <1>18, ExecutionPromises-------------------------------------------------------------------------------
(* The steps that write no order.                                          *)
LEMMA QuietPromises ==
    ASSUME Typed, IInv, NEW w \in Workers, WorkerStep(w) \/ Crash(w) \/ LockLost(w),
           ~CommitTerminal(w), ~CommitMatch(w)
    PROVE  PromiseStep
<1>1. ASSUME NEW o \in OrderIds, Claim(w, o) PROVE PromiseStep
  <2> DEFINE row == ClaimedRow(commands[o], w)
  <2>1. Pending(row.state)
    BY CommandTypes DEF ClaimedRow, CommandRows, Typed, Pending
  <2>2. commands' = [commands EXCEPT ![o] = row]
    BY <1>1 DEF Claim
  <2>3. Pending(commands[o].state)
    BY <1>1 DEF Claim, Claimable, Pending
  <2>4. UNCHANGED <<orders, evidence>>
    BY <1>1 DEF Claim, bookVars
  <2> HIDE DEF row
  <2> QED BY <2>1, <2>2, <2>3, <2>4, KeptCommand
<1>2. ASSUME NEW o \in OrderIds, ExpireForGood(w, o) PROVE PromiseStep
  <2> DEFINE row == [commands[o] EXCEPT !.state = "failed_terminal",
                                        !.lockedBy = NoWorker]
  <2>1. row.state = "failed_terminal"
    BY CommandTypes DEF CommandRows, Typed
  <2>2. commands' = [commands EXCEPT ![o] = row] /\ commands[o].state = "processing"
    BY <1>2 DEF ExpireForGood
  <2>3. UNCHANGED <<orders, evidence>>
    BY <1>2 DEF ExpireForGood, bookVars
  <2> HIDE DEF row
  <2> QED BY <2>1, <2>2, <2>3, AbandonedCommand
<1>3. CASE Finalize(w)
  <2> DEFINE o == job[w]
             outcome == IF proposal[w].known
                        THEN [accepted |-> proposal[w].accepted,
                              reason |-> proposal[w].reason]
                        ELSE Reconstructed(o)
             result == [accepted |-> outcome.accepted,
                        status |-> orders[o].status,
                        reason |-> outcome.reason]
             row == [commands[o] EXCEPT !.state = "final", !.lockedBy = NoWorker,
                                        !.result = result]
  <2>1. o \in OrderIds
    BY <1>3 DEF Finalize, TypeOK, Typed
  <2>2. commands' = [commands EXCEPT ![o] = row]
    BY <1>3 DEF Finalize
  <2>3. commands[o].state = "processing"
    BY <1>3 DEF Finalize, HoldsLease
  <2>4. UNCHANGED <<orders, evidence>>
    BY <1>3 DEF Finalize, bookVars
  <2>5. GatePasses(o, outcome.accepted)
    BY <1>3 DEF Finalize
  <2>6. row.state = "final" /\ row.result.accepted = outcome.accepted
    BY <2>1, CommandTypes DEF CommandRows, Typed
  <2>7. \E i \in DOMAIN evidence[o] : evidence[o][i].accepted = row.result.accepted
    <3> HIDE DEF outcome, row
    <3> QED BY <2>5, <2>6 DEF GatePasses
  <2>8. ExecutedOnce
    BY DEF IInv, RowsInv
  <2> HIDE DEF o, row
  <2> QED BY <2>1, <2>2, <2>3, <2>4, <2>6, <2>7, <2>8, PublishedCommand
<1>4. CASE Fail(w)
  <2> DEFINE o == job[w]
             last == attempt[w] >= MaxAttempts
             row == [commands[o] EXCEPT
                       !.state = IF last THEN "failed_terminal" ELSE "retryable",
                       !.lockedBy = NoWorker]
  <2>1. o \in OrderIds /\ UNCHANGED <<orders, evidence>>
    BY <1>4 DEF Fail, TypeOK, Typed, bookVars
  <2>2. row.state = IF last THEN "failed_terminal" ELSE "retryable"
    BY <2>1, CommandTypes DEF CommandRows, Typed
  <2>3. CASE HoldsLease(w, o)
    <3>1. commands' = [commands EXCEPT ![o] = row]
      BY <1>4, <2>3 DEF Fail
    <3>2. commands[o].state = "processing"
      BY <2>3 DEF HoldsLease
    <3> HIDE DEF o, row, last
    <3>3. CASE last
      BY <2>1, <2>2, <3>1, <3>2, <3>3, AbandonedCommand
    <3>4. CASE ~last
      <4>1. Pending(row.state) /\ Pending(commands[o].state)
        BY <2>2, <3>2, <3>4 DEF Pending
      <4> QED BY <2>1, <3>1, <4>1, KeptCommand
    <3> QED BY <3>3, <3>4
  <2>4. CASE ~HoldsLease(w, o)
    <3>1. UNCHANGED <<orders, evidence, commands>>
      BY <1>4, <2>1, <2>4 DEF Fail
    <3> QED BY <3>1, UntouchedPromises
  <2> QED BY <2>3, <2>4
<1>5. CASE \/ Reconstruct(w) \/ ReadOrder(w) \/ Plan(w) \/ FinalizeReplays(w)
           \/ StepFails(w) \/ Crash(w) \/ LockLost(w)
  <2>1. UNCHANGED <<orders, evidence, commands>>
    BY <1>5 DEF Reconstruct, ReadOrder, Plan, FinalizeReplays, StepFails, Crash,
                LockLost, bookVars
  <2> QED BY <2>1, UntouchedPromises
<1> QED BY <1>1, <1>2, <1>3, <1>4, <1>5 DEF WorkerStep

LEMMA NextPromises ==
    ASSUME Typed, IInv, FundsInv, UnadmittedBlank, [Next]_vars
    PROVE  PromiseStep
<1>1. ASSUME NEW o \in OrderIds, NEW r \in Requests, Admit(o, r) PROVE PromiseStep
  BY <1>1, AdmitPromises
<1>2. ASSUME NEW o \in OrderIds, Cancel(o) PROVE PromiseStep
  BY <1>2, CancelPromises
<1>3. ASSUME NEW o \in OrderIds, CancelBegin(o) \/ CancelRefused(o) \/ LockLost(o)
      PROVE  PromiseStep
  <2>1. UNCHANGED <<orders, evidence, commands>>
    BY <1>3 DEF CancelBegin, CancelRefused, CancelOver, LockLost, bookVars
  <2> QED BY <2>1, UntouchedPromises
<1>4. ASSUME NEW w \in Workers, WorkerStep(w) \/ Crash(w) \/ LockLost(w)
      PROVE  PromiseStep
  <2>1. CASE CommitTerminal(w)
    BY <2>1, CommitTerminalPromises
  <2>2. CASE CommitMatch(w)
    BY <2>2, CommitMatchPromises
  <2>3. CASE ~CommitTerminal(w) /\ ~CommitMatch(w)
    BY <1>4, <2>3, QuietPromises
  <2> QED BY <2>1, <2>2, <2>3
<1>5. CASE UNCHANGED vars
  <2>1. UNCHANGED <<orders, evidence, commands>>
    BY <1>5 DEF vars
  <2> QED BY <2>1, UntouchedPromises
<1> QED BY <1>1, <1>2, <1>3, <1>4, <1>5 DEF Next

LEMMA NextBlank ==
    ASSUME Typed, IInv, FundsInv, UnadmittedBlank, [Next]_vars
    PROVE  UnadmittedBlank'
<1> SUFFICES ASSUME NEW o \in OrderIds, orders'[o].status = "none"
             PROVE  orders'[o].filled = 0
  BY DEF UnadmittedBlank
<1>0. orders[o].status = "none" => orders[o].filled = 0
  BY DEF UnadmittedBlank
<1>1. ASSUME NEW p \in OrderIds, NEW r \in Requests, Admit(p, r)
      PROVE  orders'[o].filled = 0
  <2>1. orders'[p].filled = 0 /\ (p # o => orders'[o] = orders[o])
    BY <1>1 DEF Admit, Typed, TypeOK
  <2> QED BY <1>0, <2>1
<1>2. ASSUME NEW p \in OrderIds, Cancel(p) PROVE orders'[o].filled = 0
  <2>1. orders'[p].status = "CANCELLED" /\ (p # o => orders'[o] = orders[o])
    BY <1>2, OrderTypes DEF Cancel, Typed, TypeOK, OrderRows
  <2> QED BY <1>0, <2>1
<1>3. ASSUME NEW w \in Workers, CommitTerminal(w) PROVE orders'[o].filled = 0
  <2>1. /\ orders'[o].filled = orders[o].filled
        /\ Admitted' = Admitted
    <3>1. Admitted' = Admitted
      BY <1>3, CommitTerminalFunds DEF Balanced, WrittenBack
    <3> QED BY <1>3, <3>1, OrderTypes DEF CommitTerminal, Typed, TypeOK, OrderRows
  <2> QED BY <1>0, <2>1 DEF Admitted
<1>4. ASSUME NEW w \in Workers, CommitMatch(w) PROVE orders'[o].filled = 0
  <2> DEFINE t == job[w]
             fills == plan[w].fills
  <2>1. MatchedBy(fills, t) /\ Settles(t, fills)
    BY <1>4, MatchAddsFills, ValidatedSettles DEF FundsInv
  <2>2. Admitted' = Admitted
    BY <1>4, CommitMatchFunds DEF Balanced, WrittenBack, FundsInv
  <2>3. o \notin Admitted /\ orders[o].filled = 0
    BY <1>0, <2>2 DEF Admitted
  <2> HIDE DEF t, fills
  <2>4. o # t /\ FillOf(fills, o) = 0
    BY <2>1, <2>3, FillOfPlanned DEF Settles
  <2> QED BY <2>1, <2>3, <2>4 DEF MatchedBy
<1>5. CASE UNCHANGED <<orders, traded, wallet, fees>>
  BY <1>0, <1>5
<1> QED BY <1>1, <1>2, <1>3, <1>4, <1>5, OtherSteps

LEMMA InitPromises == Init => Promise!Init /\ UnadmittedBlank
<1> SUFFICES ASSUME Init PROVE Promise!Init /\ UnadmittedBlank
  OBVIOUS
<1>1. ASSUME NEW o \in OrderIds
      PROVE  /\ commands[o].state = "none" /\ evidence[o] = << >>
             /\ orders[o].status = "none" /\ orders[o].filled = 0
  BY DEF Init
<1>2. Stage = [o \in OrderIds |-> "none"]
  <2>1. "none" \in CommandStates
    BY DEF CommandStates
  <2> QED BY <1>1, <2>1, Stages DEF Stage
<1>3. Decided = [o \in OrderIds |-> "none"] /\ Answered = [o \in OrderIds |-> "none"]
  BY <1>1 DEF Decided, Answered
<1>4. Live = [o \in OrderIds |-> FALSE]
  <2>1. \A o \in OrderIds : (orders[o].status \in Open) = FALSE
    BY <1>1 DEF Open
  <2> QED BY <2>1 DEF Live
<1>5. Filled = [o \in OrderIds |-> 0]
  BY <1>1 DEF Filled
<1> QED BY <1>1, <1>2, <1>3, <1>4, <1>5, PromiseIds DEF Promise!Init, UnadmittedBlank

(* Every behaviour of the exchange is one of the promise: an order is      *)
(* executed once, its verdict published unchanged, and only against orders *)
(* already published.                                                      *)
THEOREM PromiseToClients == Spec => KeepsPromise
<1>1. Typed /\ IInv /\ FundsInv /\ UnadmittedBlank /\ [Next]_vars
         => UnadmittedBlank' /\ [Promise!Next]_(Promise!promiseVars)
  BY NextBlank, NextPromises DEF PromiseStep
<1> QED BY FundsInvariance, InitPromises, <1>1, PTL DEF Spec, KeepsPromise, Promise!Spec
===============================================================================

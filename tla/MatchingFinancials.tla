-------------------------- MODULE MatchingFinancials --------------------------
(***************************************************************************)
(* The exact arithmetic of the matching engine: matching-financials.ts,    *)
(* order-financials.ts and the hold consumption rule of wallet-service.ts. *)
(*                                                                         *)
(* Every amount is a natural number of settlement units, the last place    *)
(* of PostgreSQL NUMERIC(30,10).  A price is in price units of which       *)
(* PriceScale make one quote unit per base unit, so a product of two       *)
(* ten-place decimals has digits below the settlement scale here exactly   *)
(* when it is not a multiple of PriceScale.  A fee rate r stands for the   *)
(* decimal r / FeeDen.                                                     *)
(***************************************************************************)
EXTENDS Integers

CONSTANTS PriceScale, FeeDen, MakerFee, TakerFee

ASSUME FinancialsAssumption ==
    /\ PriceScale \in Nat \ {0}
    /\ FeeDen \in Nat \ {0}
    /\ MakerFee \in 0..FeeDen
    /\ TakerFee \in 0..FeeDen

Least(a, b) == IF a <= b THEN a ELSE b
Greatest(a, b) == IF a >= b THEN a ELSE b

(* toDecimalPlaces(10, ROUND_DOWN) and (10, ROUND_UP) of a / b.            *)
Floor(a, b) == a \div b
Ceiling(a, b) == (a + b - 1) \div b

(* toSettlementAmount(quantity * price): what one fill is worth in quote.  *)
QuoteGross(qty, price) == Floor(qty * price, PriceScale)

FeeOn(gross, rate) == Floor(gross * rate, FeeDen)

(* The buyer pays the maker rate when the buyer is the maker.              *)
BuyerFeeRate(makerSide) == IF makerSide = "buy" THEN MakerFee ELSE TakerFee
SellerFeeRate(makerSide) == IF makerSide = "buy" THEN TakerFee ELSE MakerFee

TradeAmounts(qty, price, makerSide) ==
    LET gross == QuoteGross(qty, price)
    IN  [quantity   |-> qty,
         quoteGross |-> gross,
         buyerFee   |-> FeeOn(gross, BuyerFeeRate(makerSide)),
         sellerFee  |-> FeeOn(gross, SellerFeeRate(makerSide))]

(* Mutant: only the quantity is looked at.                                 *)
SettleableQuantity(qty, price) == qty > 0

(* calculateExactTradeAmounts throws when the gross rounds to zero.        *)
Settleable(qty, price) == QuoteGross(qty, price) > 0

MaximumBuyFeeRate == Greatest(MakerFee, TakerFee)

(* calculateOrderHold: the base quantity of a sale, the caller's ceiling   *)
(* of a market purchase, price and worst fee of a limit purchase.          *)
OrderHold(r) ==
    CASE r.side = "sell" -> r.qty
      [] r.side = "buy" /\ r.type = "market" -> r.budget
      [] OTHER -> Floor(r.qty * r.price * (FeeDen + MaximumBuyFeeRate),
                        PriceScale * FeeDen)

(* toHoldAmount refuses a hold that is zero or has digits below the scale, *)
(* so an admitted request satisfies this.                                  *)
HoldIsExact(r) ==
    /\ OrderHold(r) > 0
    /\ (r.side = "buy" /\ r.type # "market") =>
          (r.qty * r.price * (FeeDen + MaximumBuyFeeRate))
              % (PriceScale * FeeDen) = 0

(* matchedReleaseAmountTx: what a fill worth `basis` at the hold price     *)
(* takes out of a purchase's hold, before it is capped by the residual.    *)
FeeCovered(basis, type) ==
    Ceiling(basis * (FeeDen + IF type = "market" THEN TakerFee
                                                 ELSE MaximumBuyFeeRate),
            FeeDen)
===============================================================================

------------------------------ MODULE Settlement ------------------------------
(***************************************************************************)
(* Wallet and ledger effects of holds, releases and trades:                *)
(* wallet-service.ts and settleExactTradeTx of                             *)
(* matching-settlement-authority.ts.                                       *)
(*                                                                         *)
(* The operators work on a private copy of the rows a transaction touches, *)
(* a record                                                                *)
(*   [wallet |-> user |-> asset |-> [available, held]                      *)
(*                                       (wallet_balances),                *)
(*    hold   |-> order |-> unreleased hold of the order's hold asset       *)
(*                                       (the residual of wallet_ledger),  *)
(*    fees   |-> the quote balance of the exchange's fee wallet,           *)
(*    ok     |-> no guarded UPDATE has found its row short].               *)
(* A transaction whose copy ends with ok = FALSE has thrown and is rolled  *)
(* back.                                                                   *)
(***************************************************************************)
EXTENDS OrderBook

CONSTANTS Users          \* the owners of orders and wallets

Assets == {"base", "quote"}

HoldAsset(r) == IF r.side = "buy" THEN "quote" ELSE "base"

(* The guarded UPDATE and the ledger row of one strictLedgerMutationTx.    *)
Move(s, user, asset, available, held) ==
    LET row   == s.wallet[user][asset]
        moved == [available |-> row.available + available,
                  held |-> row.held + held]
    IN  [s EXCEPT !.wallet[user][asset] = moved,
                  !.ok = @ /\ moved.available >= 0 /\ moved.held >= 0]

Release(s, r, o, amount) ==
    [Move(s, r.user, HoldAsset(r), amount, -amount) EXCEPT !.hold[o] = @ - amount]

Debit(s, user, asset, amount) == Move(s, user, asset, -amount, 0)

Credit(s, user, asset, amount) == Move(s, user, asset, amount, 0)

(* Mutant: the ledger row is written, the balance row is not.              *)
ReleaseInLedgerOnly(s, r, o) == [s EXCEPT !.hold[o] = 0]

(* releaseOrderHoldResidualTx: exactly what the ledger shows unreleased.   *)
ReleaseResidual(s, r, o) == Release(s, r, o, s.hold[o])

(* Mutant: the first fill frees the whole hold of a purchase.              *)
ReleaseEverything(r, basis, residual) == residual

(* matchedReleaseAmountTx of a purchase: its fee-covered basis, capped by  *)
(* the residual.                                                           *)
MatchedRelease(r, basis, residual) == Least(FeeCovered(basis, r.type), residual)

(* releaseMatchedOrderFundsTx: a sale releases the base it delivers, a     *)
(* purchase its matched amount; an exhausted purchase hold throws.         *)
ReleaseMatched(s, r, o, qty, holdPrice) ==
    IF r.side = "sell"
    THEN Release(s, r, o, qty)
    ELSE [Release(s, r, o, MatchedRelease(r, QuoteGross(qty, holdPrice), s.hold[o]))
             EXCEPT !.ok = @ /\ s.hold[o] > 0]

(* Mutant: the seller's fee is taken and credited to nobody.               *)
BuyerFeeCredit(m) == m.buyerFee

PlatformFeeCredit(m) == m.buyerFee + m.sellerFee

(* settleExactTradeTx for one fill between order b (request rb), who buys  *)
(* at hold price bp, and order a (request ra), who sells.                  *)
SettleTrade(s, b, rb, bp, a, ra, fill, makerSide) ==
    LET m  == TradeAmounts(fill.qty, fill.price, makerSide)
        s1 == ReleaseMatched(s, rb, b, fill.qty, bp)
        s2 == Debit(s1, rb.user, "quote", m.quoteGross)
        s3 == Credit(s2, rb.user, "base", m.quantity)
        s4 == Debit(s3, rb.user, "quote", m.buyerFee)
        s5 == ReleaseMatched(s4, ra, a, fill.qty, fill.price)
        s6 == Debit(s5, ra.user, "base", m.quantity)
        s7 == Credit(s6, ra.user, "quote", m.quoteGross)
        s8 == Debit(s7, ra.user, "quote", m.sellerFee)
    IN  [s8 EXCEPT !.fees = @ + PlatformFeeCredit(m)]

(* One turn of the fill loop of placeOrderLocked: the trade, then, when    *)
(* the fill completes the maker, the rest of the maker's hold.  `row` maps *)
(* an order to its row, whose remaining quantity is the one before the     *)
(* transaction.                                                            *)
SettleFill(s, row, t, fill) ==
    LET taker == row[t].req
        maker == row[fill.maker].req
        takerHoldPrice == IF taker.type = "market" THEN fill.price ELSE taker.price
        traded == IF taker.side = "buy"
                  THEN SettleTrade(s, t, taker, takerHoldPrice,
                                   fill.maker, maker, fill, maker.side)
                  ELSE SettleTrade(s, fill.maker, maker, maker.price,
                                   t, taker, fill, maker.side)
    IN  IF fill.qty = row[fill.maker].remaining
        THEN ReleaseResidual(traded, maker, fill.maker)
        ELSE traded

(* The whole loop: the fill settled last, over what the others left.       *)
SettleFills(s, row, t, fills) ==
    MapThenFoldSet(LAMBDA fill, others : SettleFill(others, row, t, fill), s,
                   LAMBDA fill : fill,
                   LAMBDA F : LastSettled(F, Opposite(row[t].req.side)), fills)

(* wallet_balances carries CHECK (available >= 0) and CHECK (held >= 0).   *)
Wallets == [Users -> [Assets -> [available : Nat, held : Nat]]]
===============================================================================

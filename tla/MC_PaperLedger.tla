--------------------------- MODULE MC_PaperLedger ---------------------------
(* Instances of PaperLedger for TLC.                                       *)
EXTENDS PaperLedger, TLC

CONSTANTS a1, a2, s1, r1, r2, i1, i2, i3

MCAssets == {a1, a2}
MCSector == [a \in MCAssets |-> s1]

(* a1 gains and then drops, a2 has a single bar of the first day.          *)
MCBars ==
    a1 :> <<[open |-> 10, high |-> 12, low |-> 8, close |-> 11, day |-> 1, age |-> 1],
            [open |-> 7, high |-> 9, low |-> 6, close |-> 6, day |-> 2, age |-> 0]>>
    @@ a2 :> <<[open |-> 5, high |-> 5, low |-> 4, close |-> 5, day |-> 1, age |-> 0]>>

T(asset, side, type, quantity, limit, stop) ==
    [asset |-> asset, side |-> side, type |-> type, quantity |-> quantity,
     limit |-> limit, stop |-> stop]

(* Tickets that fill, wait, gap, touch their stop without their limit, and *)
(* exceed what is owned.  Each id is used for two different tickets.       *)
MCSends ==
    i1 :> {T(a1, "buy", "market", 2, 0, 0), T(a2, "buy", "stop_limit", 9, 3, 5)}
    @@ i2 :> {T(a1, "buy", "limit", 1, 9, 0), T(a1, "sell", "limit", 1, 10, 0)}
    @@ i3 :> {T(a1, "sell", "stop", 2, 0, 9), T(a2, "buy", "market", 3, 0, 0)}
MCTickets == UNION {MCSends[i] : i \in {i1, i2, i3}}

MCRules ==
    "maximum_position_percentage" :> 60 @@ "maximum_total_exposure" :> 100
    @@ "maximum_sector_exposure" :> 90 @@ "minimum_cash_reserve" :> 2
    @@ "maximum_order_value" :> 40 @@ "stale_price_days" :> 0
    @@ "maximum_daily_trade_count" :> 2 @@ "maximum_portfolio_drawdown" :> 25
    @@ "maximum_daily_simulated_loss" :> 20

NoRules == [x \in {} |-> 0]
MCRuleSets == {MCRules, NoRules}

Symmetric == Permutations(Requests)
=============================================================================

----------------------------- MODULE PaperLedger -----------------------------
(***************************************************************************)
(* Paper trading on one portfolio: packages/paper_trading (engine, risk)   *)
(* and apps/api/routers/paper_portfolios.py.                               *)
(*                                                                         *)
(* POST .../orders loads the portfolio row, looks for an order with the    *)
(* same client order id, previews the order (price, risk rules) and then   *)
(* inserts it, filling it at once if the latest bar allows.  The steps of  *)
(* a request are: load the portfolio, preview, read the position to fill,  *)
(* commit.  Other requests come between them: at READ COMMITTED no row is  *)
(* locked before the write, and the new balances are literals computed     *)
(* from what was read.  The selects of one preview are one step.           *)
(*                                                                         *)
(* process_order, which nothing in the program calls, is left out: an      *)
(* order that is not filled when it is submitted waits until it is         *)
(* cancelled.  Money, prices and quantities are integers in a unit in      *)
(* which their products are exact; only average costs and prices with      *)
(* friction are rounded.  Every asset has a bar.                           *)
(***************************************************************************)
EXTENDS Integers, Sequences, FiniteSetsExt

CONSTANTS
    Assets,
    Sector,          \* [Assets -> sectors]
    Bars,            \* [Assets -> Seq(bar)]: stored bars, oldest first
    Days,            \* the days of the bars
    ClientOrderIds,
    OrderRequests,   \* the order tickets that clients send
    Sends,           \* [ClientOrderIds -> SUBSET OrderRequests]: and under which id
    Requests,        \* concurrent requests
    RuleSets,        \* settings of the risk rules: enabled rule -> limit
    StartingCash, Commission,
    CreationDay,     \* the day of the portfolio's first snapshot
    ReasonsFit,      \* rejection reasons that fit into rejection_reason, String(300)
    FrictionBps      \* half the spread plus slippage, in basis points: 2

OrderTypes == {"market", "limit", "stop", "stop_limit"}
NoPrice == 0         \* prices are positive
Bar == [open: Nat \ {0}, high: Nat \ {0}, low: Nat \ {0}, close: Nat \ {0},
        day: Days, age: Nat]
Ticket == [asset: Assets, side: {"buy", "sell"}, type: OrderTypes,
           quantity: Nat \ {0}, limit: Nat, stop: Nat]

ASSUME SomeAssumption ==
    ClientOrderIds # {} /\ IsFiniteSet(ClientOrderIds) /\ OrderRequests # {} /\ Days # {}
ASSUME BarsAssumption ==
    Bars \in [Assets -> Seq(Bar)] /\ \A a \in Assets : Len(Bars[a]) > 0
ASSUME TicketsAssumption ==
    /\ OrderRequests \subseteq Ticket
    /\ Sends \in [ClientOrderIds -> SUBSET OrderRequests]
    /\ \A t \in OrderRequests : t.type \in {"limit", "stop_limit"} => t.limit # NoPrice
    /\ \A t \in OrderRequests : t.type \in {"stop", "stop_limit"} => t.stop # NoPrice
    /\ \A t \in OrderRequests : t.type = "market" => t.limit = NoPrice /\ t.stop = NoPrice
(* Limits are entered as numbers that are not negative (RiskRuleUpdate).   *)
ASSUME RulesAssumption ==
    IsFiniteSet(Assets) /\ \A set \in RuleSets : \A n \in DOMAIN set : set[n] \in Nat
ASSUME MoneyAssumption ==
    StartingCash \in Nat \ {0} /\ Commission \in Nat /\ FrictionBps \in 0..4999

VARIABLES
    portfolio,   \* committed row: cash, realized profit, status
    positions,   \* committed paper_positions rows
    orders,      \* committed paper_orders rows, by client order id
    equities,    \* equities of the portfolio_snapshots of each day
    rules,       \* enabled risk rules
    latest,      \* index of the latest stored bar of each asset
    pc, ctx,     \* where each request is and what it has loaded
    fills,       \* paper_fills rows of each order
    trades,      \* paper_fills rows of each day
    flows,       \* sums over all paper_fills rows
    raced        \* history: a fill replaced a balance that was not the one it had loaded

vars == <<portfolio, positions, orders, equities, rules, latest, pc, ctx,
          fills, trades, flows, raced>>
market == <<rules, latest>>
books == <<portfolio, positions, equities, fills, trades, flows, raced>>

NoPosition == [exists |-> FALSE, quantity |-> 0, cost |-> 0, realized |-> 0]
NoOrder == [status |-> "absent", triggered |-> FALSE, ticket |-> CHOOSE t \in OrderRequests : TRUE,
            price |-> NoPrice]
NoContext == [id |-> CHOOSE i \in ClientOrderIds : TRUE, ticket |-> CHOOSE t \in OrderRequests : TRUE,
              portfolio |-> [cash |-> 0, realized |-> 0, status |-> "active"],
              position |-> NoPosition, fits |-> TRUE,
              status |-> "absent", triggered |-> FALSE, price |-> NoPrice, day |-> CHOOSE d \in Days : TRUE]

Portfolio == [cash: Int, realized: Int, status: {"active", "paused"}]
Position == [exists: BOOLEAN, quantity: Nat, cost: Nat, realized: Int]
Decisions == {"absent", "pending", "triggered", "filled", "rejected"}
Order == [status: Decisions \union {"cancelled"}, triggered: BOOLEAN, ticket: Ticket, price: Nat]
Context == [id: ClientOrderIds, ticket: Ticket, portfolio: Portfolio,
            position: Position, fits: BOOLEAN, status: Decisions, triggered: BOOLEAN,
            price: Nat, day: Days]

(* Types of the state.  A stored quantity is never negative, whatever      *)
(* sells overlap (paper_position_quantity_nonnegative).                    *)
TypeOK ==
    /\ portfolio \in Portfolio
    /\ positions \in [Assets -> Position]
    /\ orders \in [ClientOrderIds -> Order]
    /\ DOMAIN equities = Days
    /\ rules \in RuleSets
    /\ latest \in [Assets -> Nat \ {0}] /\ \A a \in Assets : latest[a] <= Len(Bars[a])
    /\ pc \in [Requests -> {"idle", "loaded", "decided", "filling"}]
    /\ ctx \in [Requests -> Context]
    /\ fills \in [ClientOrderIds -> Nat]
    /\ trades \in [Days -> Nat]
    /\ flows \in [cash: Int, quantity: [Assets -> Int]]
    /\ raced \in BOOLEAN

-----------------------------------------------------------------------------
(* The price of a ticket on a bar.                                         *)

(* Decimal.quantize: the nearest unit, ties to the even one.               *)
Quantize(n, d) ==
    LET whole == n \div d
        rest  == n % d
    IN  IF 2 * rest < d \/ (2 * rest = d /\ whole % 2 = 0) THEN whole ELSE whole + 1

LatestBar(a) == Bars[a][latest[a]]

LimitPrice(t, bar) ==
    IF t.side = "buy"
    THEN IF bar.open <= t.limit THEN bar.open ELSE IF bar.low <= t.limit THEN t.limit ELSE NoPrice
    ELSE IF bar.open >= t.limit THEN bar.open ELSE IF bar.high >= t.limit THEN t.limit ELSE NoPrice

StopReached(t, bar) == IF t.side = "buy" THEN bar.high >= t.stop ELSE bar.low <= t.stop

(* A gap beyond the stop is taken at the worse of open and stop.           *)
StopPrice(t, bar) ==
    IF (t.side = "buy") <=> (bar.open >= t.stop) THEN bar.open ELSE t.stop

Triggered(t, bar) == t.type \in {"stop", "stop_limit"} /\ StopReached(t, bar)

EligiblePrice(t, bar) ==
    CASE t.type = "market"     -> bar.open
      [] t.type = "limit"      -> LimitPrice(t, bar)
      [] t.type = "stop"       -> IF StopReached(t, bar) THEN StopPrice(t, bar) ELSE NoPrice
      [] t.type = "stop_limit" -> IF StopReached(t, bar) THEN LimitPrice(t, bar) ELSE NoPrice

Adjusted(t, base) ==
    Quantize(base * (IF t.side = "buy" THEN 10000 + FrictionBps ELSE 10000 - FrictionBps), 10000)

(* Faulty variant: friction moves the price past the limit.                *)
FrictionOnly(t, base) == Adjusted(t, base)

ApplyFriction(t, base) ==
    IF \/ t.limit = NoPrice
       \/ t.side = "buy" /\ Adjusted(t, base) <= t.limit
       \/ t.side = "sell" /\ Adjusted(t, base) >= t.limit
    THEN Adjusted(t, base)
    ELSE t.limit

Quote(t, bar) ==
    IF EligiblePrice(t, bar) = NoPrice THEN NoPrice ELSE ApplyFriction(t, EligiblePrice(t, bar))

-----------------------------------------------------------------------------
(* The risk rules.  Percentages are compared without dividing.             *)

ValueOf(quantity, among) ==
    MapThenSumSet(LAMBDA a : quantity[a] * LatestBar(a).close, among)
Held == [a \in Assets |-> positions[a].quantity]
Equity(cash) == cash + ValueOf(Held, Assets)

Within(rule, amount) == rule \in DOMAIN rules => amount <= rules[rule]
ShareWithin(rule, amount, equity) ==
    rule \in DOMAIN rules /\ equity > 0 => amount * 100 <= rules[rule] * equity

(* The relative loss since peak has reached the limit of the rule.         *)
LossReached(rule, peak, equity) ==
    /\ rule \in DOMAIN rules
    /\ \/ peak > 0 /\ (peak - equity) * 100 >= rules[rule] * peak
       \/ peak < 0 /\ (peak - equity) * 100 <= rules[rule] * peak

Reserve(equity) ==
    IF "minimum_cash_reserve" \in DOMAIN rules THEN equity * rules["minimum_cash_reserve"] ELSE 0

(* Faulty variant: the fees of the order are forgotten.                    *)
CashCoversWithoutFees(t, price, cash) ==
    (cash - t.quantity * price) * 100 >= Reserve(Equity(cash))

CashCovers(t, price, cash) ==
    (cash - t.quantity * price - Commission) * 100 >= Reserve(Equity(cash))

(* Shares of the equity that a buy would raise.                            *)
SharesWithin(t, price, equity) ==
    LET peers == {a \in Assets : Sector[a] = Sector[t.asset]}
        value == t.quantity * price
    IN  [maximum_position_percentage |->
           ShareWithin("maximum_position_percentage",
                       (positions[t.asset].quantity + t.quantity) * price, equity),
         maximum_total_exposure |->
           ShareWithin("maximum_total_exposure", ValueOf(Held, Assets) + value, equity),
         maximum_sector_exposure |->
           ShareWithin("maximum_sector_exposure", ValueOf(Held, peers) + value, equity)]

(* The reasons to reject an order; opening is the equity the day began     *)
(* with, 0 if there is no snapshot of the day.                             *)
evaluate_risk(t, bar, price, cash, opening) ==
    LET equity == Equity(cash)
        peak   == Max({StartingCash} \union UNION {equities[d] : d \in Days})
        shares == SharesWithin(t, price, equity)
        always ==
          [short_selling |-> t.side = "sell" => t.quantity <= positions[t.asset].quantity,
           maximum_order_value |-> Within("maximum_order_value", t.quantity * price),
           minimum_cash_reserve |-> t.side = "buy" => CashCovers(t, price, cash),
           stale_price_days |-> Within("stale_price_days", bar.age),
           maximum_daily_trade_count |-> Within("maximum_daily_trade_count", trades[bar.day] + 1),
           maximum_portfolio_drawdown |-> ~LossReached("maximum_portfolio_drawdown", peak, equity),
           maximum_daily_simulated_loss |->
               ~LossReached("maximum_daily_simulated_loss", opening, equity)]
    IN  {n \in DOMAIN always : ~always[n]}
          \union {n \in DOMAIN shares : t.side = "buy" /\ ~shares[n]}

(* The snapshots of a day carry the same event_time, so any may sort first. *)
Openings(day) == IF equities[day] = {} THEN {0} ELSE equities[day]

-----------------------------------------------------------------------------
(* create_portfolio.                                                       *)
Init ==
    /\ portfolio = [cash |-> StartingCash, realized |-> 0, status |-> "active"]
    /\ positions = [a \in Assets |-> NoPosition]
    /\ orders = [i \in ClientOrderIds |-> NoOrder]
    /\ equities = [d \in Days |-> IF d = CreationDay THEN {StartingCash} ELSE {}]
    /\ rules \in RuleSets
    /\ latest = [a \in Assets |-> 1]
    /\ pc = [r \in Requests |-> "idle"]
    /\ ctx = [r \in Requests |-> NoContext]
    /\ fills = [i \in ClientOrderIds |-> 0]
    /\ trades = [d \in Days |-> 0]
    /\ flows = [cash |-> 0, quantity |-> [a \in Assets |-> 0]]
    /\ raced = FALSE

Done(r) ==
    /\ pc' = [pc EXCEPT ![r] = "idle"]
    /\ ctx' = [ctx EXCEPT ![r] = NoContext]

(* A request begins: the portfolio row is loaded and never refreshed.      *)
LoadPortfolio(r, i, t) ==
    /\ pc[r] = "idle"
    /\ pc' = [pc EXCEPT ![r] = "loaded"]
    /\ ctx' = [ctx EXCEPT ![r] =
                 [NoContext EXCEPT !.id = i, !.ticket = t, !.portfolio = portfolio]]
    /\ UNCHANGED <<books, orders, market>>

(* submit finds the order: the answer repeats its outcome.                 *)
Replay(r) ==
    /\ pc[r] = "loaded" /\ orders[ctx[r].id].status # "absent"
    /\ Done(r)
    /\ UNCHANGED <<books, orders, market>>

(* A preview without a fill price judges the risk at the ticket's own.     *)
RiskPrice(t, bar) ==
    IF Quote(t, bar) # NoPrice THEN Quote(t, bar)
    ELSE IF t.limit # NoPrice THEN t.limit
    ELSE IF t.stop # NoPrice THEN t.stop
    ELSE bar.close

Reasons(t, bar, loaded, opening) ==
    evaluate_risk(t, bar, RiskPrice(t, bar), loaded.cash, opening)
      \union (IF loaded.status = "active" THEN {} ELSE {"paused"})

Outcome(t, bar, reasons) ==
    IF reasons # {} THEN "rejected"
    ELSE IF Quote(t, bar) # NoPrice THEN "filled"
    ELSE IF Triggered(t, bar) THEN "triggered"
    ELSE "pending"

(* preview: price and risk on the latest bar.                              *)
Preview(r) ==
    /\ pc[r] = "loaded" /\ orders[ctx[r].id].status = "absent"
    /\ LET c   == ctx[r]
           t   == c.ticket
           bar == LatestBar(t.asset)
       IN \E opening \in Openings(bar.day) :
            LET reasons == Reasons(t, bar, c.portfolio, opening) IN
            ctx' = [ctx EXCEPT ![r] =
              [c EXCEPT !.status = Outcome(t, bar, reasons), !.day = bar.day,
                        !.price = Quote(t, bar), !.triggered = Triggered(t, bar),
                        !.fits = Cardinality(reasons) <= ReasonsFit]]
    /\ pc' = [pc EXCEPT ![r] = "decided"]
    /\ UNCHANGED <<books, orders, market>>

(* _fill reads the position again; nothing of the preview is left of it.   *)
SelectPosition(r) ==
    /\ pc[r] = "decided" /\ ctx[r].status = "filled"
    /\ pc' = [pc EXCEPT ![r] = "filling"]
    /\ ctx' = [ctx EXCEPT ![r].position = positions[ctx[r].ticket.asset]]
    /\ UNCHANGED <<books, orders, market>>

-----------------------------------------------------------------------------
(* The order is inserted and, if the preview would fill it, filled.        *)

CashFlow(t, price) ==
    IF t.side = "buy" THEN -(t.quantity * price + Commission) ELSE t.quantity * price - Commission

Gain(t, price, position) ==
    IF t.side = "buy" THEN 0 ELSE (price - position.cost) * t.quantity - Commission

(* Faulty variant: the commission is not part of the cost of a buy.        *)
AverageCostWithoutFee(t, price, position) ==
    Quantize(position.quantity * position.cost + t.quantity * price, position.quantity + t.quantity)

AverageCost(t, price, position) ==
    Quantize(position.quantity * position.cost + t.quantity * price + Commission,
             position.quantity + t.quantity)

(* Faulty variant: a sell does not give up its shares.                     *)
FilledPositionKeepsShares(t, price, position) ==
    [exists |-> TRUE,
     quantity |-> IF t.side = "buy" THEN position.quantity + t.quantity ELSE position.quantity,
     cost |-> IF t.side = "buy" THEN AverageCost(t, price, position) ELSE position.cost,
     realized |-> position.realized + Gain(t, price, position)]

FilledPosition(t, price, position) ==
    LET left == position.quantity - t.quantity IN
    IF t.side = "buy"
    THEN [exists |-> TRUE, quantity |-> position.quantity + t.quantity,
          cost |-> AverageCost(t, price, position), realized |-> position.realized]
    ELSE [exists |-> TRUE, quantity |-> left, cost |-> IF left = 0 THEN 0 ELSE position.cost,
          realized |-> position.realized + Gain(t, price, position)]

(* An UPDATE writes the columns that differ from what was loaded.          *)
Written(current, loaded, new) == IF new = loaded THEN current ELSE new

(* The equity of the snapshot.                                             *)
Snapshot(c, cash, filled) ==
    cash + ValueOf([Held EXCEPT ![c.ticket.asset] = filled.quantity], Assets)

FillOrder(c) ==
    LET t        == c.ticket
        a        == t.asset
        loaded   == c.portfolio
        position == c.position
        cash     == loaded.cash + CashFlow(t, c.price)
        realized == loaded.realized + Gain(t, c.price, position)
        filled   == FilledPosition(t, c.price, position)
    IN  /\ portfolio' = [cash     |-> Written(portfolio.cash, loaded.cash, cash),
                         realized |-> Written(portfolio.realized, loaded.realized, realized),
                         status   |-> portfolio.status]
        /\ positions' = [positions EXCEPT ![a] =
             [exists   |-> TRUE,
              quantity |-> Written(positions[a].quantity, position.quantity, filled.quantity),
              cost     |-> Written(positions[a].cost, position.cost, filled.cost),
              realized |-> Written(positions[a].realized, position.realized, filled.realized)]]
        /\ equities' = [equities EXCEPT ![c.day] = @ \union {Snapshot(c, cash, filled)}]
        /\ fills' = [fills EXCEPT ![c.id] = @ + 1]
        /\ trades' = [trades EXCEPT ![c.day] = @ + 1]
        /\ flows' = [cash |-> flows.cash + CashFlow(t, c.price),
                     quantity |-> [flows.quantity EXCEPT ![a] =
                         IF t.side = "buy" THEN @ + t.quantity ELSE @ - t.quantity]]
        /\ raced' = (raced \/ loaded.cash # portfolio.cash \/ loaded.realized # portfolio.realized
                           \/ position # positions[a])

InsertOrder(r) ==
    /\ LET c == ctx[r] IN
         /\ orders' = [orders EXCEPT ![c.id] =
              [status |-> c.status, triggered |-> c.triggered, ticket |-> c.ticket,
               price |-> IF c.status = "filled" THEN c.price ELSE NoPrice]]
         /\ IF c.status = "filled" THEN FillOrder(c) ELSE UNCHANGED books
    /\ Done(r)
    /\ UNCHANGED market

Ready(r) == pc[r] = IF ctx[r].status = "filled" THEN "filling" ELSE "decided"

Duplicate(c) == orders[c.id].status # "absent"
PositionTaken(c) ==
    c.status = "filled" /\ ~c.position.exists /\ positions[c.ticket.asset].exists
Short(c) == c.status = "filled" /\ FilledPosition(c.ticket, c.price, c.position).quantity < 0

(* Faulty variant: client order ids are not unique.                        *)
RefusedDuplicates(c) == PositionTaken(c) \/ Short(c) \/ ~c.fits

(* Faulty variant: quantities are not checked.                             *)
RefusedShort(c) == Duplicate(c) \/ PositionTaken(c) \/ ~c.fits

(* What the database refuses: a client order id or a position that another *)
(* request inserted first, a negative quantity, reasons that are too long. *)
Refused(c) == Duplicate(c) \/ PositionTaken(c) \/ Short(c) \/ ~c.fits

Submit(r) == Ready(r) /\ ~Refused(ctx[r]) /\ InsertOrder(r)

(* The statement fails and everything is rolled back.                      *)
Rollback(r) ==
    /\ Ready(r) /\ Refused(ctx[r])
    /\ Done(r)
    /\ UNCHANGED <<books, orders, market>>

-----------------------------------------------------------------------------
CancelOrder(i) ==
    /\ orders[i].status \in {"pending", "triggered"}
    /\ orders' = [orders EXCEPT ![i].status = "cancelled"]
    /\ UNCHANGED <<books, market, pc, ctx>>

PauseOrResume(status) ==
    /\ portfolio' = [portfolio EXCEPT !.status = status]
    /\ UNCHANGED <<positions, equities, fills, trades, flows, raced, orders, market, pc, ctx>>

UpdateRiskRules(set) ==
    /\ rules' = set
    /\ UNCHANGED <<books, orders, latest, pc, ctx>>

(* An import stores the next bar of an asset.                              *)
StoreBar(a) ==
    /\ latest[a] < Len(Bars[a])
    /\ latest' = [latest EXCEPT ![a] = @ + 1]
    /\ UNCHANGED <<books, orders, rules, pc, ctx>>

Next ==
    \/ \E r \in Requests :
         \/ \E i \in ClientOrderIds : \E t \in Sends[i] : LoadPortfolio(r, i, t)
         \/ Replay(r) \/ Preview(r) \/ SelectPosition(r) \/ Submit(r) \/ Rollback(r)
    \/ \E i \in ClientOrderIds : CancelOrder(i)
    \/ \E status \in {"active", "paused"} : PauseOrResume(status)
    \/ \E set \in RuleSets : UpdateRiskRules(set)
    \/ \E a \in Assets : StoreBar(a)

Spec == Init /\ [][Next]_vars

-----------------------------------------------------------------------------
(* Properties.                                                             *)

(* Cash and positions are what the fills add up to, as long as no fill     *)
(* replaced a balance that had changed since its request loaded it: that   *)
(* race is the only way to lose money, not pauses, replays or conflicts.   *)
BooksBalance ==
    ~raced =>
        /\ portfolio.cash = StartingCash + flows.cash
        /\ \A a \in Assets : positions[a].quantity = flows.quantity[a]

(* The realized profit explains the cash: cash plus positions at cost are  *)
(* the starting cash plus the profit, up to the rounding of average costs. *)
ProfitExplainsCash ==
    LET atCost == MapThenSumSet(LAMBDA a : positions[a].quantity * positions[a].cost, Assets)
        drift  == portfolio.cash + atCost - StartingCash - portfolio.realized
        buys   == {i \in ClientOrderIds : orders[i].status = "filled" /\ orders[i].ticket.side = "buy"}
        bought == MapThenSumSet(LAMBDA i : orders[i].ticket.quantity, buys)
    IN  ~raced => 2 * drift \in -(Cardinality(buys) * bought)..(Cardinality(buys) * bought)

(* However often and however concurrently an order is sent, it fills at    *)
(* most once.  Docs: "retries return the original simulated order and      *)
(* cannot create a second fill".                                           *)
FilledOnce ==
    \A i \in ClientOrderIds : fills[i] = IF orders[i].status = "filled" THEN 1 ELSE 0

(* No fill is worse than the limit of its order, gaps and friction         *)
(* included.  Docs: "a limit is never violated".                           *)
LimitsHold ==
    \A i \in ClientOrderIds :
        LET o == orders[i] IN
        o.status = "filled" /\ o.ticket.limit # NoPrice =>
            IF o.ticket.side = "buy" THEN o.price <= o.ticket.limit ELSE o.price >= o.ticket.limit

(* A buy is covered by the cash its request saw, fees and reserve          *)
(* included, so that no buy, however it races, writes a negative balance.  *)
BuysAreCovered ==
    [][\A r \in Requests :
         (/\ pc[r] = "filling" /\ fills' # fills /\ pc'[r] = "idle"
          /\ ctx[r].ticket.side = "buy" /\ ctx[r].portfolio.cash >= 0)
            => portfolio'.cash >= 0]_vars

(* Docs: "Simulated fills update cash, positions, average cost, realized   *)
(* P&L, ...".  The code breaks this when two orders of a portfolio         *)
(* overlap: each writes the balance it computed alone.                     *)
FillsUpdateCash == portfolio.cash = StartingCash + flows.cash
=============================================================================

------------------------------ MODULE Backtest ------------------------------
(***************************************************************************)
(* The bar simulator (packages/backtesting/engine): one step for each day  *)
(* on which every symbol and the benchmark have a bar.  Orders that fall   *)
(* due are executed at the open, the close is observed, and the strategy   *)
(* decides target weights, which wait for the publication of the bars they *)
(* were decided on and for the configured delay.                           *)
(*                                                                         *)
(* Money and shares are whole units, weights and rates are percentages;    *)
(* average costs, metrics and the benchmark's value, which nothing below   *)
(* reads, are left out.                                                    *)
(***************************************************************************)
EXTENDS Strategies, FiniteSets, SequencesExt

CONSTANTS
    Stocks,         \* symbols in their order: 1..n
    Histories,      \* price series of every stock: open, close, published
    Tactics,        \* strategies with their parameters
    InitialCash,
    Commission,
    Friction,       \* half the spread and the slippage, in percent
    Delay,          \* execution_delay
    PositionLimit,  \* of a stock and of all, in percent, with the
    ExposureLimit   \* buffer of 1% taken off

VARIABLES
    history,        \* the aligned bars of this run
    tactic,         \* its strategy
    today,          \* index of the last day simulated
    purse,          \* cash
    held,           \* quantity of each stock
    targets,        \* weights in force
    pending,        \* orders that are not due, by the day that decided them
    signals,        \* what the strategy decided
    trades          \* simulated trades

vars == <<history, tactic, today, purse, held, targets, pending, signals, trades>>

Days == 1..Len(history[1])
NoHistory == [s \in Stocks |-> <<>>]
Symbols == [i \in 1..Cardinality(Stocks) |-> i]             \* sorted
NoTactic == [key |-> "none"]

GeneratedSignal == [stock : Stocks, day : Nat, weight : {Long, Flat}]
SimulatedTrade ==
    [stock : Stocks, day : Nat, side : {"buy", "sell"}, quantity : Nat, gross : Nat,
     cause : {"signal", "risk"}, decided : Nat]

TypeOK ==
    /\ today \in Nat /\ purse \in Int
    /\ held \in [Stocks -> Nat]
    /\ \A s \in Stocks : targets[s] \in {Long, Flat}
    /\ signals \subseteq GeneratedSignal
    /\ trades \subseteq SimulatedTrade

Init ==
    /\ history = NoHistory
    /\ tactic = NoTactic
    /\ today = 0
    /\ purse = InitialCash
    /\ held = [s \in Stocks |-> 0]
    /\ targets = [s \in Stocks |-> 0]
    /\ pending = [n \in {} |-> 0]
    /\ signals = {}
    /\ trades = {}

(* "not enough aligned price bars for the configured delay"                *)
Start ==
    /\ history = NoHistory
    /\ \E h \in Histories : Len(h[1]) >= Delay + 2 /\ history' = h
    /\ tactic' \in Tactics
    /\ UNCHANGED <<today, purse, held, targets, pending, signals, trades>>

-----------------------------------------------------------------------------
(* Orders.                                                                 *)

RoundHalfEven(n, d) ==
    LET q == n \div d
        twice == 2 * (n % d)
    IN  IF twice > d \/ (twice = d /\ q % 2 = 1) THEN q + 1 ELSE q

execution_price(base, side) ==
    RoundHalfEven(base * (IF side = "buy" THEN 100 + Friction ELSE 100 - Friction), 100)

RoundDown(n, d) == IF n >= 0 THEN n \div d ELSE -((-n) \div d)

Value(q, price) == MapThenSumSet(LAMBDA s : q[s] * price[s], Stocks)

desired_quantities(a, open) ==
    LET equity == a.cash + Value(a.held, open)
        capped == [s \in Stocks |-> Min({a.targets[s], PositionLimit})]
        total == MapThenSumSet(LAMBDA s : capped[s], Stocks)
    IN  [s \in Stocks |->
          IF total > ExposureLimit
          THEN RoundDown(equity * capped[s] * ExposureLimit, total * 100 * open[s])
          ELSE RoundDown(equity * capped[s], 100 * open[s])]

(* One fill of an order: no position becomes negative.                     *)
execute(a, s, side, n, gross, order) ==
    [a EXCEPT !.cash = @ + (IF side = "buy" THEN -gross ELSE gross) - Commission,
              !.held[s] = IF side = "buy" THEN @ + n ELSE Max({@ - n, 0}),
              !.trades = @ \union
                {[stock |-> s, day |-> order.due, side |-> side, quantity |-> n, gross |-> gross,
                  cause |-> order.cause, decided |-> order.decided]}]

Affordable(wish, price, cash) ==
    IF wish * price + Commission > cash THEN Max({cash - Commission, 0}) \div price ELSE wish

(* An account follows an order: sells of every stock, then buys in the     *)
(* order of the symbols with the cash that is left; a buy that nothing is  *)
(* left for is rejected.                                                   *)
rebalance(account, order) ==
    LET open == [s \in Stocks |-> history[s][order.due].open]
        a == [account EXCEPT !.targets =
                [s \in Stocks |-> IF s \in DOMAIN order.updates THEN order.updates[s] ELSE @[s]]]
        desired == desired_quantities(a, open)
        Trade(b, s, side, n) ==
            IF n > 0 THEN execute(b, s, side, n, n * execution_price(open[s], side), order) ELSE b
        Sell(b, s) == Trade(b, s, "sell", b.held[s] - desired[s])
        Buy(b, s) == Trade(b, s, "buy", Affordable(desired[s] - b.held[s],
                                                   execution_price(open[s], "buy"), b.cash))
    IN  FoldLeft(Buy, FoldLeft(Sell, a, Symbols), Symbols)

(* An observed close beyond a limit.  Shares of an equity that is negative *)
(* are negative, and within every limit.                                   *)
risk_limit_breached(cash, q, close) ==
    LET equity == cash + Value(q, close)
    IN  /\ equity > 0
        /\ \/ 100 * Value(q, close) > ExposureLimit * equity
           \/ \E s \in Stocks : 100 * q[s] * close[s] > PositionLimit * equity

(* A defect: the open of the publication itself.                           *)
eligible_execution_days_early(day, published) == {d \in Days : d >= day + Delay /\ d >= published}

(* The first day after the delay whose bar opens after the signal time.    *)
eligible_execution_days(day, published) == {d \in Days : d >= day + Delay /\ d > published}

-----------------------------------------------------------------------------
(* A day.                                                                  *)

(* The orders that fall due; if none does, a rebalance to the targets in   *)
(* force when the last close broke a limit.                                *)
Orders(t) ==
    LET due == {n \in DOMAIN pending : pending[n].due = t}
    IN  IF /\ due = {} /\ t > 1
           /\ risk_limit_breached(purse, held, [s \in Stocks |-> history[s][t - 1].close])
        THEN [n \in {t - 1} |-> [due |-> t, cause |-> "risk", decided |-> t - 1,
                                updates |-> [s \in {} |-> 0]]]
        ELSE [n \in due |-> pending[n]]

(* One order after the other, in the order of their signals.               *)
Executed(t) ==
    LET orders == Orders(t)
    IN  MapThenFoldSet(LAMBDA n, account : rebalance(account, orders[n]),
                       [cash |-> purse, held |-> held, targets |-> targets, trades |-> trades],
                       LAMBDA n : n, Max, DOMAIN orders)

(* The strategy sees the closes up to the day's.  The updates of a day     *)
(* form one order, whose signal time is the latest publication among their *)
(* bars; it is dropped if no bar is left for it.                           *)
Decisions(t) ==
    LET weight == [s \in Stocks |->
                     generate(tactic, [i \in 1..t |-> history[s][i].close])]
    IN  Restrict(weight, {s \in Stocks : weight[s] # Hold})

Queued(t, updates) ==
    LET later == {n \in DOMAIN pending : pending[n].due # t}
        decided == DOMAIN updates
        days == eligible_execution_days(t, Max({history[s][t].published : s \in decided}))
        order == [due |-> Min(days), cause |-> "signal", decided |-> t, updates |-> updates]
    IN  IF decided = {} THEN [n \in later |-> pending[n]]
        ELSE IF days = {} THEN [n \in later |-> pending[n]]
        ELSE [n \in later \union {t} |-> IF n = t THEN order ELSE pending[n]]

Day ==
    /\ history # NoHistory /\ today < Len(history[1])
    /\ today' = today + 1
    /\ \E account \in {Executed(today')} :
         /\ purse' = account.cash /\ held' = account.held
         /\ targets' = account.targets /\ trades' = account.trades
    /\ \E updates \in {Decisions(today')} :
         /\ signals' = signals \union
              {[stock |-> s, day |-> today', weight |-> updates[s]] : s \in DOMAIN updates}
         /\ pending' = Queued(today', updates)
    /\ UNCHANGED <<history, tactic>>

Next == Start \/ Day

Spec == Init /\ [][Next]_vars

-----------------------------------------------------------------------------
(* Properties.                                                             *)

(* The opens that a day's signals may be executed at: the delay later, and *)
(* after every bar that they were decided on was published.                *)
OpensFor(n) ==
    {d \in Days : /\ d >= n + Delay
                  /\ \A g \in signals : g.day = n => d > history[g.stock][n].published}
FirstOpen(n) == Min(OpensFor(n))

(* The signals of a stock that have taken effect: executable by today.     *)
TakenEffect(s) == {g \in signals : g.stock = s /\ \E d \in OpensFor(g.day) : d <= today}

(* All bars of a day are published before those of a later one.            *)
PublishedInOrder ==
    \A s, r \in Stocks, d, e \in Days :
        d < e => history[s][d].published <= history[r][e].published

(* The weight in force is that of the signal whose first open came last,   *)
(* or was decided last among these: no order is executed early, none is    *)
(* lost, and those that fall due together are executed in turn.  When bars *)
(* are published in order, however late, this is the newest signal; else a *)
(* late bar of one stock can hold back an order past a newer one.          *)
NewestSignalRules ==
    \A s \in Stocks :
        LET effective == TakenEffect(s)
        IN  \/ effective = {} /\ targets[s] = 0
            \/ \E g \in effective :
                 /\ targets[s] = g.weight
                 /\ \A h \in effective :
                      /\ \/ FirstOpen(h.day) < FirstOpen(g.day)
                         \/ FirstOpen(h.day) = FirstOpen(g.day) /\ h.day <= g.day
                      /\ PublishedInOrder => h.day <= g.day
=============================================================================

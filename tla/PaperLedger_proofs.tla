-------------------------- MODULE PaperLedger_proofs --------------------------
(***************************************************************************)
(* Theorems about PaperLedger.  The inductive invariant adds to the types  *)
(* and to the properties what a request has decided: it is about to fill   *)
(* at a price that the limit of its ticket allows and that its cash        *)
(* covers.  ProfitInv adds to ProfitExplainsCash, on top of it, a bound on *)
(* every position.                                                         *)
(***************************************************************************)
EXTENDS PaperLedger, SumTheorems, TLAPS

(* A price that the limit of a ticket allows.                              *)
WithinLimit(t, price) ==
    t.limit # NoPrice => IF t.side = "buy" THEN price <= t.limit ELSE price >= t.limit

(* What the preview of a fill found: a price, one that the limit allows,   *)
(* and, for a buy, cash enough for the order and its fees.                 *)
FillIsSound(c) ==
    /\ c.price # NoPrice /\ WithinLimit(c.ticket, c.price)
    /\ c.ticket.side = "buy" /\ c.portfolio.cash >= 0
         => c.portfolio.cash - c.ticket.quantity * c.price - Commission >= 0

(* The fills that requests are about to make are sound.                    *)
DecidedSoundly == \A r \in Requests : ctx[r].status = "filled" => FillIsSound(ctx[r])

IInv == TypeOK /\ FilledOnce /\ LimitsHold /\ BooksBalance /\ DecidedSoundly

-----------------------------------------------------------------------------
(* Quantize rounds a natural number to a natural number.                   *)
LEMMA QuantizeType ==
    ASSUME NEW n \in Nat, NEW d \in Nat \ {0}
    PROVE  Quantize(n, d) \in Nat
<1>1. n \div d \in Nat
  BY SMT
<1> QED
  BY <1>1 DEF Quantize

(* The price after friction is a natural number.                           *)
LEMMA AdjustedType ==
    ASSUME NEW t \in Ticket, NEW base \in Nat
    PROVE  Adjusted(t, base) \in Nat
<1> DEFINE factor == IF t.side = "buy" THEN 10000 + FrictionBps ELSE 10000 - FrictionBps
<1>1. factor \in Nat
  BY MoneyAssumption
<1>2. base * factor \in Nat
  <2> HIDE DEF factor
  <2> QED BY <1>1
<1> QED
  BY <1>2, QuantizeType, 10000 \in Nat \ {0} DEF Adjusted

(* A quote is a price that the ticket's limit allows, or none.             *)
LEMMA QuoteWithinLimit ==
    ASSUME NEW t \in Ticket, NEW bar \in Bar
    PROVE  Quote(t, bar) \in Nat /\ (Quote(t, bar) # NoPrice => WithinLimit(t, Quote(t, bar)))
<1>1. EligiblePrice(t, bar) \in Nat
  BY DEF EligiblePrice, LimitPrice, StopPrice, Ticket, Bar, OrderTypes, NoPrice
<1>2. Adjusted(t, EligiblePrice(t, bar)) \in Nat
  BY <1>1, AdjustedType
<1>3. t.limit \in Nat /\ t.side \in {"buy", "sell"}
  BY DEF Ticket
<1> QED
  BY <1>1, <1>2, <1>3 DEF Quote, ApplyFriction, WithinLimit, NoPrice
(* The latest bar of an asset is one of its bars.                          *)
LEMMA LatestBarType ==
    ASSUME TypeOK, NEW a \in Assets
    PROVE  LatestBar(a) \in Bar
<1>1. Bars[a] \in Seq(Bar) /\ latest[a] \in 1..Len(Bars[a])
  BY BarsAssumption DEF TypeOK
<1> QED
  BY <1>1 DEF LatestBar

(* A fill leaves a position with typed columns, but a sell may leave it    *)
(* with a negative quantity, which the database refuses.                   *)
LEMMA FilledPositionType ==
    ASSUME NEW t \in Ticket, NEW price \in Nat, NEW position \in Position
    PROVE  LET filled == FilledPosition(t, price, position) IN
           /\ filled.quantity \in Int
           /\ filled.cost \in Nat
           /\ filled.realized \in Int
           /\ filled.quantity = IF t.side = "buy" THEN position.quantity + t.quantity
                                                ELSE position.quantity - t.quantity
<1>1. /\ t.quantity \in Nat \ {0} /\ t.side \in {"buy", "sell"}
      /\ position.quantity \in Nat /\ position.cost \in Nat /\ position.realized \in Int
  BY DEF Ticket, Position
<1>2. Commission \in Nat
  BY MoneyAssumption
<1>3. AverageCost(t, price, position) \in Nat
  <2>1. position.quantity * position.cost \in Nat /\ t.quantity * price \in Nat
    BY <1>1
  <2>2. position.quantity * position.cost + t.quantity * price + Commission \in Nat
    BY <2>1, <1>2
  <2>3. position.quantity + t.quantity \in Nat \ {0}
    BY <1>1
  <2> QED
    BY <2>2, <2>3, QuantizeType DEF AverageCost
<1>4. Gain(t, price, position) \in Int
  <2>1. (price - position.cost) * t.quantity \in Int
    BY <1>1
  <2> QED
    BY <2>1, <1>2 DEF Gain
<1> QED
  BY <1>1, <1>3, <1>4 DEF FilledPosition

(* The cash flow of a fill.                                                *)
LEMMA CashFlowType ==
    ASSUME NEW t \in Ticket, NEW price \in Nat
    PROVE  CashFlow(t, price) \in Int
<1>1. t.quantity * price \in Nat
  BY DEF Ticket
<1> QED
  BY <1>1, MoneyAssumption DEF CashFlow

-----------------------------------------------------------------------------
(* The initial state.                                                      *)
LEMMA InitInductive == Init => IInv
<1> SUFFICES ASSUME Init PROVE IInv
  OBVIOUS
<1>1. (CHOOSE i \in ClientOrderIds : TRUE) \in ClientOrderIds
  BY SomeAssumption
<1>2. (CHOOSE t \in OrderRequests : TRUE) \in Ticket
  BY SomeAssumption, TicketsAssumption
<1>3. (CHOOSE d \in Days : TRUE) \in Days
  BY SomeAssumption
<1>4. NoPosition \in Position
  BY DEF NoPosition, Position
<1>5. NoContext \in Context
  BY <1>1, <1>2, <1>3, <1>4 DEF NoContext, Context, Portfolio, Decisions, NoPrice
<1>6. NoOrder \in Order
  BY <1>2 DEF NoOrder, Order, Decisions, NoPrice
<1>7. portfolio \in Portfolio
  BY MoneyAssumption DEF Init, Portfolio
<1>8. latest \in [Assets -> Nat \ {0}] /\ \A a \in Assets : latest[a] <= Len(Bars[a])
  BY BarsAssumption DEF Init
<1>9. flows \in [cash: Int, quantity: [Assets -> Int]]
  BY DEF Init
<1>10. TypeOK
  BY <1>4, <1>5, <1>6, <1>7, <1>8, <1>9 DEF TypeOK, Init
<1>11. FilledOnce
  BY DEF Init, FilledOnce, NoOrder
<1>12. LimitsHold
  BY DEF Init, LimitsHold, NoOrder
<1>13. BooksBalance
  BY MoneyAssumption DEF Init, BooksBalance, NoPosition
<1>14. DecidedSoundly
  BY DEF Init, DecidedSoundly, NoContext
<1> QED
  BY <1>10, <1>11, <1>12, <1>13, <1>14 DEF IInv

(* A request that ends forgets what it had loaded.                         *)
LEMMA DoneType ==
    ASSUME IInv, NEW r \in Requests, Done(r)
    PROVE  /\ pc' \in [Requests -> {"idle", "loaded", "decided", "filling"}]
           /\ ctx' \in [Requests -> Context]
           /\ DecidedSoundly'
<1>1. (CHOOSE i \in ClientOrderIds : TRUE) \in ClientOrderIds
  BY SomeAssumption
<1>2. (CHOOSE t \in OrderRequests : TRUE) \in Ticket
  BY SomeAssumption, TicketsAssumption
<1>3. (CHOOSE d \in Days : TRUE) \in Days
  BY SomeAssumption
<1>4. NoPosition \in Position
  BY DEF NoPosition, Position
<1>5. NoContext \in Context
  BY <1>1, <1>2, <1>3, <1>4 DEF NoContext, Context, Portfolio, Decisions, NoPrice
<1>6. pc' \in [Requests -> {"idle", "loaded", "decided", "filling"}] /\ ctx' \in [Requests -> Context]
  BY <1>5 DEF Done, IInv, TypeOK
<1>7. NoContext.status = "absent"
  BY DEF NoContext
<1>8. ctx' = [ctx EXCEPT ![r] = NoContext] /\ ctx \in [Requests -> Context]
  BY DEF Done, IInv, TypeOK
<1>9. DecidedSoundly'
  BY <1>7, <1>8 DEF IInv, DecidedSoundly, FillIsSound, WithinLimit
<1> QED
  BY <1>6, <1>9

(* A step that leaves orders and books alone disturbs types at most.       *)
LEMMA BooksUntouched ==
    ASSUME IInv, UNCHANGED <<books, orders>>,
           rules' \in RuleSets,
           latest' \in [Assets -> Nat \ {0}], \A a \in Assets : latest'[a] <= Len(Bars[a]),
           pc' \in [Requests -> {"idle", "loaded", "decided", "filling"}],
           ctx' \in [Requests -> Context],
           DecidedSoundly'
    PROVE  IInv'
<1>1. /\ portfolio' = portfolio /\ positions' = positions /\ equities' = equities
      /\ fills' = fills /\ trades' = trades /\ flows' = flows /\ raced' = raced
      /\ orders' = orders
  BY DEF books
<1>2. TypeOK'
  BY <1>1 DEF IInv, TypeOK
<1>3. FilledOnce' /\ LimitsHold' /\ BooksBalance'
  BY <1>1 DEF IInv, FilledOnce, LimitsHold, BooksBalance
<1> QED
  BY <1>2, <1>3 DEF IInv

LEMMA LoadKeeps ==
    ASSUME IInv, NEW r \in Requests, NEW i \in ClientOrderIds, NEW t \in Sends[i],
           LoadPortfolio(r, i, t)
    PROVE  IInv'
<1>1. t \in Ticket
  BY TicketsAssumption
<1>2. (CHOOSE d \in Days : TRUE) \in Days
  BY SomeAssumption
<1>3. NoPosition \in Position
  BY DEF NoPosition, Position
<1> DEFINE new == [NoContext EXCEPT !.id = i, !.ticket = t, !.portfolio = portfolio]
<1>4. portfolio \in Portfolio
  BY DEF IInv, TypeOK
<1>5. new \in Context /\ new.status = "absent"
  BY <1>1, <1>2, <1>3, <1>4 DEF NoContext, Context, Decisions, NoPrice
<1>6. ctx' = [ctx EXCEPT ![r] = new] /\ ctx \in [Requests -> Context]
  BY DEF LoadPortfolio, IInv, TypeOK
<1> HIDE DEF new
<1>7. ctx' \in [Requests -> Context]
  BY <1>5, <1>6
<1>8. DecidedSoundly'
  BY <1>5, <1>6 DEF IInv, DecidedSoundly, FillIsSound, WithinLimit
<1>9. pc' \in [Requests -> {"idle", "loaded", "decided", "filling"}]
  BY DEF LoadPortfolio, IInv, TypeOK
<1>10. UNCHANGED <<books, orders, market>>
  BY DEF LoadPortfolio
<1> QED
  BY <1>7, <1>8, <1>9, <1>10, BooksUntouched DEF market, IInv, TypeOK

(* What the positions are worth is never negative.                         *)
LEMMA ValueIsNat ==
    ASSUME TypeOK
    PROVE  ValueOf(Held, Assets) \in Nat
<1> DEFINE f == [a \in Assets |-> Held[a] * LatestBar(a).close]
<1>1. ASSUME NEW a \in Assets PROVE f[a] \in Nat
  <2>1. Held[a] \in Nat
    BY DEF TypeOK, Held, Position
  <2>2. LatestBar(a).close \in Nat
    BY LatestBarType DEF Bar
  <2>3. QED BY <2>1, <2>2
<1>2. ValueOf(Held, Assets) = SumFunctionOnSet(f, Assets)
  BY DEF ValueOf, SumFunctionOnSet, FoldFunctionOnSet, MapThenFoldSet, MapThenSumSet
<1> HIDE DEF f
<1>3. QED BY <1>1, <1>2, SumIsNat, RulesAssumption

(* A buy that gives no reason to be rejected has passed the cash rule.     *)
LEMMA PassingBuyIsCovered ==
    ASSUME NEW t, NEW bar, NEW price, NEW cash, NEW opening, t.side = "buy",
           evaluate_risk(t, bar, price, cash, opening) = {}
    PROVE  CashCovers(t, price, cash)
<1> DEFINE equity == Equity(cash)
           peak == Max({StartingCash} \union UNION {equities[d] : d \in Days})
           always ==
             [short_selling |-> t.side = "sell" => t.quantity <= positions[t.asset].quantity,
              maximum_order_value |-> Within("maximum_order_value", t.quantity * price),
              minimum_cash_reserve |-> t.side = "buy" => CashCovers(t, price, cash),
              stale_price_days |-> Within("stale_price_days", bar.age),
              maximum_daily_trade_count |->
                  Within("maximum_daily_trade_count", trades[bar.day] + 1),
              maximum_portfolio_drawdown |->
                  ~LossReached("maximum_portfolio_drawdown", peak, equity),
              maximum_daily_simulated_loss |->
                  ~LossReached("maximum_daily_simulated_loss", opening, equity)]
<1>1. {n \in DOMAIN always : ~always[n]} = {}
  <2>1. {n \in DOMAIN always : ~always[n]} \subseteq evaluate_risk(t, bar, price, cash, opening)
    BY Zenon DEF evaluate_risk
  <2> HIDE DEF always
  <2>2. QED BY <2>1
<1>2. "minimum_cash_reserve" \in DOMAIN always
  BY Zenon
<1>3. always["minimum_cash_reserve"] = (t.side = "buy" => CashCovers(t, price, cash))
  BY Zenon
<1>4. always["minimum_cash_reserve"]
  <2> HIDE DEF always
  <2>1. QED BY <1>1, <1>2
<1> HIDE DEF always
<1>5. QED BY <1>3, <1>4

LEMMA CoveredBuyKeepsCash ==
    ASSUME TypeOK, NEW t \in Ticket, NEW price \in Nat, NEW cash \in Nat,
           CashCovers(t, price, cash)
    PROVE  cash - t.quantity * price - Commission >= 0
<1> DEFINE equity == Equity(cash)
           left == cash - t.quantity * price - Commission
<1>1. equity \in Nat
  BY ValueIsNat DEF Equity
<1>2. Reserve(equity) \in Nat
  <2>1. "minimum_cash_reserve" \in DOMAIN rules => rules["minimum_cash_reserve"] \in Nat
    BY RulesAssumption DEF TypeOK
  <2>2. QED BY <1>1, <2>1 DEF Reserve
<1>3. left \in Int
  <2>1. t.quantity * price \in Int
    BY DEF Ticket
  <2>2. QED BY <2>1, MoneyAssumption
<1>4. left * 100 >= Reserve(equity)
  BY DEF CashCovers
<1> HIDE DEF left, equity
<1>5. left >= 0
  BY <1>2, <1>3, <1>4
<1>6. QED BY <1>5 DEF left

(* A preview decides to fill only what is sound.                           *)
LEMMA FilledIsSound ==
    ASSUME TypeOK, NEW c \in Context, NEW opening, NEW bar, bar = LatestBar(c.ticket.asset),
           Outcome(c.ticket, bar, Reasons(c.ticket, bar, c.portfolio, opening)) = "filled",
           NEW d \in Context, d.price = Quote(c.ticket, bar), d.ticket = c.ticket,
           d.portfolio = c.portfolio
    PROVE  FillIsSound(d)
<1> DEFINE t == c.ticket
           price == Quote(t, bar)
           cash == c.portfolio.cash
<1>1. t \in Ticket /\ t.asset \in Assets /\ cash \in Int
  BY DEF Context, Ticket, Portfolio
<1>2. price \in Nat /\ (price # NoPrice => WithinLimit(t, price))
  BY <1>1, LatestBarType, QuoteWithinLimit
<1>3. price # NoPrice /\ Reasons(t, bar, c.portfolio, opening) = {}
  <2> DEFINE reasons == Reasons(t, bar, c.portfolio, opening)
  <2>1. Outcome(t, bar, reasons) = "filled"
    OBVIOUS
  <2> HIDE DEF reasons
  <2> HIDE DEF t
  <2>2. reasons = {} /\ Quote(t, bar) # NoPrice
    BY <2>1 DEF Outcome
  <2>3. QED BY <2>2 DEF reasons
<1>4. evaluate_risk(t, bar, price, cash, opening) = {}
  <2>1. RiskPrice(t, bar) = price
    <3>1. Quote(t, bar) # NoPrice
      BY <1>3
    <3>2. QED BY <3>1 DEF RiskPrice
  <2>2. evaluate_risk(t, bar, RiskPrice(t, bar), cash, opening)
          \subseteq Reasons(t, bar, c.portfolio, opening)
    BY DEF Reasons
  <2>3. QED BY <1>3, <2>1, <2>2
<1> HIDE DEF t, price, cash
<1>5. ASSUME t.side = "buy", cash >= 0 PROVE cash - t.quantity * price - Commission >= 0
  <2>1. CashCovers(t, price, cash)
    BY <1>4, <1>5, PassingBuyIsCovered
  <2>2. QED BY <1>1, <1>2, <1>5, <2>1, CoveredBuyKeepsCash
<1>6. QED BY <1>2, <1>3, <1>5 DEF FillIsSound, t, price, cash

LEMMA PreviewKeeps ==
    ASSUME IInv, NEW r \in Requests, Preview(r)
    PROVE  IInv'
<1> DEFINE c == ctx[r]
           t == c.ticket
           bar == LatestBar(t.asset)
<1>1. c \in Context /\ ctx \in [Requests -> Context]
  BY DEF IInv, TypeOK
<1>2. t \in Ticket /\ t.asset \in Assets
  BY <1>1 DEF Context, Ticket
<1>3. bar \in Bar
  BY <1>2, LatestBarType DEF IInv
<1>4. PICK opening \in Openings(bar.day) :
        ctx' = [ctx EXCEPT ![r] =
              [c EXCEPT !.status = Outcome(t, bar, Reasons(t, bar, c.portfolio, opening)),
                        !.day = bar.day, !.price = Quote(t, bar), !.triggered = Triggered(t, bar),
                        !.fits = Cardinality(Reasons(t, bar, c.portfolio, opening)) <= ReasonsFit]]
  BY DEF Preview
<1> DEFINE reasons == Reasons(t, bar, c.portfolio, opening)
           outcome == Outcome(t, bar, reasons)
           price == Quote(t, bar)
           triggered == Triggered(t, bar)
           fits == Cardinality(reasons) <= ReasonsFit
           new == [c EXCEPT !.status = outcome, !.day = bar.day, !.price = price,
                            !.triggered = triggered, !.fits = fits]
<1>5. outcome \in Decisions
  BY DEF Outcome, Decisions
<1>6. price \in Nat
  BY <1>2, <1>3, QuoteWithinLimit
<1>7. triggered \in BOOLEAN
  BY DEF Triggered
<1>8. bar.day \in Days
  BY <1>3 DEF Bar
<1>9. ctx' = [ctx EXCEPT ![r] = new]
  BY <1>4
<1> HIDE DEF reasons, outcome, price, triggered, bar
<1>10. fits \in BOOLEAN
  OBVIOUS
<1> HIDE DEF fits
<1>11. new \in Context
  BY <1>1, <1>5, <1>6, <1>7, <1>8, <1>10 DEF Context
<1>12. new.status = outcome
  BY <1>1 DEF Context
<1>sound. outcome = "filled" => FillIsSound(new)
  <2>1. new.price = price /\ new.ticket = t /\ new.portfolio = c.portfolio
    BY <1>1 DEF Context
  <2> HIDE DEF new
  <2>2. QED BY <1>1, <1>11, <2>1, FilledIsSound DEF outcome, reasons, price, bar, IInv
<1> HIDE DEF new, t, c
<1>13. ctx' \in [Requests -> Context]
  BY <1>1, <1>9, <1>11
<1>14. DecidedSoundly'
  <2> SUFFICES ASSUME NEW q \in Requests, ctx'[q].status = "filled"
               PROVE  FillIsSound(ctx'[q])
    BY DEF DecidedSoundly, FillIsSound, WithinLimit
  <2>1. CASE q = r
    BY <2>1, <1>1, <1>9, <1>12, <1>sound
  <2>2. CASE q # r
    BY <2>2, <1>1, <1>9 DEF IInv, DecidedSoundly
  <2> QED BY <2>1, <2>2
<1>15. pc' \in [Requests -> {"idle", "loaded", "decided", "filling"}]
  BY DEF Preview, IInv, TypeOK
<1>16. UNCHANGED <<books, orders, market>>
  BY DEF Preview
<1> QED
  BY <1>13, <1>14, <1>15, <1>16, BooksUntouched DEF market, IInv, TypeOK

LEMMA SelectKeeps ==
    ASSUME IInv, NEW r \in Requests, SelectPosition(r)
    PROVE  IInv'
<1> DEFINE c == ctx[r]
           new == [c EXCEPT !.position = positions[c.ticket.asset]]
<1>1. c \in Context /\ ctx \in [Requests -> Context] /\ positions \in [Assets -> Position]
  BY DEF IInv, TypeOK
<1>2. c.ticket.asset \in Assets
  BY <1>1 DEF Context, Ticket
<1>3. new \in Context
  BY <1>1, <1>2 DEF Context
<1>4. /\ new.status = c.status /\ new.price = c.price /\ new.ticket = c.ticket
      /\ new.portfolio = c.portfolio
  BY <1>1 DEF Context
<1>5. ctx' = [ctx EXCEPT ![r] = new]
  BY DEF SelectPosition
<1> HIDE DEF new
<1>6. ctx' \in [Requests -> Context]
  BY <1>1, <1>3, <1>5
<1>7. DecidedSoundly'
  <2>1. FillIsSound(new) <=> FillIsSound(c)
    <3> HIDE DEF c
    <3>1. QED BY <1>4 DEF FillIsSound
  <2> SUFFICES ASSUME NEW q \in Requests, ctx'[q].status = "filled"
               PROVE  FillIsSound(ctx'[q])
    BY DEF DecidedSoundly, FillIsSound, WithinLimit
  <2>2. CASE q = r
    BY <2>1, <2>2, <1>1, <1>4, <1>5 DEF IInv, DecidedSoundly
  <2>3. CASE q # r
    BY <2>3, <1>1, <1>5 DEF IInv, DecidedSoundly
  <2>4. QED BY <2>2, <2>3
<1>8. pc' \in [Requests -> {"idle", "loaded", "decided", "filling"}]
  BY DEF SelectPosition, IInv, TypeOK
<1>9. UNCHANGED <<books, orders, market>>
  BY DEF SelectPosition
<1> QED
  BY <1>6, <1>7, <1>8, <1>9, BooksUntouched DEF market, IInv, TypeOK

LEMMA EndKeeps ==
    ASSUME IInv, NEW r \in Requests, Replay(r) \/ Rollback(r)
    PROVE  IInv'
<1>1. Done(r) /\ UNCHANGED <<books, orders, market>>
  BY DEF Replay, Rollback
<1> QED
  BY <1>1, DoneType, BooksUntouched DEF market, IInv, TypeOK

-----------------------------------------------------------------------------
(* The commit of an order.                                                 *)

(* A fill keeps types, and the books as balanced as they were.             *)
LEMMA FillKeepsBooks ==
    ASSUME TypeOK, BooksBalance, NEW c \in Context, c.status = "filled", ~Short(c), FillOrder(c)
    PROVE  /\ portfolio' \in Portfolio /\ positions' \in [Assets -> Position]
           /\ DOMAIN equities' = Days
           /\ fills' = [fills EXCEPT ![c.id] = @ + 1]
           /\ trades' \in [Days -> Nat]
           /\ flows' \in [cash: Int, quantity: [Assets -> Int]]
           /\ raced' \in BOOLEAN
           /\ BooksBalance'
<1> DEFINE t == c.ticket
           a == t.asset
           loaded == c.portfolio
           position == c.position
           flow == CashFlow(t, c.price)
           cash == loaded.cash + flow
           gain == Gain(t, c.price, position)
           filled == FilledPosition(t, c.price, position)
<1>1. /\ t \in Ticket /\ a \in Assets /\ c.price \in Nat /\ position \in Position
      /\ loaded \in Portfolio /\ c.day \in Days /\ t.quantity \in Nat
  BY DEF Context, Ticket
<1>2. /\ portfolio \in Portfolio /\ positions \in [Assets -> Position]
      /\ flows \in [cash: Int, quantity: [Assets -> Int]]
  BY DEF TypeOK
<1>3. flow \in Int
  BY <1>1, CashFlowType
<1>4. /\ filled.quantity \in Int /\ filled.cost \in Nat /\ filled.realized \in Int
      /\ filled.quantity = IF t.side = "buy" THEN position.quantity + t.quantity
                                           ELSE position.quantity - t.quantity
  BY <1>1, FilledPositionType
<1>5. filled.quantity >= 0
  BY <1>4 DEF Short
<1>6. gain \in Int
  <2>1. (c.price - position.cost) * t.quantity \in Int
    BY <1>1 DEF Position
  <2> QED
    BY <2>1, MoneyAssumption DEF Gain
<1>7. /\ portfolio' = [cash     |-> Written(portfolio.cash, loaded.cash, cash),
                      realized |-> Written(portfolio.realized, loaded.realized, loaded.realized + gain),
                      status   |-> portfolio.status]
      /\ positions' = [positions EXCEPT ![a] =
             [exists   |-> TRUE,
              quantity |-> Written(positions[a].quantity, position.quantity, filled.quantity),
              cost     |-> Written(positions[a].cost, position.cost, filled.cost),
              realized |-> Written(positions[a].realized, position.realized, filled.realized)]]
      /\ flows' = [cash |-> flows.cash + flow,
                   quantity |-> [flows.quantity EXCEPT ![a] =
                         IF t.side = "buy" THEN @ + t.quantity ELSE @ - t.quantity]]
      /\ raced' = (raced \/ loaded.cash # portfolio.cash \/ loaded.realized # portfolio.realized
                         \/ position # positions[a])
  BY DEF FillOrder
<1> HIDE DEF flow, gain, filled
<1>8. portfolio' \in Portfolio
  BY <1>1, <1>2, <1>3, <1>6, <1>7 DEF Portfolio, Written
<1>9. positions' \in [Assets -> Position]
  BY <1>1, <1>2, <1>4, <1>5, <1>7 DEF Position, Written
<1>10. flows' \in [cash: Int, quantity: [Assets -> Int]]
  BY <1>1, <1>2, <1>3, <1>7
<1>11. DOMAIN equities' = Days
  BY DEF FillOrder, TypeOK
<1>12. fills' = [fills EXCEPT ![c.id] = @ + 1]
  BY DEF FillOrder
<1>13. trades' \in [Days -> Nat]
  BY <1>1 DEF FillOrder, TypeOK
<1>14. raced' \in BOOLEAN
  BY <1>7, Zenon
<1>15. BooksBalance'
  <2> SUFFICES ASSUME ~raced'
               PROVE  /\ portfolio'.cash = StartingCash + flows'.cash
                      /\ \A b \in Assets : positions'[b].quantity = flows'.quantity[b]
    BY DEF BooksBalance
  <2>1. ~raced /\ loaded.cash = portfolio.cash /\ position = positions[a]
    BY <1>7
  <2>2. /\ portfolio.cash = StartingCash + flows.cash
        /\ \A b \in Assets : positions[b].quantity = flows.quantity[b]
    BY <2>1 DEF BooksBalance
  <2>3. /\ portfolio.cash \in Int /\ loaded.cash \in Int /\ flows.cash \in Int
        /\ StartingCash \in Int
    BY <1>1, <1>2, MoneyAssumption DEF Portfolio
  <2>4. portfolio'.cash = Written(portfolio.cash, loaded.cash, cash)
    BY <1>7
  <2>5. flows'.cash = flows.cash + flow
    BY <1>7
  <2>6. portfolio'.cash = StartingCash + flows'.cash
    BY <1>3, <2>1, <2>2, <2>3, <2>4, <2>5 DEF Written
  <2>7. ASSUME NEW b \in Assets PROVE positions'[b].quantity = flows'.quantity[b]
    <3>1. positions[b].quantity \in Int /\ flows.quantity[b] = positions[b].quantity
      BY <1>2, <2>2 DEF Position
    <3>2. CASE b = a
      <4>1. positions'[b].quantity = Written(positions[a].quantity, position.quantity, filled.quantity)
        BY <3>2, <1>1, <1>2, <1>7
      <4>2. flows'.quantity[b] = IF t.side = "buy" THEN flows.quantity[a] + t.quantity
                                                   ELSE flows.quantity[a] - t.quantity
        BY <3>2, <1>1, <1>2, <1>7
      <4> QED
        BY <4>1, <4>2, <3>1, <3>2, <1>4, <2>1 DEF Written
    <3>3. CASE b # a
      BY <3>1, <3>3, <1>1, <1>2, <1>7
    <3> QED BY <3>2, <3>3
  <2> QED BY <2>6, <2>7
<1> QED
  BY <1>8, <1>9, <1>10, <1>11, <1>12, <1>13, <1>14, <1>15

LEMMA SubmitKeeps ==
    ASSUME IInv, NEW r \in Requests, Submit(r)
    PROVE  IInv'
<1> DEFINE c == ctx[r]
           row == [status |-> c.status, triggered |-> c.triggered, ticket |-> c.ticket,
                   price |-> IF c.status = "filled" THEN c.price ELSE NoPrice]
<1>1. TypeOK /\ FilledOnce /\ LimitsHold /\ BooksBalance /\ DecidedSoundly
  BY DEF IInv
<1>2. c \in Context
  BY <1>1 DEF TypeOK
<1>3. /\ c.id \in ClientOrderIds /\ c.status \in Decisions /\ c.triggered \in BOOLEAN
      /\ c.ticket \in Ticket /\ c.price \in Nat
  BY <1>2 DEF Context
<1>4. ~Short(c) /\ orders[c.id].status = "absent"
  BY DEF Submit, Refused, Duplicate
<1>5. /\ orders' = [orders EXCEPT ![c.id] = row]
      /\ IF c.status = "filled" THEN FillOrder(c) ELSE UNCHANGED books
      /\ Done(r) /\ UNCHANGED market
  BY DEF Submit, InsertOrder
<1>6. /\ pc' \in [Requests -> {"idle", "loaded", "decided", "filling"}]
      /\ ctx' \in [Requests -> Context]
      /\ DecidedSoundly'
  BY <1>5, DoneType
<1>7. row \in Order
  BY <1>3 DEF Order, NoPrice
<1>8. row.status = c.status /\ row.ticket = c.ticket /\ (c.status = "filled" => row.price = c.price)
  OBVIOUS
<1> HIDE DEF row
<1>9. orders' \in [ClientOrderIds -> Order]
  BY <1>1, <1>3, <1>5, <1>7 DEF TypeOK
<1>10. LimitsHold'
  <2> SUFFICES ASSUME NEW i \in ClientOrderIds, orders'[i].status = "filled"
               PROVE  WithinLimit(orders'[i].ticket, orders'[i].price)
    BY DEF LimitsHold, WithinLimit
  <2>1. CASE i = c.id
    <3>1. orders'[i] = row
      BY <2>1, <1>1, <1>3, <1>5 DEF TypeOK
    <3>2. c.status = "filled"
      BY <3>1, <1>8
    <3>3. WithinLimit(c.ticket, c.price)
      BY <3>2, <1>1 DEF DecidedSoundly, FillIsSound
    <3> QED
      BY <3>1, <3>2, <3>3, <1>8
  <2>2. CASE i # c.id
    BY <2>2, <1>1, <1>5 DEF LimitsHold, TypeOK, WithinLimit
  <2> QED BY <2>1, <2>2
<1>11. fills[c.id] = 0 /\ fills \in [ClientOrderIds -> Nat]
  BY <1>1, <1>3, <1>4 DEF FilledOnce, TypeOK
<1>12. rules' = rules /\ latest' = latest
  BY <1>5 DEF market
<1>13. CASE c.status = "filled"
  <2>1. FillOrder(c)
    BY <1>13, <1>5
  <2>2. /\ portfolio' \in Portfolio /\ positions' \in [Assets -> Position]
        /\ DOMAIN equities' = Days
        /\ fills' = [fills EXCEPT ![c.id] = @ + 1]
        /\ trades' \in [Days -> Nat]
        /\ flows' \in [cash: Int, quantity: [Assets -> Int]]
        /\ raced' \in BOOLEAN
        /\ BooksBalance'
    BY <2>1, <1>1, <1>2, <1>4, <1>13, FillKeepsBooks
  <2>3. fills' \in [ClientOrderIds -> Nat]
    BY <2>2, <1>3, <1>11
  <2>4. TypeOK'
    BY <2>2, <2>3, <1>1, <1>6, <1>9, <1>12 DEF TypeOK
  <2>5. FilledOnce'
    BY <2>2, <1>1, <1>3, <1>5, <1>8, <1>11, <1>13 DEF FilledOnce, TypeOK
  <2> QED
    BY <2>2, <2>4, <2>5, <1>6, <1>10 DEF IInv
<1>14. CASE c.status # "filled"
  <2>1. /\ portfolio' = portfolio /\ positions' = positions /\ equities' = equities
        /\ fills' = fills /\ trades' = trades /\ flows' = flows /\ raced' = raced
    BY <1>5, <1>14 DEF books
  <2>2. TypeOK'
    BY <2>1, <1>1, <1>6, <1>9, <1>12 DEF TypeOK
  <2>3. FilledOnce'
    BY <2>1, <1>1, <1>3, <1>5, <1>8, <1>11, <1>14 DEF FilledOnce, TypeOK
  <2>4. BooksBalance'
    BY <2>1, <1>1 DEF BooksBalance
  <2> QED
    BY <2>2, <2>3, <2>4, <1>6, <1>10 DEF IInv
<1> QED BY <1>13, <1>14

LEMMA CancelKeeps ==
    ASSUME IInv, NEW i \in ClientOrderIds, CancelOrder(i)
    PROVE  IInv'
<1>1. /\ portfolio' = portfolio /\ positions' = positions /\ equities' = equities
      /\ fills' = fills /\ trades' = trades /\ flows' = flows /\ raced' = raced
      /\ rules' = rules /\ latest' = latest /\ pc' = pc /\ ctx' = ctx
  BY DEF CancelOrder, books, market
<1>2. orders \in [ClientOrderIds -> Order]
  BY DEF IInv, TypeOK
<1>3. orders' = [orders EXCEPT ![i] = [orders[i] EXCEPT !.status = "cancelled"]]
  BY DEF CancelOrder
<1>4. orders[i].status \in {"pending", "triggered"}
  BY DEF CancelOrder
<1>5. [orders[i] EXCEPT !.status = "cancelled"] \in Order
  BY <1>2 DEF Order
<1>6. [orders[i] EXCEPT !.status = "cancelled"].status = "cancelled"
  BY <1>2 DEF Order
<1>7. TypeOK'
  BY <1>1, <1>2, <1>3, <1>5 DEF IInv, TypeOK
<1>8. FilledOnce'
  BY <1>1, <1>2, <1>3, <1>4, <1>6 DEF IInv, FilledOnce
<1>9. LimitsHold'
  BY <1>2, <1>3, <1>6 DEF IInv, LimitsHold
<1>10. BooksBalance' /\ DecidedSoundly'
  BY <1>1 DEF IInv, BooksBalance, DecidedSoundly, FillIsSound, WithinLimit
<1> QED
  BY <1>7, <1>8, <1>9, <1>10 DEF IInv

LEMMA PauseKeeps ==
    ASSUME IInv, NEW status \in {"active", "paused"}, PauseOrResume(status)
    PROVE  IInv'
<1>1. /\ positions' = positions /\ equities' = equities /\ orders' = orders
      /\ fills' = fills /\ trades' = trades /\ flows' = flows /\ raced' = raced
      /\ rules' = rules /\ latest' = latest /\ pc' = pc /\ ctx' = ctx
  BY DEF PauseOrResume, market
<1>2. portfolio \in Portfolio /\ portfolio' = [portfolio EXCEPT !.status = status]
  BY DEF PauseOrResume, IInv, TypeOK
<1>3. portfolio' \in Portfolio /\ portfolio'.cash = portfolio.cash
  BY <1>2 DEF Portfolio
<1>4. TypeOK'
  BY <1>1, <1>3 DEF IInv, TypeOK
<1>5. FilledOnce' /\ LimitsHold' /\ DecidedSoundly'
  BY <1>1 DEF IInv, FilledOnce, LimitsHold, DecidedSoundly, FillIsSound, WithinLimit
<1>6. BooksBalance'
  BY <1>1, <1>3 DEF IInv, BooksBalance
<1> QED
  BY <1>4, <1>5, <1>6 DEF IInv

(* New rules and new bars change what later previews decide, no books.     *)
LEMMA MarketKeeps ==
    ASSUME IInv, (\E set \in RuleSets : UpdateRiskRules(set)) \/ (\E a \in Assets : StoreBar(a))
    PROVE  IInv'
<1>1. UNCHANGED <<books, orders, pc, ctx>>
  BY DEF UpdateRiskRules, StoreBar, market
<1>2. rules' \in RuleSets
  BY DEF UpdateRiskRules, StoreBar, IInv, TypeOK
<1>3. latest' \in [Assets -> Nat \ {0}] /\ \A a \in Assets : latest'[a] <= Len(Bars[a])
  <2>1. CASE \E set \in RuleSets : UpdateRiskRules(set)
    BY <2>1 DEF UpdateRiskRules, IInv, TypeOK
  <2>2. CASE \E a \in Assets : StoreBar(a)
    <3>1. PICK a \in Assets : StoreBar(a)
      BY <2>2
    <3>2. \A b \in Assets : Len(Bars[b]) \in Nat
      BY BarsAssumption
    <3> QED
      BY <3>1, <3>2 DEF StoreBar, IInv, TypeOK
  <2> QED BY <2>1, <2>2
<1>4. DecidedSoundly'
  BY <1>1 DEF IInv, DecidedSoundly, FillIsSound, WithinLimit
<1>5. pc' \in [Requests -> {"idle", "loaded", "decided", "filling"}] /\ ctx' \in [Requests -> Context]
  BY <1>1 DEF IInv, TypeOK
<1> QED
  BY <1>1, <1>2, <1>3, <1>4, <1>5, BooksUntouched

-----------------------------------------------------------------------------
(* Every step keeps the inductive invariant.                               *)
LEMMA NextInductive == IInv /\ [Next]_vars => IInv'
<1> SUFFICES ASSUME IInv, [Next]_vars PROVE IInv'
  OBVIOUS
<1>1. CASE \E r \in Requests, i \in ClientOrderIds : \E t \in Sends[i] : LoadPortfolio(r, i, t)
  BY <1>1, LoadKeeps
<1>2. CASE \E r \in Requests : Preview(r)
  BY <1>2, PreviewKeeps
<1>3. CASE \E r \in Requests : SelectPosition(r)
  BY <1>3, SelectKeeps
<1>4. CASE \E r \in Requests : Submit(r)
  BY <1>4, SubmitKeeps
<1>5. CASE \E r \in Requests : Replay(r) \/ Rollback(r)
  BY <1>5, EndKeeps
<1>6. CASE \E i \in ClientOrderIds : CancelOrder(i)
  BY <1>6, CancelKeeps
<1>7. CASE \E status \in {"active", "paused"} : PauseOrResume(status)
  BY <1>7, PauseKeeps
<1>8. CASE \/ \E set \in RuleSets : UpdateRiskRules(set)
           \/ \E a \in Assets : StoreBar(a)
  BY <1>8, MarketKeeps
<1>9. CASE UNCHANGED vars
  <2>1. UNCHANGED <<books, orders, rules, latest, pc, ctx>>
    BY <1>9 DEF vars, books
  <2> QED
    BY <2>1, BooksUntouched DEF IInv, TypeOK, DecidedSoundly, FillIsSound, WithinLimit
<1> QED
  BY <1>1, <1>2, <1>3, <1>4, <1>5, <1>6, <1>7, <1>8, <1>9 DEF Next

LEMMA Inductive == Spec => []IInv
<1> QED BY InitInductive, NextInductive, PTL DEF Spec

(* The state keeps its types; in particular no sells, however they         *)
(* overlap, leave a negative quantity (paper_position_quantity_nonneg.).   *)
THEOREM TypeCorrect == Spec => []TypeOK
<1>1. IInv => TypeOK
  BY DEF IInv
<1> QED BY <1>1, Inductive, PTL

(* An order fills at most once, for any number of concurrent requests that *)
(* send it, with the same ticket or another (submit's replay and           *)
(* uq_paper_order_client_id).                                              *)
THEOREM FillsHappenOnce == Spec => []FilledOnce
<1>1. IInv => FilledOnce
  BY DEF IInv
<1> QED BY <1>1, Inductive, PTL

(* No fill is worse than the limit of its order, for all bars, tickets and *)
(* frictions (_eligible_price, _apply_friction).                           *)
THEOREM LimitsAreKept == Spec => []LimitsHold
<1>1. IInv => LimitsHold
  BY DEF IInv
<1> QED BY <1>1, Inductive, PTL

(* Cash and positions are the sums of the fills unless a fill replaced a   *)
(* balance that had changed since it was read (_fill).                     *)
THEOREM BooksAreBalanced == Spec => []BooksBalance
<1>1. IInv => BooksBalance
  BY DEF IInv
<1> QED BY <1>1, Inductive, PTL

-----------------------------------------------------------------------------
(* Covered buys.                                                           *)

(* A fill of a sound buy writes the cash its request has computed, since   *)
(* that differs from what was loaded.                                      *)
LEMMA BuyWritesCash ==
    ASSUME TypeOK, NEW c \in Context, FillIsSound(c), FillOrder(c),
           c.ticket.side = "buy", c.portfolio.cash >= 0
    PROVE  portfolio'.cash >= 0
<1> DEFINE t == c.ticket
           spent == t.quantity * c.price
           cash == c.portfolio.cash + CashFlow(t, c.price)
<1>1. /\ t.quantity \in Nat \ {0} /\ c.price \in Nat \ {0} /\ Commission \in Nat
      /\ c.portfolio.cash \in Nat
  BY MoneyAssumption DEF Context, Ticket, Portfolio, FillIsSound, NoPrice
<1>2. spent \in Nat \ {0}
  BY <1>1
<1> HIDE DEF spent
<1>3. CashFlow(t, c.price) = -(spent + Commission)
  BY DEF CashFlow, spent
<1>4. c.portfolio.cash - spent - Commission >= 0
  BY DEF FillIsSound, spent
<1>5. cash >= 0 /\ cash # c.portfolio.cash
  BY <1>1, <1>2, <1>3, <1>4
<1>6. portfolio'.cash = Written(portfolio.cash, c.portfolio.cash, cash)
  BY DEF FillOrder
<1>7. QED BY <1>5, <1>6 DEF Written

(* The request whose step leaves "filling" with a fill has submitted.      *)
LEMMA FillsAreSubmitted ==
    ASSUME IInv, Next, NEW r \in Requests, pc[r] = "filling", pc'[r] = "idle", fills' # fills
    PROVE  Submit(r) /\ ctx[r].status = "filled" /\ FillOrder(ctx[r])
<1>1. PICK q \in Requests : Submit(q)
  BY DEF Next, LoadPortfolio, Replay, Preview, SelectPosition, Rollback, CancelOrder,
         PauseOrResume, UpdateRiskRules, StoreBar, books
<1>2. q = r
  BY <1>1 DEF Submit, InsertOrder, Done, IInv, TypeOK
<1>3. ctx[r].status = "filled"
  BY <1>1, <1>2 DEF Submit, Ready
<1>4. QED BY <1>1, <1>2, <1>3 DEF Submit, InsertOrder

(* No buy, however it races, writes a negative balance over one that its   *)
(* request saw not to be negative: the preview's cash rule always holds,   *)
(* whether a reserve is configured or not (evaluate_risk, _fill).          *)
THEOREM BuysStayCovered == Spec => BuysAreCovered
<1> DEFINE Covered ==
             \A r \in Requests :
                (/\ pc[r] = "filling" /\ fills' # fills /\ pc'[r] = "idle"
                 /\ ctx[r].ticket.side = "buy" /\ ctx[r].portfolio.cash >= 0)
                   => portfolio'.cash >= 0
<1>1. IInv /\ [Next]_vars => [Covered]_vars
  <2> SUFFICES ASSUME IInv, Next, NEW r \in Requests, pc[r] = "filling", fills' # fills,
                      pc'[r] = "idle", ctx[r].ticket.side = "buy", ctx[r].portfolio.cash >= 0
               PROVE  portfolio'.cash >= 0
    OBVIOUS
  <2>1. ctx[r].status = "filled" /\ FillOrder(ctx[r])
    BY FillsAreSubmitted
  <2>2. ctx[r] \in Context /\ FillIsSound(ctx[r]) /\ TypeOK
    BY <2>1 DEF IInv, TypeOK, DecidedSoundly
  <2>3. QED BY <2>1, <2>2, BuyWritesCash
<1>2. QED BY <1>1, Inductive, PTL DEF Spec, BuysAreCovered

-----------------------------------------------------------------------------
(* The realized profit explains the cash.                                  *)

(* The sums of ProfitExplainsCash, over functions.                         *)
CostOf == [a \in Assets |-> positions[a].quantity * positions[a].cost]
AtCost == SumFunctionOnSet(CostOf, Assets)
Drift == portfolio.cash + AtCost - StartingCash - portfolio.realized
IsBuy(o) == o.status = "filled" /\ o.ticket.side = "buy"
Buys == {i \in ClientOrderIds : IsBuy(orders[i])}
QuantityOf == [i \in ClientOrderIds |-> orders[i].ticket.quantity]
Bought == SumFunctionOnSet(QuantityOf, Buys)

(* No position is larger than what was ever bought: that bounds the error  *)
(* that the rounding of its average cost adds when more is bought.         *)
ProfitInv ==
    ~raced => /\ 2 * Drift \in -(Cardinality(Buys) * Bought)..(Cardinality(Buys) * Bought)
              /\ \A a \in Assets : positions[a].quantity <= Bought

(* Rounding moves a total by at most half a unit per share.                *)
LEMMA RoundingError ==
    ASSUME NEW n \in Nat, NEW d \in Nat \ {0}
    PROVE  2 * (d * Quantize(n, d) - n) \in -d..d
<1> DEFINE w == n \div d
           m == n % d
<1>1. w \in Nat /\ m \in 0..(d - 1) /\ n = d * w + m
  BY SMT
<1>2. Quantize(n, d) \in {w, w + 1}
  BY DEF Quantize
<1>3. Quantize(n, d) = w => 2 * m <= d
  BY <1>1 DEF Quantize
<1>4. Quantize(n, d) = w + 1 => 2 * m >= d
  BY <1>1 DEF Quantize
<1> HIDE DEF w, m
<1>5. CASE Quantize(n, d) = w
  <2>1. d * w - n = -m
    BY <1>1
  <2>2. QED BY <1>1, <1>3, <1>5, <2>1
<1>6. CASE Quantize(n, d) = w + 1
  <2>1. d * (w + 1) = d * w + d /\ d * w \in Nat
    BY <1>1
  <2>2. d * (w + 1) - n = d - m
    BY <1>1, <2>1
  <2>3. QED BY <1>1, <1>4, <1>6, <2>2
<1>7. QED BY <1>2, <1>5, <1>6

LEMMA CostsAreNat ==
    ASSUME TypeOK
    PROVE  /\ CostOf \in [Assets -> Nat] /\ AtCost \in Nat
<1>1. CostOf \in [Assets -> Nat]
  <2>1. ASSUME NEW a \in Assets PROVE positions[a].quantity * positions[a].cost \in Nat
    <3>1. positions[a].quantity \in Nat /\ positions[a].cost \in Nat
      BY DEF TypeOK, Position
    <3>2. QED BY <3>1
  <2>2. QED BY <2>1 DEF CostOf
<1>2. QED BY <1>1, SumIsNat, RulesAssumption DEF AtCost

LEMMA BuysAreFinite ==
    ASSUME TypeOK
    PROVE  /\ QuantityOf \in [ClientOrderIds -> Nat] /\ Bought \in Nat
           /\ IsFiniteSet(Buys) /\ Cardinality(Buys) \in Nat
<1>1. QuantityOf \in [ClientOrderIds -> Nat]
  BY DEF TypeOK, Order, Ticket, QuantityOf
<1>2. Buys \subseteq ClientOrderIds /\ IsFiniteSet(ClientOrderIds)
  BY SomeAssumption DEF Buys
<1>3. IsFiniteSet(Buys) /\ Cardinality(Buys) \in Nat
  BY <1>2, FS_Subset, FS_CardinalityType
<1>4. QED BY <1>1, <1>2, <1>3, SumIsNat DEF Bought

(* ProfitExplainsCash is about these sums.                                 *)
LEMMA ProfitIsDrift == TypeOK /\ ProfitInv => ProfitExplainsCash
<1> SUFFICES ASSUME TypeOK, ProfitInv PROVE ProfitExplainsCash
  OBVIOUS
<1>1. MapThenSumSet(LAMBDA a : positions[a].quantity * positions[a].cost, Assets) = AtCost
  BY DEF AtCost, CostOf, SumFunctionOnSet, FoldFunctionOnSet, MapThenFoldSet, MapThenSumSet
<1> DEFINE g == [i \in Buys |-> orders[i].ticket.quantity]
<1>2. MapThenSumSet(LAMBDA i : orders[i].ticket.quantity, Buys) = SumFunctionOnSet(g, Buys)
  <2> HIDE DEF Buys
  <2>1. QED
    BY DEF SumFunctionOnSet, FoldFunctionOnSet, MapThenFoldSet, MapThenSumSet
<1>3. SumFunctionOnSet(g, Buys) = Bought
  <2>1. \A i \in Buys : g[i] = QuantityOf[i]
    BY DEF Buys, QuantityOf
  <2> HIDE DEF g
  <2>2. QED BY <2>1, BuysAreFinite, SumSame DEF Bought
<1>4. Buys = {i \in ClientOrderIds : orders[i].status = "filled" /\ orders[i].ticket.side = "buy"}
  BY DEF Buys, IsBuy
<1>5. QED BY <1>1, <1>2, <1>3, <1>4 DEF ProfitInv, Drift, ProfitExplainsCash

(* The sums after a step, in terms of the functions after it.              *)
LEMMA NextSums ==
    /\ AtCost' = SumFunctionOnSet(CostOf', Assets)
    /\ Bought' = SumFunctionOnSet(QuantityOf', Buys')
    /\ Cardinality(Buys)' = Cardinality(Buys')
<1>1. AtCost' = SumFunctionOnSet(CostOf', Assets)
  BY DEF AtCost, SumFunctionOnSet, FoldFunctionOnSet, MapThenFoldSet
<1>2. Bought' = SumFunctionOnSet(QuantityOf', Buys')
  BY DEF Bought, SumFunctionOnSet, FoldFunctionOnSet, MapThenFoldSet
<1>3. Cardinality(Buys)' = Cardinality(Buys')
  BY DEF Cardinality
<1>4. QED BY <1>1, <1>2, <1>3

(* An order that is no buy before and after a step adds nothing.           *)
LEMMA BuysKept ==
    ASSUME TypeOK,
           \A i \in ClientOrderIds : IsBuy(orders'[i]) <=> IsBuy(orders[i]),
           \A i \in ClientOrderIds : IsBuy(orders[i]) => orders'[i] = orders[i]
    PROVE  Buys' = Buys /\ Bought' = Bought /\ Cardinality(Buys)' = Cardinality(Buys)
<1>1. Buys' = {i \in ClientOrderIds : IsBuy(orders'[i])}
  BY DEF Buys, IsBuy
<1>2. Buys' = Buys
  BY <1>1 DEF Buys
<1>3. \A i \in Buys : QuantityOf[i] = QuantityOf'[i]
  BY DEF Buys, QuantityOf
<1>4. PICK f, g, S : f = QuantityOf /\ g = QuantityOf' /\ S = Buys
  OBVIOUS
<1>5. SumFunctionOnSet(f, S) = SumFunctionOnSet(g, S)
  BY <1>3, <1>4, BuysAreFinite, SumSame
<1>6. Bought' = SumFunctionOnSet(g, S) /\ Bought = SumFunctionOnSet(f, S)
  BY <1>2, <1>4, NextSums DEF Bought
<1>7. QED BY <1>2, <1>5, <1>6, NextSums

(* A buy that is filled adds its quantity.                                 *)
LEMMA BuysGrow ==
    ASSUME TypeOK, NEW i \in ClientOrderIds, ~IsBuy(orders[i]),
           NEW row, orders' = [orders EXCEPT ![i] = row], IsBuy(row), row.ticket.quantity \in Nat
    PROVE  /\ Bought' = Bought + row.ticket.quantity
           /\ Cardinality(Buys)' = Cardinality(Buys) + 1
<1>1. orders \in [ClientOrderIds -> Order]
  BY DEF TypeOK
<1>2. Buys' = {j \in ClientOrderIds : IsBuy(orders'[j])}
  BY DEF Buys, IsBuy
<1>3. Buys' = Buys \union {i} /\ i \notin Buys
  BY <1>1, <1>2 DEF Buys
<1>4. PICK f, g, S : f = QuantityOf /\ g = QuantityOf' /\ S = Buys
  OBVIOUS
<1>5. IsFiniteSet(S) /\ i \notin S /\ Cardinality(S) \in Nat /\ \A j \in S : f[j] \in Nat
  BY <1>3, <1>4, BuysAreFinite DEF Buys
<1>6. g[i] = row.ticket.quantity /\ \A j \in S : f[j] = g[j]
  BY <1>1, <1>3, <1>4 DEF QuantityOf, Buys
<1>7. SumFunctionOnSet(g, S \union {i}) = g[i] + SumFunctionOnSet(g, S)
  BY <1>5, <1>6, SumAdd
<1>8. SumFunctionOnSet(f, S) = SumFunctionOnSet(g, S)
  BY <1>5, <1>6, SumSame
<1>9. Bought' = SumFunctionOnSet(g, S \union {i}) /\ Bought = SumFunctionOnSet(f, S)
  BY <1>3, <1>4, NextSums DEF Bought
<1>10. Cardinality(S \union {i}) = Cardinality(S) + 1
  BY <1>5, FS_AddElement
<1>11. Cardinality(Buys)' = Cardinality(S \union {i})
  BY <1>3, <1>4, NextSums
<1>12. Bought' = Bought + row.ticket.quantity
  <2>1. Bought \in Nat
    BY BuysAreFinite
  <2>2. QED BY <1>6, <1>7, <1>8, <1>9, <2>1
<1>13. QED BY <1>4, <1>10, <1>11, <1>12

(* A fill that loaded what is still there changes one position.            *)
LEMMA FilledBooks ==
    ASSUME TypeOK, NEW c \in Context, ~Short(c), FillOrder(c), c.status = "filled", ~raced'
    PROVE  LET t == c.ticket
               position == positions[t.asset]
               filled == FilledPosition(t, c.price, position)
           IN  /\ ~raced /\ c.position = position
               /\ portfolio'.cash = portfolio.cash + CashFlow(t, c.price)
               /\ portfolio'.realized = portfolio.realized + Gain(t, c.price, position)
               /\ positions'[t.asset].quantity = filled.quantity
               /\ filled.quantity >= 0
               /\ \A a \in Assets \ {t.asset} : positions'[a] = positions[a]
               /\ AtCost' = AtCost - position.quantity * position.cost
                                   + filled.quantity * filled.cost
<1> DEFINE t == c.ticket
           a == t.asset
           loaded == c.portfolio
           position == positions[a]
           flow == CashFlow(t, c.price)
           gain == Gain(t, c.price, position)
           filled == FilledPosition(t, c.price, position)
<1>1. /\ t \in Ticket /\ a \in Assets /\ c.price \in Nat /\ position \in Position
      /\ positions \in [Assets -> Position]
  BY DEF Context, Ticket, TypeOK
<1>2. /\ ~raced /\ loaded.cash = portfolio.cash /\ loaded.realized = portfolio.realized
      /\ c.position = position
  BY DEF FillOrder
<1>3. /\ filled.quantity \in Int /\ filled.cost \in Nat
  BY <1>1, FilledPositionType
<1>4. filled.quantity >= 0
  BY <1>2, <1>3 DEF Short
<1>5. /\ portfolio'.cash = Written(portfolio.cash, loaded.cash, loaded.cash + flow)
      /\ portfolio'.realized
           = Written(portfolio.realized, loaded.realized, loaded.realized + gain)
  BY <1>2 DEF FillOrder
<1> DEFINE row == [exists   |-> TRUE,
              quantity |-> Written(position.quantity, position.quantity, filled.quantity),
              cost     |-> Written(position.cost, position.cost, filled.cost),
              realized |-> Written(position.realized, position.realized, filled.realized)]
<1>6. positions' = [positions EXCEPT ![a] = row]
  BY <1>2 DEF FillOrder
<1>7. row.quantity = filled.quantity /\ row.cost = filled.cost
  BY DEF Written
<1> HIDE DEF row, filled, flow, gain
<1>8. portfolio'.cash = portfolio.cash + flow /\ portfolio'.realized = portfolio.realized + gain
  BY <1>2, <1>5 DEF Written
<1>9. positions'[a] = row /\ \A b \in Assets \ {a} : positions'[b] = positions[b]
  BY <1>1, <1>6
<1>10. PICK f, g : f = CostOf /\ g = CostOf'
  OBVIOUS
<1>11. f \in [Assets -> Nat]
  BY <1>10, CostsAreNat
<1>12. g[a] = filled.quantity * filled.cost /\ \A b \in Assets \ {a} : f[b] = g[b]
  BY <1>1, <1>7, <1>9, <1>10 DEF CostOf
<1>13. \A b \in Assets : f[b] \in Int /\ g[b] \in Int
  <2>1. filled.quantity * filled.cost \in Int
    BY <1>3
  <2>2. QED BY <1>11, <1>12, <2>1
<1>14. SumFunctionOnSet(g, Assets) = SumFunctionOnSet(f, Assets) - f[a] + g[a]
  BY <1>1, <1>12, <1>13, SumChange, RulesAssumption
<1>15. f[a] = position.quantity * position.cost
  BY <1>1, <1>10 DEF CostOf
<1>16. AtCost = SumFunctionOnSet(f, Assets) /\ AtCost' = SumFunctionOnSet(g, Assets)
  BY <1>10, NextSums DEF AtCost
<1>17. AtCost' = AtCost - position.quantity * position.cost + filled.quantity * filled.cost
  BY <1>12, <1>14, <1>15, <1>16
<1>18. positions'[a].quantity = filled.quantity
  BY <1>7, <1>9
<1>19. QED BY <1>2, <1>4, <1>8, <1>9, <1>17, <1>18 DEF filled, flow, gain

(* A buy adds the rounding error of one average cost, which the larger sum *)
(* of quantities allows for.                                               *)
LEMMA BuyDrift ==
    ASSUME NEW drift \in Int, NEW Q \in Nat, NEW C \in Nat, NEW q \in Nat \ {0}, NEW p \in Nat,
           NEW k \in Nat, NEW B \in Nat, Q <= B, 2 * drift \in -(k * B)..(k * B)
    PROVE  LET n == Q * C + q * p + Commission IN
           2 * (drift + (Q + q) * Quantize(n, Q + q) - n) \in -((k + 1) * (B + q))..((k + 1) * (B + q))
<1> DEFINE n == Q * C + q * p + Commission
           error == (Q + q) * Quantize(n, Q + q) - n
           new == (k + 1) * (B + q)
<1>1. n \in Nat
  <2>1. Q * C \in Nat /\ q * p \in Nat
    OBVIOUS
  <2>2. QED BY <2>1, MoneyAssumption
<1>2. Q + q \in Nat \ {0}
  OBVIOUS
<1> HIDE DEF n
<1>3. error \in Int /\ 2 * error \in -(Q + q)..(Q + q)
  <2>1. Quantize(n, Q + q) \in Nat
    BY <1>1, <1>2, QuantizeType
  <2>2. (Q + q) * Quantize(n, Q + q) \in Int
    BY <1>2, <2>1
  <2>3. QED BY <1>1, <1>2, <2>2, RoundingError
<1>4. new \in Nat /\ new >= k * B + Q + q
  <2>1. k * B \in Nat /\ k * q \in Nat
    OBVIOUS
  <2>2. new = k * B + k * q + B + q
    OBVIOUS
  <2> HIDE DEF new
  <2>3. QED BY <2>1, <2>2
<1>5. k * B \in Nat /\ (Q + q) * Quantize(n, Q + q) = error + n
  <2>1. (Q + q) * Quantize(n, Q + q) \in Int
    BY <1>1, <1>2, QuantizeType
  <2>2. QED BY <1>1, <2>1
<1>6. drift + (Q + q) * Quantize(n, Q + q) - n = drift + error
  <2>1. (Q + q) * Quantize(n, Q + q) \in Int
    BY <1>1, <1>2, QuantizeType
  <2>2. QED BY <1>1, <2>1
<1> HIDE DEF error, new
<1>7. 2 * (drift + error) \in -new..new
  BY <1>3, <1>4, <1>5
<1>8. QED BY <1>6, <1>7 DEF n, new

LEMMA FillKeepsProfit ==
    ASSUME IInv, ProfitInv, NEW r \in Requests, Submit(r), ctx[r].status = "filled"
    PROVE  ProfitInv'
<1> DEFINE c == ctx[r]
           t == c.ticket
           a == t.asset
           position == positions[a]
           Q == position.quantity
           C == position.cost
           q == t.quantity
           p == c.price
           k == Cardinality(Buys)
           B == Bought
           row == [status |-> c.status, triggered |-> c.triggered, ticket |-> t, price |-> p]
           filled == FilledPosition(t, p, position)
           drift == Drift
<1> SUFFICES ASSUME ~raced'
             PROVE  /\ 2 * Drift' \in -(Cardinality(Buys)' * Bought')..(Cardinality(Buys)' * Bought')
                    /\ \A b \in Assets : positions'[b].quantity <= Bought'
  BY DEF ProfitInv
<1>1. TypeOK /\ c \in Context /\ c.id \in ClientOrderIds
  BY DEF IInv, TypeOK, Context
<1>2. FillOrder(c) /\ ~Short(c) /\ orders[c.id].status = "absent"
  BY DEF Submit, InsertOrder, Refused, Duplicate
<1>3. orders' = [orders EXCEPT ![c.id] = row]
  BY DEF Submit, InsertOrder
<1>4. /\ ~raced
      /\ portfolio'.cash = portfolio.cash + CashFlow(t, p)
      /\ portfolio'.realized = portfolio.realized + Gain(t, p, position)
      /\ positions'[a].quantity = filled.quantity /\ filled.quantity >= 0
      /\ \A b \in Assets \ {a} : positions'[b] = positions[b]
      /\ AtCost' = AtCost - Q * C + filled.quantity * filled.cost
  BY <1>1, <1>2, FilledBooks
<1>5. /\ t \in Ticket /\ a \in Assets /\ p \in Nat /\ position \in Position
      /\ positions \in [Assets -> Position] /\ orders \in [ClientOrderIds -> Order]
      /\ Q \in Nat /\ C \in Nat /\ q \in Nat \ {0} /\ t.side \in {"buy", "sell"}
  BY <1>1 DEF Context, Ticket, TypeOK, Position
<1>6. /\ portfolio.cash \in Int /\ portfolio.realized \in Int /\ AtCost \in Nat
      /\ StartingCash \in Nat /\ Commission \in Nat
  BY <1>1, CostsAreNat, MoneyAssumption DEF TypeOK, Portfolio
<1>7. k \in Nat /\ B \in Nat /\ drift \in Int
  BY <1>1, <1>6, BuysAreFinite DEF Drift
<1>8. 2 * drift \in -(k * B)..(k * B) /\ \A b \in Assets : positions[b].quantity <= B
  BY <1>4 DEF ProfitInv
<1>9. drift = portfolio.cash + AtCost - StartingCash - portfolio.realized
  BY DEF Drift
<1>10. Drift' = portfolio'.cash + AtCost' - StartingCash - portfolio'.realized
  BY DEF Drift
<1>11. row.status = "filled" /\ row.ticket = t
  OBVIOUS
<1>12. \A b \in Assets : positions[b].quantity \in Nat
  BY <1>5 DEF Position
<1>13. ~IsBuy(orders[c.id])
  BY <1>2 DEF IsBuy
<1>bounded. Q <= B /\ positions[a].quantity = Q
  BY <1>5, <1>8
<1> HIDE DEF row, drift, k, B, Q, C, q, p
<1>14. CASE t.side = "buy"
  <2> DEFINE n == Q * C + q * p + Commission
  <2>1. B' = B + q /\ k' = k + 1
    BY <1>1, <1>3, <1>5, <1>11, <1>13, <1>14, BuysGrow DEF IsBuy, B, k, q
  <2>2. CashFlow(t, p) = -(q * p + Commission) /\ Gain(t, p, position) = 0
    BY <1>14 DEF CashFlow, Gain, q, p
  <2>3. filled.quantity = Q + q /\ filled.cost = Quantize(n, Q + q)
    BY <1>14 DEF FilledPosition, AverageCost, Q, C, q, p
  <2>4. Drift' = drift + (Q + q) * Quantize(n, Q + q) - n
    <3>1. n \in Nat /\ Q * C \in Nat /\ q * p \in Nat
      <4>1. Q * C \in Nat /\ q * p \in Nat
        BY <1>5
      <4>2. QED BY <1>6, <4>1
    <3>2. (Q + q) * Quantize(n, Q + q) \in Nat
      <4>1. Q + q \in Nat \ {0}
        BY <1>5
      <4>2. Quantize(n, Q + q) \in Nat
        BY <3>1, <4>1, QuantizeType
      <4> HIDE DEF n
      <4>3. QED BY <4>1, <4>2
    <3> DEFINE cost == (Q + q) * Quantize(n, Q + q)
               worth == Q * C
               spent == q * p
    <3>3. AtCost' = AtCost - worth + cost
      BY <1>4, <2>3
    <3>4. /\ portfolio'.cash = portfolio.cash + (-(spent + Commission))
          /\ portfolio'.realized = portfolio.realized + 0
      BY <1>4, <2>2
    <3>5. cost \in Nat /\ worth \in Nat /\ spent \in Nat /\ n = worth + spent + Commission
      BY <3>1, <3>2
    <3> HIDE DEF cost, worth, spent, n
    <3>6. Drift' = drift + cost - n
      BY <1>6, <1>9, <1>10, <3>3, <3>4, <3>5
    <3>7. QED BY <3>6 DEF cost
  <2>5. 2 * Drift' \in -((k + 1) * (B + q))..((k + 1) * (B + q))
    <3>1. 2 * (drift + (Q + q) * Quantize(n, Q + q) - n)
            \in -((k + 1) * (B + q))..((k + 1) * (B + q))
      BY <1>5, <1>7, <1>8, <1>bounded, BuyDrift
    <3>2. QED BY <2>4, <3>1
  <2>6. ASSUME NEW b \in Assets PROVE positions'[b].quantity <= B + q
    <3>1. CASE b = a
      BY <1>4, <1>5, <1>7, <1>bounded, <2>3, <3>1
    <3>2. CASE b # a
      BY <1>4, <1>5, <1>7, <1>8, <1>12, <3>2
    <3>3. QED BY <3>1, <3>2
  <2>7. QED BY <2>1, <2>5, <2>6 DEF B, k
<1>15. CASE t.side = "sell"
  <2>1. Bought' = B /\ Cardinality(Buys)' = k
    <3>1. \A i \in ClientOrderIds : IsBuy(orders'[i]) <=> IsBuy(orders[i])
      BY <1>3, <1>5, <1>1, <1>11, <1>13, <1>15 DEF IsBuy
    <3>2. \A i \in ClientOrderIds : IsBuy(orders[i]) => orders'[i] = orders[i]
      BY <1>3, <1>5, <1>1, <1>13
    <3>3. QED BY <1>1, <3>1, <3>2, BuysKept DEF B, k
  <2>2. CashFlow(t, p) = q * p - Commission /\ Gain(t, p, position) = (p - C) * q - Commission
    BY <1>15 DEF CashFlow, Gain, C, q, p
  <2>3. /\ filled.quantity = Q - q
        /\ filled.quantity * filled.cost = (Q - q) * C
    <3>1. filled.quantity = Q - q /\ filled.cost = IF Q - q = 0 THEN 0 ELSE C
      BY <1>5, <1>15 DEF FilledPosition, Q, C, q
    <3> HIDE DEF filled
    <3>2. CASE Q - q = 0
      <4>1. filled.quantity = 0 /\ filled.cost = 0
        BY <3>1, <3>2
      <4>2. filled.quantity * filled.cost = 0
        BY <4>1
      <4>3. (Q - q) * C = 0
        <5>1. \A x \in Nat : 0 * x = 0
          OBVIOUS
        <5>2. QED BY <1>5, <3>2, <5>1
      <4>4. QED BY <3>1, <4>2, <4>3
    <3>3. CASE Q - q # 0
      BY <1>5, <3>1, <3>3
    <3>4. QED BY <3>1, <3>2, <3>3
  <2>4. Drift' = drift
    <3>1. (Q - q) * C = Q * C - q * C /\ (p - C) * q = q * p - q * C
      BY <1>5
    <3>2. Q * C \in Int /\ q * p \in Int /\ q * C \in Int
      BY <1>5
    <3> DEFINE worth == Q * C
               paid == q * p
               sold == q * C
    <3>3. AtCost' = AtCost - worth + (worth - sold)
      BY <1>4, <2>3, <3>1
    <3>4. /\ portfolio'.cash = portfolio.cash + (paid - Commission)
          /\ portfolio'.realized = portfolio.realized + (paid - sold - Commission)
      BY <1>4, <2>2, <3>1
    <3>5. worth \in Int /\ paid \in Int /\ sold \in Int
      BY <3>2
    <3> HIDE DEF worth, paid, sold
    <3>6. QED BY <1>6, <1>9, <1>10, <3>3, <3>4, <3>5
  <2>5. ASSUME NEW b \in Assets PROVE positions'[b].quantity <= B
    <3>1. CASE b = a
      BY <1>4, <1>5, <1>7, <1>bounded, <2>3, <3>1
    <3>2. CASE b # a
      BY <1>4, <1>8, <3>2
    <3>3. QED BY <3>1, <3>2
  <2>6. QED BY <1>8, <2>1, <2>4, <2>5
<1>16. QED BY <1>5, <1>14, <1>15

(* Steps that leave the balances and the filled buys alone.                *)
LEMMA ProfitUntouched ==
    ASSUME TypeOK, ProfitInv,
           portfolio'.cash = portfolio.cash, portfolio'.realized = portfolio.realized,
           positions' = positions, raced' = raced,
           \A i \in ClientOrderIds : IsBuy(orders'[i]) <=> IsBuy(orders[i]),
           \A i \in ClientOrderIds : IsBuy(orders[i]) => orders'[i] = orders[i]
    PROVE  ProfitInv'
<1>1. Bought' = Bought /\ Cardinality(Buys)' = Cardinality(Buys)
  BY BuysKept
<1>2. AtCost' = AtCost
  <2>1. CostOf' = CostOf
    BY DEF CostOf
  <2>2. QED BY <2>1, NextSums DEF AtCost
<1>3. Drift' = portfolio'.cash + AtCost' - StartingCash - portfolio'.realized
  BY DEF Drift
<1>4. Drift' = Drift
  BY <1>2, <1>3 DEF Drift
<1>5. QED BY <1>1, <1>4 DEF ProfitInv

LEMMA ProfitInductive == IInv /\ ProfitInv /\ [Next]_vars => ProfitInv'
<1> SUFFICES ASSUME IInv, ProfitInv, [Next]_vars PROVE ProfitInv'
  OBVIOUS
<1>1. TypeOK
  BY DEF IInv
<1>2. CASE \E r \in Requests : Submit(r)
  <2>1. PICK r \in Requests : Submit(r)
    BY <1>2
  <2>2. CASE ctx[r].status = "filled"
    BY <2>1, <2>2, FillKeepsProfit
  <2>3. CASE ctx[r].status # "filled"
    <3> DEFINE i == ctx[r].id
               row == [status |-> ctx[r].status, triggered |-> ctx[r].triggered,
                       ticket |-> ctx[r].ticket, price |-> NoPrice]
    <3>1. orders' = [orders EXCEPT ![i] = row] /\ UNCHANGED books
      BY <2>1, <2>3 DEF Submit, InsertOrder
    <3>2. i \in ClientOrderIds /\ orders \in [ClientOrderIds -> Order]
      BY <1>1 DEF TypeOK, Context
    <3>3. ~IsBuy(orders[i]) /\ ~IsBuy(row)
      BY <2>1, <2>3 DEF IsBuy, Submit, Refused, Duplicate
    <3>4. \A j \in ClientOrderIds : j = i => orders'[j] = row
      BY <3>1, <3>2
    <3>5. \A j \in ClientOrderIds : j # i => orders'[j] = orders[j]
      BY <3>1, <3>2
    <3>6. portfolio' = portfolio /\ positions' = positions /\ raced' = raced
      BY <3>1 DEF books
    <3> HIDE DEF row, i
    <3>7. QED BY <1>1, <3>3, <3>4, <3>5, <3>6, ProfitUntouched
  <2>4. QED BY <2>2, <2>3
<1>3. CASE \E i \in ClientOrderIds : CancelOrder(i)
  <2>1. PICK i \in ClientOrderIds : CancelOrder(i)
    BY <1>3
  <2>2. orders \in [ClientOrderIds -> Order]
    BY <1>1 DEF TypeOK
  <2>3. orders'[i].status = "cancelled" /\ orders[i].status \in {"pending", "triggered"}
    BY <2>1, <2>2 DEF CancelOrder, Order
  <2>4. \A j \in ClientOrderIds : j # i => orders'[j] = orders[j]
    BY <2>1, <2>2 DEF CancelOrder
  <2>5. ~IsBuy(orders[i]) /\ ~IsBuy(orders'[i])
    BY <2>3 DEF IsBuy
  <2>6. portfolio' = portfolio /\ positions' = positions /\ raced' = raced
    BY <2>1 DEF CancelOrder, books
  <2>7. QED BY <1>1, <2>4, <2>5, <2>6, ProfitUntouched
<1>4. CASE \E status \in {"active", "paused"} : PauseOrResume(status)
  <2>1. positions' = positions /\ raced' = raced /\ orders' = orders
    BY <1>4 DEF PauseOrResume
  <2>2. portfolio'.cash = portfolio.cash /\ portfolio'.realized = portfolio.realized
    BY <1>1, <1>4 DEF PauseOrResume, TypeOK, Portfolio
  <2>3. QED BY <1>1, <2>1, <2>2, ProfitUntouched
<1>5. CASE UNCHANGED <<books, orders>>
  BY <1>1, <1>5, ProfitUntouched DEF books
<1>6. CASE UNCHANGED vars
  BY <1>1, <1>6, ProfitUntouched DEF vars
<1>7. QED
  BY <1>2, <1>3, <1>4, <1>5, <1>6
  DEF Next, LoadPortfolio, Replay, Preview, SelectPosition, Rollback, UpdateRiskRules, StoreBar

LEMMA ProfitInitially == Init => ProfitInv
<1> SUFFICES ASSUME Init PROVE ProfitInv
  OBVIOUS
<1>1. TypeOK
  BY InitInductive DEF IInv
<1>2. Buys = {}
  BY DEF Init, Buys, IsBuy, NoOrder
<1>3. Bought = 0 /\ Cardinality(Buys) = 0
  BY <1>2, SumEmpty, FS_EmptySet DEF Bought
<1>4. \A a \in Assets : positions[a].quantity = 0 /\ positions[a].cost = 0
  BY DEF Init, NoPosition
<1>5. AtCost = 0
  <2> DEFINE none == [a \in Assets |-> 0]
  <2>1. CostOf = none
    BY <1>4 DEF CostOf
  <2>2. SumFunctionOnSet(none, Assets) = 0
    <3>1. QED BY SumIsZero, RulesAssumption
  <2>3. QED BY <2>1, <2>2 DEF AtCost
<1>6. Drift = 0
  BY <1>5, MoneyAssumption DEF Init, Drift
<1>7. QED BY <1>3, <1>4, <1>6 DEF ProfitInv

(* The realized profit explains the cash: cash plus positions at cost is   *)
(* the starting cash plus the profit, up to half a unit for every share    *)
(* bought, once for each buy, unless a fill replaced a balance that had    *)
(* changed since it was read (_fill, quantize).                            *)
THEOREM ProfitIsExplained == Spec => []ProfitExplainsCash
<1>1. Init => IInv /\ ProfitInv
  BY InitInductive, ProfitInitially
<1>2. IInv /\ ProfitInv /\ [Next]_vars => (IInv /\ ProfitInv)'
  BY NextInductive, ProfitInductive
<1>3. IInv /\ ProfitInv => ProfitExplainsCash
  BY ProfitIsDrift DEF IInv
<1>4. QED BY <1>1, <1>2, <1>3, PTL DEF Spec
=============================================================================

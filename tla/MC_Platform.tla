----------------------------- MODULE MC_Platform -----------------------------
(***************************************************************************)
(* Small instances of the components of Platform: the constants of each    *)
(* that are not plain sets of model values.                                *)
(***************************************************************************)
EXTENDS Platform, TLC

CONSTANTS f1, j1, j2, s1, s2, c1, o1, o2

(* ForecastLedger: windows in order and out of it, and equal and different *)
(* eligibilities.                                                          *)
Span(asOf, start, end, eligible) ==
    [as_of |-> asOf, start |-> start, end |-> end, eligible |-> eligible]
SomeWindows == {Span(0, 0, 1, 1), Span(0, 1, 2, 2), Span(1, 0, 2, 2), Span(0, 1, 2, 1)}

(* FeatureStore: constituents that leave and that become known late, and a *)
(* second version of the universe; there is room for the best of two.      *)
Constituent(from, to, eligible) == [from |-> from, to |-> to, eligible |-> eligible]
TwoVersions ==
    <<[eligible |-> 0, from |-> 0, to |-> 3,
       members |-> <<Constituent(0, 2, 0), Constituent(1, 3, 1)>>],
      [eligible |-> 2, from |-> 1, to |-> 3,
       members |-> <<Constituent(0, 3, 0), Constituent(0, 3, 1)>>]>>
OneLevel == <<1>>

(* ImportRun: a full import of two symbols and an incremental one,         *)
(* adjusted, of the first; answers with new, restated, unadjusted, wrong   *)
(* and doubled days.                                                       *)
Record(day, checksum, ok, adjusted) ==
    [day |-> day, checksum |-> checksum, ok |-> ok, adjusted |-> adjusted]
Bars(records) == [kind |-> "bars", records |-> records]
ImportJobConfig(symbols, mode, adjusted) ==
    [symbols |-> symbols, mode |-> mode, adjusted |-> adjusted, dry_run |-> FALSE,
     max_attempts |-> 2]
FullAndIncremental ==
    j1 :> ImportJobConfig(<<s1, s2>>, "full", FALSE)
    @@ j2 :> ImportJobConfig(<<s1>>, "incremental", TRUE)
HardAnswers ==
    s1 :> {Bars({Record(1, "a", TRUE, TRUE)}),
           Bars({Record(1, "b", TRUE, TRUE), Record(2, "a", TRUE, TRUE)}),
           Bars({Record(1, "a", TRUE, FALSE)}), Bars({Record(2, "a", FALSE, TRUE)}),
           [kind |-> "temporary"], [kind |-> "unreachable"]}
    @@ s2 :> {Bars({Record(1, "a", TRUE, TRUE)}), Bars({}),
              Bars({Record(2, "a", TRUE, TRUE), Record(2, "b", TRUE, TRUE)}),
              [kind |-> "permanent"]}

(* Backtest: six days of two stocks, the first with many sequences of      *)
(* three prices: published daily, in batches, and the first stock later    *)
(* than the second, so that an order is held back past a newer one.        *)
Closing(close, published) == [open |-> 10, close |-> close, published |-> published]
SecondStock(d, published) ==
    [open |-> 5 + (d % 2), close |-> <<7, 6, 5, 9, 6, 8>>[d], published |-> published]
Daily == <<1, 2, 3, 4, 5, 6>>
InBatches == <<3, 3, 4, 5, 5, 6>>
HeldBack == <<1, 2, 5, 5, 5, 6>>
SixDays ==
    {<<[d \in 1..6 |-> Closing(c[d], p[1][d])], [d \in 1..6 |-> SecondStock(d, p[2][d])]>> :
        c \in {c \in [1..6 -> {8, 10, 14}] : c[1] = 10},
        p \in {<<Daily, Daily>>, <<InBatches, InBatches>>, <<HeldBack, Daily>>}}
EveryStrategy ==
    {[key |-> "buy_and_hold"],
     [key |-> "equal_weight_rebalance", rebalance_days |-> 2],
     [key |-> "moving_average_crossover", short_window |-> 2, long_window |-> 3],
     [key |-> "momentum", lookback |-> 2, minimum_return |-> 0],
     [key |-> "volatility_breakout", lookback |-> 2, breakout_buffer |-> 10],
     [key |-> "mean_reversion", lookback |-> 3, entry_z_score |-> 1, exit_z_score |-> 0],
     [key |-> "rsi_threshold", period |-> 2, oversold |-> 30, overbought |-> 70]}

(* EconomicGraph: entities at once, late, for a while and never visible;   *)
(* relationships with the same variety, one of them without the support it *)
(* needs, and one whose support is younger than it.                        *)
Entity(from, to, eligible, status) ==
    [valid_from |-> from, valid_to |-> to, eligible |-> eligible, status |-> status]
Never == Now + 1
SomeEntities ==
    {Entity(0, Never, 0, "verified"), Entity(0, Never, 1, "disputed"),
     Entity(0, 1, 0, "verified"), Entity(0, Never, 0, "candidate")}
Joining(subject, object, from, to, eligible, status, evidence) ==
    [subject |-> subject, object |-> object, valid_from |-> from, valid_to |-> to,
     eligible |-> eligible, status |-> status, evidence |-> evidence]
SomeRelationships ==
    {Joining(c1, o1, 0, Never, 0, "verified", {0}), Joining(c1, o1, 0, Never, 0, "verified", {}),
     Joining(c1, o1, 0, Never, 1, "verified", {0, 1}),
     Joining(o1, c1, 0, Never, 0, "verified", {1}), Joining(o1, c1, 0, 1, 0, "disputed", {}),
     Joining(o1, o2, 0, Never, 0, "disputed", {0}), Joining(o1, o2, 0, Never, 0, "candidate", {})}

(* AuthAdmission: three sign-ins of two processes, two of them to the same *)
(* account.                                                                *)
TwoToOneAccount ==
    [a |-> {"global", "account"}, b |-> {"global", "account"}, c |-> {"global", "other"}]
TwoProcesses == [a |-> "p", b |-> "q", c |-> "p"]
SmallLimits == [global |-> 2, account |-> 1, other |-> 2]

(* HypothesisLifecycle.                                                    *)
ThreeArchetypes == <<"semiconductor", "airline", "agriculture">>
=============================================================================

----------------------------- MODULE Strategies -----------------------------
(***************************************************************************)
(* The built-in strategies (packages/strategies/builtins) and the          *)
(* indicators they use: what each decides for one stock after a close,     *)
(* given all closes so far.  Prices are integers and thresholds are        *)
(* compared without dividing.                                              *)
(***************************************************************************)
EXTENDS Integers, Sequences, FiniteSetsExt

Hold == -1                          \* target_weight None
Long == 100
Flat == 0

Total(c, from, to) == MapThenSumSet(LAMBDA i : c[i], from..to)
LongIf(condition) == IF condition THEN Long ELSE Flat

buy_and_hold(c, p) == IF Len(c) = 1 THEN Long ELSE Hold

equal_weight_rebalance(c, p) == IF (Len(c) - 1) % p.rebalance_days = 0 THEN Long ELSE Hold

(* The last value of simple_moving_average, times its period.              *)
simple_moving_sum(c, period) == Total(c, Len(c) - period + 1, Len(c))

moving_average_crossover(c, p) ==
    IF Len(c) < p.long_window THEN Hold
    ELSE LongIf(simple_moving_sum(c, p.short_window) * p.long_window
                  > simple_moving_sum(c, p.long_window) * p.short_window)

momentum(c, p) ==
    IF Len(c) <= p.lookback THEN Hold
    ELSE LongIf(100 * c[Len(c)] > (100 + p.minimum_return) * c[Len(c) - p.lookback])

volatility_breakout(c, p) ==
    IF Len(c) <= p.lookback THEN Hold
    ELSE LET prior_high == Max({c[i] : i \in (Len(c) - p.lookback)..(Len(c) - 1)})
         IN  LongIf(100 * c[Len(c)] > (100 + p.breakout_buffer) * prior_high)

(* The z-score of the last close against the sample deviation of the       *)
(* window: its square is distance / spread, its sign that of below.        *)
mean_reversion(c, p) ==
    LET n == p.lookback
        from == Len(c) - n + 1
        sum == Total(c, from, Len(c))
        squares == MapThenSumSet(LAMBDA i : c[i] * c[i], from..Len(c))
        below == sum - n * c[Len(c)]
        distance == below * below * (n - 1)
        spread == n * (n * squares - sum * sum)
    IN  IF Len(c) < n THEN Hold
        ELSE IF spread # 0 /\ below > 0 /\ distance >= p.entry_z_score * p.entry_z_score * spread
        THEN Long
        ELSE IF spread = 0 \/ below <= 0 \/ distance <= p.exit_z_score * p.exit_z_score * spread
        THEN Flat
        ELSE Hold

(* Wilder's averages of the gains or losses, both times the same factor.   *)
wilder_average(changes, period) ==
    LET average[i \in period..Len(changes)] ==
            IF i = period THEN Total(changes, 1, period)
            ELSE average[i - 1] * (period - 1) + changes[i] * period^(i - period)
    IN  average[Len(changes)]

rsi_threshold(c, p) ==
    LET n == Len(c) - 1
        gain == wilder_average([i \in 1..n |-> Max({c[i + 1] - c[i], 0})], p.period)
        loss == wilder_average([i \in 1..n |-> Max({c[i] - c[i + 1], 0})], p.period)
        AtMost(level) == 100 * gain <= level * (gain + loss)
        AtLeast(level) == 100 * gain >= level * (gain + loss)
    IN  IF n < p.period THEN Hold
        ELSE IF gain = 0 /\ loss = 0 THEN Hold                 \* an RSI of 50
        ELSE IF AtMost(p.oversold) THEN Long
        ELSE IF AtLeast(p.overbought) THEN Flat
        ELSE Hold

(* The registry: a strategy is its key and its parameters.                 *)
generate(strategy, c) ==
    CASE strategy.key = "buy_and_hold" -> buy_and_hold(c, strategy)
      [] strategy.key = "moving_average_crossover" -> moving_average_crossover(c, strategy)
      [] strategy.key = "momentum" -> momentum(c, strategy)
      [] strategy.key = "mean_reversion" -> mean_reversion(c, strategy)
      [] strategy.key = "rsi_threshold" -> rsi_threshold(c, strategy)
      [] strategy.key = "volatility_breakout" -> volatility_breakout(c, strategy)
      [] strategy.key = "equal_weight_rebalance" -> equal_weight_rebalance(c, strategy)
=============================================================================

----------------------------- MODULE Parameters -----------------------------
(***************************************************************************)
(* What may be configured: the defaults and ranges (config/defaults), the  *)
(* validators of the configuration models, the hand-written catalogue that *)
(* documents them, and the parameter space a grid search may sweep on top  *)
(* of a configuration.  A step constructs a configuration with one more    *)
(* argument away from its default, or adds one axis to the space.  The     *)
(* windows of a market calendar are configured here as well.               *)
(*                                                                         *)
(* Floats are in hundredths, times of day in minutes.                      *)
(***************************************************************************)
EXTENDS WalkForward

CONSTANTS
  Probes,        \* parameter |-> the values tried for it
  Offered,       \* the parameters a space may be asked to sweep
  MaxChanges,    \* bound: arguments given explicitly
  MaxAxes,       \* bound: parameters swept together
  WindowsTried   \* the SessionWindows tried, unset times as NoValue

VARIABLES
  configured,    \* the arguments of the models
  accepted,      \* whether their validators let them pass
  space,         \* the parameter space
  refused,       \* whether the last parameter offered to it was refused
  calendar       \* the SessionWindows of a ConfigurableCalendar, NoValue before

parametersVars == <<configured, accepted, space, refused, calendar>>

-----------------------------------------------------------------------------
(* Defaults and ranges *)

StrategyDefaults ==
  [rsi_bullish_threshold |-> 5500, rsi_bearish_threshold |-> 4500, vwap_enabled |-> TRUE,
   supertrend_enabled |-> TRUE, min_agreeing_checks |-> 4]

RiskDefaults ==
  [risk_per_trade_percent |-> 100, stop_loss_atr_multiplier |-> 150,
   target_atr_multiplier |-> 300, max_daily_loss |-> 500000, max_trades_per_day |-> 5,
   max_concurrent_positions |-> 1, max_capital_exposure_percent |-> 5000]

SessionDefaults ==
  [opening_range_minutes |-> 15, no_trade_zone_minutes |-> 15, trading_start_time |-> 555,
   trading_end_time |-> 930, allow_expiry_day_trading |-> TRUE, lunch_filter_enabled |-> FALSE]

IndicatorDefaults ==
  [ema_period |-> 20, rsi_period |-> 14, supertrend_period |-> 10,
   supertrend_multiplier |-> 300, atr_period |-> 14]

\* Two records with no name in common as one.
With(a, b) == [name \in DOMAIN a \cup DOMAIN b |-> IF name \in DOMAIN a THEN a[name] ELSE b[name]]

BacktestDefaults == With(With(StrategyDefaults, RiskDefaults), [ema_period |-> 20])

Defaults == With(With(StrategyDefaults, RiskDefaults), With(SessionDefaults, IndicatorDefaults))

Toggles ==
  {"vwap_enabled", "supertrend_enabled", "allow_expiry_day_trading", "lunch_filter_enabled"}

Between(value, range) == range[1] <= value /\ value <= range[2]

RiskRanges ==
  [risk_per_trade_percent |-> <<10, 500>>, stop_loss_atr_multiplier |-> <<50, 500>>,
   target_atr_multiplier |-> <<50, 1000>>, max_daily_loss |-> <<0, 100000000>>,
   max_trades_per_day |-> <<1, 50>>, max_concurrent_positions |-> <<1, 20>>,
   max_capital_exposure_percent |-> <<100, 10000>>]

-----------------------------------------------------------------------------
(* The validators *)

\* Mutant: a vote nobody can win is let through.
AcceptedWithoutVoters(c) ==
  /\ Between(c.rsi_bullish_threshold, <<0, 10000>>)
  /\ Between(c.rsi_bearish_threshold, <<0, 10000>>)
  /\ c.rsi_bearish_threshold < c.rsi_bullish_threshold
  /\ Between(c.min_agreeing_checks, <<1, 5>>)

StrategyAccepted(c) ==
  /\ Between(c.rsi_bullish_threshold, <<0, 10000>>)
  /\ Between(c.rsi_bearish_threshold, <<0, 10000>>)
  /\ c.rsi_bearish_threshold < c.rsi_bullish_threshold
  /\ Between(c.min_agreeing_checks, <<1, 5>>)
  /\ c.min_agreeing_checks <=
       3 + Cardinality({toggle \in {"vwap_enabled", "supertrend_enabled"} : c[toggle]})

RiskAccepted(c) == \A name \in DOMAIN RiskRanges : Between(c[name], RiskRanges[name])

\* A time that does not parse, or has no such hour or minute, is outside the day.
SessionAccepted(c) ==
  /\ Between(c.opening_range_minutes, <<0, 120>>)
  /\ Between(c.no_trade_zone_minutes, <<0, 120>>)
  /\ Between(c.trading_start_time, <<0, 1439>>) /\ Between(c.trading_end_time, <<0, 1439>>)
  /\ c.trading_start_time < c.trading_end_time

Accepted(c) == StrategyAccepted(c) /\ RiskAccepted(c) /\ SessionAccepted(c)

-----------------------------------------------------------------------------
(* The catalogue, written by hand beside them *)

Entry(default, allowed, safe) == [default |-> default, allowed |-> allowed, safe |-> safe]

Number(default, least, most, safe) == Entry(default, least .. most, safe)

Toggle(default, safe) == Entry(default, BOOLEAN, safe)

StrategyCatalogue ==
  [rsi_bullish_threshold |-> Number(5500, 0, 10000, "Yes"),
   rsi_bearish_threshold |-> Number(4500, 0, 10000, "Yes"),
   vwap_enabled |-> Toggle(TRUE, "Yes"),
   supertrend_enabled |-> Toggle(TRUE, "Yes"),
   min_agreeing_checks |-> Number(4, 1, 5, "Yes")]

RiskCatalogue ==
  [risk_per_trade_percent |-> Number(100, 10, 500, "Yes"),
   stop_loss_atr_multiplier |-> Number(150, 50, 500, "Yes"),
   target_atr_multiplier |-> Number(300, 50, 1000, "Yes"),
   max_daily_loss |-> Number(500000, 0, 100000000, "No"),
   max_trades_per_day |-> Number(5, 1, 50, "No"),
   max_concurrent_positions |-> Number(1, 1, 20, "No"),
   max_capital_exposure_percent |-> Number(5000, 100, 10000, "No")]

SessionCatalogue ==
  [opening_range_minutes |-> Number(15, 0, 120, "N/A"),
   no_trade_zone_minutes |-> Number(15, 0, 120, "N/A"),
   trading_start_time |-> Number(555, 0, 1439, "N/A"),
   trading_end_time |-> Number(930, 0, 1439, "N/A"),
   allow_expiry_day_trading |-> Toggle(TRUE, "N/A"),
   lunch_filter_enabled |-> Toggle(FALSE, "N/A")]

IndicatorCatalogue ==
  [ema_period |-> Number(20, 1, 1000, "N/A"), rsi_period |-> Number(14, 1, 1000, "N/A"),
   supertrend_period |-> Number(10, 1, 1000, "N/A"),
   supertrend_multiplier |-> Number(300, 1, 100000, "N/A"),
   atr_period |-> Number(14, 1, 1000, "N/A")]

Catalogue ==
  With(With(StrategyCatalogue, RiskCatalogue), With(SessionCatalogue, IndicatorCatalogue))

\* The notes of the entries that relate two arguments.
CatalogueNotes(c) ==
  /\ c.rsi_bullish_threshold > c.rsi_bearish_threshold
  /\ c.min_agreeing_checks <= 3 + (IF c.vwap_enabled THEN 1 ELSE 0)
                                + (IF c.supertrend_enabled THEN 1 ELSE 0)
  /\ c.trading_start_time < c.trading_end_time

-----------------------------------------------------------------------------
(* The parameter space *)

ExcludedFromOptimization ==
  {"vwap_enabled", "supertrend_enabled", "opening_range_minutes", "no_trade_zone_minutes",
   "trading_start_time", "trading_end_time", "lunch_filter_enabled", "allow_expiry_day_trading"}

Axis(name, minimum, maximum, step, default) ==
  [name |-> name, minimum |-> minimum, maximum |-> maximum, step |-> step, default |-> default]

DefaultParameterCatalog ==
  {Axis("ema_period", 10, 30, 2, 20), Axis("rsi_bullish_threshold", 5000, 6000, 500, 5500),
   Axis("rsi_bearish_threshold", 3500, 4500, 500, 4500),
   Axis("reward_risk_ratio", 150, 250, 50, 200), Axis("risk_percent", 50, 200, 50, 100),
   Axis("max_trades_per_day", 1, 10, 1, 5)}

Optimizable(axis) ==
  /\ axis.name \notin ExcludedFromOptimization
  /\ axis.step > 0 /\ axis.minimum < axis.maximum
  /\ axis.minimum <= axis.default /\ axis.default <= axis.maximum

NoDuplicates(axes) == Cardinality({axes[i].name : i \in DOMAIN axes}) = Len(axes)

\* The product over the first axes, for each number of them.
Totals(axes) ==
  LET total[k \in 0 .. Len(axes)] == IF k = 0 THEN 1 ELSE total[k - 1] * Len(Values(axes[k]))
  IN total

TotalCombinations(axes) == Totals(axes)[Len(axes)]

-----------------------------------------------------------------------------
(* The market calendar *)

\* Mutant: the lunch break may be anywhere.
LunchAnywhere(w) ==
  /\ w.preOpen < w.open /\ w.open < w.close
  /\ w.lunchStart = NoValue <=> w.lunchEnd = NoValue
  /\ w.afterHoursEnd # NoValue => w.afterHoursEnd > w.close

WindowsAccepted(w) ==
  /\ w.preOpen < w.open /\ w.open < w.close
  /\ w.lunchStart = NoValue <=> w.lunchEnd = NoValue
  /\ w.lunchStart # NoValue =>
       w.open < w.lunchStart /\ w.lunchStart < w.lunchEnd /\ w.lunchEnd < w.close
  /\ w.afterHoursEnd # NoValue => w.afterHoursEnd > w.close

\* Before the pre-open it is still the after hours of the session before.
SessionPhase(w, minute) ==
  CASE minute < w.preOpen -> "AfterHours"
    [] w.preOpen <= minute /\ minute < w.open -> "PreOpen"
    [] w.open <= minute /\ w.lunchStart # NoValue
       /\ w.lunchStart <= minute /\ minute < w.lunchEnd -> "Lunch"
    [] OTHER ->
         IF minute < w.close THEN "Open"
         ELSE IF w.afterHoursEnd # NoValue /\ minute < w.afterHoursEnd THEN "AfterHours"
         ELSE "Close"

-----------------------------------------------------------------------------

\* What is tried has the types of the models' fields: a toggle is a Boolean, every
\* other argument and every end of an axis a number; an indicator's period has no
\* model that refuses one.
ASSUME ParametersAssumption ==
  /\ DOMAIN Probes \subseteq DOMAIN StrategyDefaults \cup DOMAIN RiskDefaults \cup DOMAIN SessionDefaults
  /\ \A name \in DOMAIN Probes : Probes[name] \subseteq IF name \in Toggles THEN BOOLEAN ELSE Int
  /\ Offered \subseteq [name : STRING, minimum : Int, maximum : Int, step : Int, default : Int]
  /\ WindowsTried \subseteq [preOpen : Nat, open : Nat, close : Nat, lunchStart : Nat \cup {NoValue},
                             lunchEnd : Nat \cup {NoValue}, afterHoursEnd : Nat \cup {NoValue}]

ParametersInit ==
  /\ configured = Defaults /\ accepted = TRUE /\ space = <<>> /\ refused = FALSE
  /\ calendar = NoValue

Changed == {name \in DOMAIN Probes : configured[name] # Defaults[name]}

Configure(name, value) ==
  /\ calendar = NoValue /\ space = <<>> /\ name \notin Changed /\ Cardinality(Changed) < MaxChanges
  /\ configured' = [configured EXCEPT ![name] = value]
  /\ accepted' = Accepted(configured')
  /\ UNCHANGED <<space, refused, calendar>>

\* A search is built on a configuration that exists.
OfferAxis(axis) ==
  /\ calendar = NoValue /\ accepted
  /\ Cardinality(Changed) < MaxChanges /\ Len(space) < MaxAxes
  /\ refused' = ~(Optimizable(axis) /\ NoDuplicates(Append(space, axis)))
  /\ space' = IF refused' THEN space ELSE Append(space, axis)
  /\ UNCHANGED <<configured, accepted, calendar>>

\* A model that its validators refuse is not built.
BuildCalendar(w) ==
  /\ calendar = NoValue /\ configured = Defaults /\ space = <<>>
  /\ WindowsAccepted(w)
  /\ calendar' = w
  /\ UNCHANGED <<configured, accepted, space, refused>>

ParametersNext ==
  \/ \E name \in DOMAIN Probes : \E value \in Probes[name] : Configure(name, value)
  \/ \E axis \in Offered : OfferAxis(axis)
  \/ \E w \in WindowsTried : BuildCalendar(w)

-----------------------------------------------------------------------------
(* Properties *)

\* The catalogue and the models agree: a configuration is accepted exactly when each
\* argument is in the range its entry allows and the notes hold, and the entries give
\* the models' defaults (the tests only compare names).
CatalogueTells ==
  /\ accepted <=> /\ \A name \in DOMAIN Catalogue : configured[name] \in Catalogue[name].allowed
                  /\ CatalogueNotes(configured)
  /\ \A name \in DOMAIN Defaults : Catalogue[name].default = Defaults[name]

\* executor.py copies a configuration with model_copy, which runs no validator.  Over
\* a configuration whose thresholds and stop are the defaults, whatever else it
\* changes, every combination of the default parameters is nevertheless acceptable.
GridIsLegal ==
  accepted /\ ToSet(space) \subseteq DefaultParameterCatalog
  /\ Changed \cap {"rsi_bullish_threshold", "rsi_bearish_threshold",
                   "stop_loss_atr_multiplier"} = {} =>
       LET grid == GenerateGrid(space)
       IN \A i \in DOMAIN grid :
            LET c == ApplyCombination(grid[i], configured)
            IN StrategyAccepted(c) /\ RiskAccepted(c)

\* "All six now genuinely change a real backtest outcome" (executor.py 16): no two
\* combinations of the default parameters give the same configuration, and the grid
\* has them all, from one end of each axis to the other.
EveryAxisCounts ==
  LET grid == GenerateGrid(space)
  IN /\ Len(grid) = TotalCombinations(space)
     /\ ToSet(space) \subseteq DefaultParameterCatalog =>
          Cardinality({ApplyCombination(grid[i], configured) : i \in DOMAIN grid}) = Len(grid)
     /\ \A k \in DOMAIN space :
          LET axis == space[k]
          IN (axis.maximum - axis.minimum) % axis.step = 0 =>
               Min(ToSet(Values(axis))) = axis.minimum /\ Max(ToSet(Values(axis))) = axis.maximum

\* A calendar that can be built has a day in order: the market opens once, after a
\* pre-open, breaks for lunch only if a lunch is configured, between two openings,
\* and once it has closed does not open again.
CalendarInOrder ==
  calendar # NoValue =>
    LET latest == calendar.close + 2
        In(phase) == {t \in 0 .. latest : SessionPhase(calendar, t) = phase}
        Trading == In("Open") \cup In("Lunch")
    IN /\ In("PreOpen") # {} /\ In("Open") # {}
       /\ Trading = Min(In("Open")) .. Max(In("Open"))
       /\ Max(In("PreOpen")) = Min(Trading) - 1
       /\ In("Lunch") # {} <=> calendar.lunchStart # NoValue
       /\ \A t \in In("Close") : t > Max(Trading)

ConfigurationTrusted == CatalogueTells /\ GridIsLegal /\ EveryAxisCounts /\ CalendarInOrder

=============================================================================

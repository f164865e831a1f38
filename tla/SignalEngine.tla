---------------------------- MODULE SignalEngine ----------------------------
(***************************************************************************)
(* TradeCycle with the reporting layer on top: the SignalService, which    *)
(* learns of a candle, a fill and a position only through the events the   *)
(* cycle publishes, its SignalFilter and DummyTradeTracker, and the log of *)
(* the NotificationService.  The handlers run inside process_candle, so    *)
(* every candle of the cycle is one step of all of them; what each sees is *)
(* what had happened when its event was published: the candle before the   *)
(* exit check, the exit before the entry, the fill before the position.    *)
(*                                                                         *)
(* Whether Telegram takes a message does not come back to any of them, and *)
(* is left out.  The strategy's strength is a choice.                      *)
(***************************************************************************)
EXTENDS TradeCycle, FiniteSets, SequencesExt

CONSTANTS
  ConfidenceThreshold,  \* SignalConfig.confidence_threshold
  SignalCooldown,       \* SignalConfig.cooldown_minutes
  MaxSignalsPerDay,     \* SignalConfig.max_signals_per_day
  SummaryTime,          \* SignalConfig.summary_time, in minutes since midnight
  UnitsPerPoint         \* price units in a point, for what the code gives in points

\* What SignalConfig's validator accepts.
SignalConfigAccepted ==
  /\ ConfidenceThreshold \in 0 .. 100
  /\ SignalCooldown \in Nat /\ MaxSignalsPerDay \in Nat \ {0}
  /\ SummaryTime \in 0 .. MinutesPerDay - 1

ASSUME SignalAssumption == SignalConfigAccepted /\ UnitsPerPoint \in Nat \ {0}

VARIABLES
  dummies,        \* DummyTradeTracker._trades, in the order opened
  tradeOf,        \* _position_id_to_trade_id
  lastSignalAt,   \* SignalFilter._last_signal_at of the one strategy, 0 for none
  signalsToday,   \* SignalFilter._signals_today
  filterDay,      \* SignalFilter._current_day, 0 for None
  lastNoTradeAt,  \* _last_no_trade_notified_at, 0 for None
  openSeenOn,     \* _market_open_seen_on_date, 0 for None
  sentLog,        \* NotificationService.sent_log, with the candle it was sent on
  reports,        \* the daily reports sent; the last is _report_generated_for_date's
  closingDays     \* history: days with a candle at the close but before the summary

signals == <<dummies, tradeOf, lastSignalAt, signalsToday, filterDay, lastNoTradeAt,
             openSeenOn, sentLog, reports, closingDays>>

Magnitude(x) == IF x < 0 THEN -x ELSE x

Strengths == {"STRONG", "MODERATE", "WEAK"}

DummyTrade == [position : Nat \ {0}, direction : {"LONG", "SHORT"}, entry : Int,
               stopLoss : Int, target : Int, openedAt : Nat,
               status : {"OPEN", "CLOSED"}, closedAt : Nat, pnl : Int,
               exitReason : {"NONE", "TARGET", "STOP_LOSS", "END_OF_DAY"}]

Message == [kind : {"BUY", "TARGET_HIT", "STOPLOSS_HIT", "NO_TRADE", "DAILY_SUMMARY"},
            trade : Nat, at : Nat]

Send(kind, trade, c) == <<[kind |-> kind, trade |-> trade, at |-> At(c)]>>

-----------------------------------------------------------------------------
(* MarketDataReceivedEvent: published before anything else is done *)

ClassifySession(c) ==
  IF c.minute < MarketOpen THEN "PRE_MARKET"
  ELSE IF c.minute <= MarketClose THEN "OPEN" ELSE "CLOSED"

ReportedFor == IF reports = <<>> THEN 0 ELSE Last(reports).day

\* Mutant: the summary goes out with the first candle that ends the session.
SummaryAtClose(c) ==
  c.minute >= MarketClose /\ openSeenOn' = c.day /\ ReportedFor # c.day

SummaryDue(c) ==
  c.minute >= SummaryTime /\ openSeenOn' = c.day /\ ReportedFor # c.day

TradesClosedBetween(from, until) ==
  {d \in DOMAIN dummies :
     dummies[d].status = "CLOSED" /\ DayOf(dummies[d].closedAt) \in from .. until}

TradesClosedOn(day) == TradesClosedBetween(day, day)

TotalOf(f) == FoldFunction(+, 0, f)

NetPnl(trades) == TotalOf([d \in trades |-> dummies[d].pnl])

Winners(trades) == {d \in trades : dummies[d].pnl > 0}

BuildDailyReport(day) ==
  LET trades == TradesClosedOn(day)
      pnls == {dummies[d].pnl : d \in trades}
  IN [day |-> day, trades |-> trades,
      buyCe |-> Cardinality({d \in trades : dummies[d].direction = "LONG"}),
      buyPe |-> Cardinality({d \in trades : dummies[d].direction = "SHORT"}),
      winning |-> Cardinality(Winners(trades)),
      losing |-> Cardinality(trades \ Winners(trades)),
      net |-> NetPnl(trades),
      best |-> IF trades = {} THEN 0 ELSE Max(pnls),
      worst |-> IF trades = {} THEN 0 ELSE Min(pnls)]

OnMarketData(c) ==
  /\ openSeenOn' = IF ClassifySession(c) = "OPEN" THEN c.day ELSE openSeenOn
  /\ reports' = IF SummaryDue(c)
                THEN Append(reports, BuildDailyReport(c.day)) ELSE reports
  /\ closingDays' = IF c.minute \in MarketClose .. SummaryTime - 1
                    THEN closingDays \cup {c.day} ELSE closingDays

SummaryMessage(c) == IF SummaryDue(c) THEN Send("DAILY_SUMMARY", 0, c) ELSE <<>>

-----------------------------------------------------------------------------
(* PositionUpdatedEvent of a position that has been closed *)

Closes == \E i \in DOMAIN positions : positions[i].status = "OPEN" /\ positions'[i].status = "CLOSED"

\* The trade the closed position stands for; its signal may have been suppressed.
TradeCloses == Closes /\ openId \in DOMAIN tradeOf

\* Mutant: the sign of a SHORT forgotten.
InferLongExitPrice(p) == p.entry + p.realized \div p.initialQuantity

\* The position does not say at what price it was left; its P&L tells.
InferExitPrice(p) ==
  LET perUnit == p.realized \div p.initialQuantity
  IN  IF p.direction = "SHORT" THEN p.entry - perUnit ELSE p.entry + perUnit

\* 2% of the target's distance, or 0.01 of a point; in hundredths of a price unit.
Tolerance(trade) == Max({2 * Magnitude(trade.target - trade.entry), UnitsPerPoint})

\* Mutant: the 2% taken for twice.
NearByTwice(trade, price, level) == Magnitude(price - level) <= Tolerance(trade)

Near(trade, price, level) == 100 * Magnitude(price - level) <= Tolerance(trade)

InferExitReason(trade, price) ==
  IF Near(trade, price, trade.target) THEN "TARGET"
  ELSE IF Near(trade, price, trade.stopLoss) THEN "STOP_LOSS" ELSE "END_OF_DAY"

ClosedTrade(trade, p, c) ==
  [trade EXCEPT !.status = "CLOSED", !.closedAt = At(c), !.pnl = p.realized,
                !.exitReason = InferExitReason(trade, InferExitPrice(p))]

CloseTrade(c) ==
  IF TradeCloses
  THEN [dummies EXCEPT ![tradeOf[openId]] = ClosedTrade(@, positions'[openId], c)]
  ELSE dummies

\* Mutant: an end-of-day exit is announced too, as a stop-loss.
AnnounceAnyExit(c) ==
  IF ~TradeCloses THEN <<>>
  ELSE LET d == tradeOf[openId]
       IN  IF CloseTrade(c)[d].exitReason = "TARGET" THEN Send("TARGET_HIT", d, c)
           ELSE Send("STOPLOSS_HIT", d, c)

\* An end-of-day exit is not announced.
ExitMessage(c) ==
  IF ~TradeCloses THEN <<>>
  ELSE LET d == tradeOf[openId]
       IN  CASE CloseTrade(c)[d].exitReason = "TARGET" -> Send("TARGET_HIT", d, c)
             [] CloseTrade(c)[d].exitReason = "STOP_LOSS" -> Send("STOPLOSS_HIT", d, c)
             [] OTHER -> <<>>

-----------------------------------------------------------------------------
(* OrderFilledEvent *)

Fills == Len(positions') > Len(positions)

BaseScore == [STRONG |-> 70, MODERATE |-> 55, WEAK |-> 35]

\* The reward-to-risk ratio of an order is that of the two multipliers; both sides
\* are multiplied by the stop's.
Confident(strength) ==
  BaseScore[strength] * StopMultiplier + Min({10 * TargetMultiplier, 30 * StopMultiplier})
    >= ConfidenceThreshold * StopMultiplier

SentOn(c) == IF filterDay = c.day THEN signalsToday ELSE 0

CooledDown(c, last) == last = Never \/ At(c) - last >= SignalCooldown

\* The strengths the evaluation behind the fill may have; without one nobody asks.
EvaluatedStrengths == IF Fills THEN Strengths ELSE {"WEAK"}

\* Mutant: no cooldown between signals.
ShouldEmitAnyTime(c, strength) ==
  /\ ClassifySession(c) = "OPEN"
  /\ Confident(strength)
  /\ SentOn(c) < MaxSignalsPerDay

ShouldEmit(c, strength) ==
  /\ ClassifySession(c) = "OPEN"
  /\ Confident(strength)
  /\ CooledDown(c, lastSignalAt)
  /\ SentOn(c) < MaxSignalsPerDay

Emits(c, strength) == Fills /\ ShouldEmit(c, strength)

\* Only a score below the threshold is worth a notice, and not too often.
NoTradeDue(c, strength) ==
  /\ Fills /\ ClassifySession(c) = "OPEN" /\ ~Confident(strength)
  /\ CooledDown(c, lastNoTradeAt)

OpenTrade(c) ==
  [position |-> Len(positions'), direction |-> c.signal, entry |-> c.close,
   stopLoss |-> stopLoss', target |-> target', openedAt |-> At(c),
   status |-> "OPEN", closedAt |-> Never, pnl |-> 0, exitReason |-> "NONE"]

\* A trade is announced once, whoever asks.
SignalMessage(d, c) ==
  IF \E k \in DOMAIN sentLog : sentLog[k].kind = "BUY" /\ sentLog[k].trade = d
  THEN <<>> ELSE Send("BUY", d, c)

EntryMessage(c, strength) ==
  IF Emits(c, strength) THEN SignalMessage(Len(dummies) + 1, c)
  ELSE IF NoTradeDue(c, strength) THEN Send("NO_TRADE", 0, c) ELSE <<>>

\* The filter rolls its day with every fill, let through or not.
RecordEmitted(c, strength) ==
  /\ lastSignalAt' = IF Emits(c, strength) THEN At(c) ELSE lastSignalAt
  /\ filterDay' = IF Fills THEN c.day ELSE filterDay
  /\ signalsToday' = IF Fills THEN SentOn(c) + (IF Emits(c, strength) THEN 1 ELSE 0)
                              ELSE signalsToday
  /\ lastNoTradeAt' = IF NoTradeDue(c, strength) THEN At(c) ELSE lastNoTradeAt

-----------------------------------------------------------------------------
(* PositionUpdatedEvent of a position that is open *)

Kept == Restrict(tradeOf, IF Closes THEN DOMAIN tradeOf \ {openId} ELSE DOMAIN tradeOf)

Bound ==
  [i \in DOMAIN Kept \cup {Len(positions')} |->
     IF i = Len(positions') THEN Len(dummies') ELSE Kept[i]]

\* Mutant: the pending slot is not emptied, so a position whose signal was suppressed
\* is bound to the trade before.
BindLastTrade(c, strength) ==
  IF Fills /\ Len(dummies') > 0 THEN Bound ELSE Kept

\* The trade waiting in the pending slot is bound to the position just opened.
BindTrade(c, strength) ==
  IF Emits(c, strength) THEN Bound ELSE Kept

OnTrades(c, strength) ==
  /\ dummies' = IF Emits(c, strength) THEN Append(CloseTrade(c), OpenTrade(c)) ELSE CloseTrade(c)
  /\ tradeOf' = BindTrade(c, strength)
  /\ sentLog' = sentLog \o SummaryMessage(c) \o ExitMessage(c) \o EntryMessage(c, strength)

-----------------------------------------------------------------------------
(* What the API answers with; it changes nothing *)

\* The latest_* fields are those of the trade opened last.
SignalState ==
  [latest |-> IF dummies = <<>> THEN 0 ELSE Len(dummies), sentToday |-> signalsToday]

SignalPerformance(today, weekStart, monthStart) ==
  LET closed == {d \in DOMAIN dummies : dummies[d].status = "CLOSED"}
  IN [open |-> DOMAIN dummies \ closed, closed |-> closed,
      winners |-> Cardinality(Winners(closed)),    \* win_rate, before the division
      todayPnl |-> NetPnl(TradesClosedOn(today)),
      weeklyPnl |-> NetPnl(TradesClosedBetween(weekStart, today)),
      monthlyPnl |-> NetPnl(TradesClosedBetween(monthStart, today))]

-----------------------------------------------------------------------------

SignalInit ==
  /\ Init
  /\ dummies = <<>> /\ tradeOf = <<>>
  /\ lastSignalAt = Never /\ signalsToday = 0 /\ filterDay = 0 /\ lastNoTradeAt = Never
  /\ openSeenOn = 0 /\ sentLog = <<>> /\ reports = <<>> /\ closingDays = {}

SignalNext ==
  \E c \in Candle :
    /\ WellFormed(c)
    /\ ProcessCandle(c)
    /\ OnMarketData(c)
    /\ \E strength \in EvaluatedStrengths : RecordEmitted(c, strength) /\ OnTrades(c, strength)

SignalSpec == SignalInit /\ [][SignalNext]_<<vars, signals>>

-----------------------------------------------------------------------------
(* Properties *)

SignalTypeOK ==
  /\ dummies \in Seq(DummyTrade)
  /\ DOMAIN tradeOf \subseteq DOMAIN positions
  /\ \A i \in DOMAIN tradeOf : tradeOf[i] \in DOMAIN dummies
  /\ lastSignalAt \in Nat /\ signalsToday \in 0 .. MaxSignalsPerDay /\ filterDay \in Nat
  /\ lastNoTradeAt \in Nat /\ openSeenOn \in Nat
  /\ sentLog \in Seq(Message)
  /\ \A r \in DOMAIN reports : reports[r].day \in Nat /\ reports[r].trades \subseteq DOMAIN dummies
  /\ closingDays \subseteq Nat

\* signal_service.py: a trade's close is correlated to its opening "always
\* unambiguous[ly]".  Each dummy trade mirrors one position of its own, opened on the
\* same candle: it is open as long as the position is and ends with its P&L.
TradesMirrorPositions ==
  SignalTypeOK /\ \A d \in DOMAIN dummies :
    LET t == dummies[d]
        p == positions[t.position]
    IN  /\ t.openedAt = ledger[t.position].openedAt
        /\ t.status = p.status /\ t.closedAt = ledger[t.position].closedAt
        /\ t.pnl = p.realized
        /\ \A e \in DOMAIN dummies : dummies[e].position = t.position => e = d

\* dummy_trade_tracker.py: what "matches neither closely is reported as an honest
\* EndOfDay/Unknown exit".  A trade that ended at its target or its stop-loss, by the
\* P&L of its position, says so, unless the two are within the tolerance of each
\* other; any other trade ended at the close, between the two, and is only given the
\* name of a level that its price was within the tolerance of.
HitsAreNamed ==
  \A d \in DOMAIN dummies :
    LET t == dummies[d]
        q == positions[t.position].initialQuantity
        Worth(level) == SignedPnl(t, level, q)
        Within(level) == 100 * Magnitude(t.pnl - Worth(level)) <= q * Tolerance(t)
    IN  t.status = "CLOSED" =>
          /\ t.pnl = Worth(t.target) => t.exitReason = "TARGET"
          /\ t.pnl = Worth(t.stopLoss) => t.exitReason = "STOP_LOSS" \/ Within(t.target)
          /\ t.pnl \notin {Worth(t.target), Worth(t.stopLoss)} =>
               /\ MinuteOf(t.closedAt) >= MarketClose
               /\ Worth(t.stopLoss) < t.pnl /\ t.pnl < Worth(t.target)
          /\ t.exitReason = "TARGET" => Within(t.target)
          /\ t.exitReason = "STOP_LOSS" => Within(t.stopLoss)

MessagesOf(d, kinds) == {k \in DOMAIN sentLog : sentLog[k].trade = d /\ sentLog[k].kind \in kinds}

\* Every trade is announced once, when it is opened, and its end once, when it ends
\* at the target or the stop-loss; nothing else is announced of a trade, and the
\* dashboard's latest signal is the one alerted last.
AlertsMatchTrades ==
  /\ \A d \in DOMAIN dummies :
       /\ \E k \in DOMAIN sentLog : /\ MessagesOf(d, {"BUY"}) = {k}
                                    /\ sentLog[k].at = dummies[d].openedAt
       /\ CASE dummies[d].exitReason = "TARGET" ->
                 \E k \in DOMAIN sentLog : /\ MessagesOf(d, {"TARGET_HIT", "STOPLOSS_HIT"}) = {k}
                                           /\ sentLog[k].kind = "TARGET_HIT"
                                           /\ sentLog[k].at = dummies[d].closedAt
            [] dummies[d].exitReason = "STOP_LOSS" ->
                 \E k \in DOMAIN sentLog : /\ MessagesOf(d, {"TARGET_HIT", "STOPLOSS_HIT"}) = {k}
                                           /\ sentLog[k].kind = "STOPLOSS_HIT"
                                           /\ sentLog[k].at = dummies[d].closedAt
            [] OTHER -> MessagesOf(d, {"TARGET_HIT", "STOPLOSS_HIT"}) = {}
  /\ \A k \in DOMAIN sentLog : sentLog[k].trade \in 0 .. Len(dummies)
  /\ SignalState.latest = Max({0} \cup {sentLog[k].trade : k \in {l \in DOMAIN sentLog :
                                                                sentLog[l].kind = "BUY"}})

\* The operator is not flooded: entry alerts, and no-trade notices, are a cooldown
\* apart, and a day has at most max_signals_per_day entry alerts, although trades may
\* follow each other faster and days roll at different moments in filter and cycle.
AlertsSpaced ==
  /\ \A k, l \in DOMAIN sentLog :
       k < l /\ sentLog[k].kind = sentLog[l].kind /\ sentLog[k].kind \in {"BUY", "NO_TRADE"}
         => sentLog[l].at - sentLog[k].at >= SignalCooldown
  /\ \A k \in DOMAIN sentLog :
       Cardinality({l \in DOMAIN sentLog : /\ sentLog[l].kind = "BUY"
                                           /\ DayOf(sentLog[l].at) = DayOf(sentLog[k].at)})
         <= MaxSignalsPerDay

\* A day is reported at most once; and, if it had a candle between the close and the
\* time of the summary, the report has every trade that was closed on the day, for
\* ever: none is closed later, and none is left for the exit check yet to come.  Its
\* figures are those of the positions behind the trades, and what the dashboard is
\* told of a week or a month is the sum of its days.
ReportsComplete ==
  /\ \A r, s \in DOMAIN reports : reports[r].day = reports[s].day => r = s
  /\ \A r \in DOMAIN reports :
       reports[r].day \in closingDays => reports[r].trades = TradesClosedOn(reports[r].day)
  /\ \A r \in DOMAIN reports :
       LET report == reports[r]
           Realized(d) == positions[dummies[d].position].realized
       IN /\ report.net = TotalOf([d \in report.trades |-> Realized(d)])
          /\ report.buyCe + report.buyPe = Cardinality(report.trades)
          /\ report.winning + report.losing = Cardinality(report.trades)
          /\ \A d \in report.trades : Realized(d) \in report.worst .. report.best
  /\ \A today \in Days :
       LET performance == SignalPerformance(today, Min(Days), Min(Days))
           DayNet == [day \in {d \in Days : d <= today} |-> BuildDailyReport(day).net]
       IN /\ performance.weeklyPnl = TotalOf(DayNet)
          /\ performance.todayPnl = DayNet[today]
          /\ today = Max(Days) =>
               performance.monthlyPnl = NetPnl(performance.closed)

=============================================================================

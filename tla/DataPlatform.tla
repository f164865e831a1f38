---------------------------- MODULE DataPlatform ----------------------------
(***************************************************************************)
(* The historical data platform: a repository of validated datasets, the   *)
(* service that imports into it from a provider or appends to it, and the  *)
(* service that queries it through a cache of date ranges.  Calls come one *)
(* at a time, in any order.                                                *)
(*                                                                         *)
(* Times are minutes; a stamp is naive, or aware and in UTC + ZoneOffset.  *)
(* Prices and volumes are whole numbers.                                   *)
(***************************************************************************)
EXTENDS Integers, Sequences, FiniteSets, FiniteSetsExt, SequencesExt

CONSTANTS
  Keys,              \* DatasetKeys, all of one timeframe
  Candles,           \* OHLCVRecords a file or a caller may bring
  MaxBatch,          \* bound: candles a call brings
  MaxStored,         \* bound: candles of a dataset
  Ranges,            \* date ranges asked for, <<start, end>>, naive
  ExpectedMinutes,   \* _TIMEFRAME_MINUTES of the timeframe, 0 for the daily one
  ZoneOffset,        \* minutes east of UTC of the aware stamps
  MoveThreshold,     \* threshold_percent
  VolumeZScore       \* z_score_threshold

MinutesPerDay == 1440

OHLCVRecord == [time : Nat, zone : {"naive", "aware"}, open : Int, high : Int, low : Int,
                close : Int, volume : Int]

ASSUME DataAssumption ==
  /\ Candles \subseteq OHLCVRecord
  /\ MaxBatch \in Nat /\ MaxStored \in Nat
  /\ Ranges \subseteq Nat \X Nat
  /\ {ExpectedMinutes, ZoneOffset, MoveThreshold, VolumeZScore} \subseteq Nat

VARIABLES
  datasets,     \* HistoricalDataRepository._datasets, of the keys that have one
  instruments,  \* the keys of _instruments
  queryCache,   \* CacheManager._query_cache
  outcome,      \* what the last call returned or raised
  forced        \* history: keys whose dataset was stored by force only

dataVars == <<datasets, instruments, queryCache, outcome, forced>>

-----------------------------------------------------------------------------
(* validate_dataset: the kinds of issue it finds in candles in file order *)

\* Aware stamps become naive UTC; naive ones stay as they are.
Comparable(c) == IF c.zone = "naive" THEN c.time ELSE c.time - ZoneOffset

SameStamp(c, d) == c.time = d.time /\ c.zone = d.zone

Duplicates(s) == \E i, j \in DOMAIN s : i < j /\ SameStamp(s[i], s[j])

Successive(s) == {<<s[i - 1], s[i]>> : i \in DOMAIN s \ {1}}

OutOfOrder(s) == \E p \in Successive(s) : Comparable(p[2]) < Comparable(p[1])

NegativePrice(s) == \E i \in DOMAIN s : \E price \in {s[i].open, s[i].high, s[i].low, s[i].close} : price < 0
NegativeVolume(s) == \E i \in DOMAIN s : s[i].volume < 0

HighTooLow(s) == \E i \in DOMAIN s : s[i].high < Max({s[i].open, s[i].close, s[i].low})
LowTooHigh(s) == \E i \in DOMAIN s : s[i].low > Min({s[i].open, s[i].close, s[i].high})

TimezoneInconsistent(s) == Cardinality({s[i].zone : i \in DOMAIN s}) > 1

SameDay(c, d) == Comparable(c) \div MinutesPerDay = Comparable(d) \div MinutesPerDay

\* A gap is looked for within a day only, between neighbours of the file.
MissingCandles(s) ==
  /\ ExpectedMinutes # 0
  /\ \E p \in Successive(s) :
       /\ SameDay(p[1], p[2])
       /\ Comparable(p[2]) - Comparable(p[1]) > ExpectedMinutes

Abs(x) == IF x < 0 THEN -x ELSE x

\* |close - previous| / previous * 100 > threshold: never for a negative previous close.
AbnormalMove(s) ==
  \E p \in Successive(s) :
    p[1].close > 0 /\ Abs(p[2].close - p[1].close) * 100 > MoveThreshold * p[1].close

\* |volume - mean| > z * deviation, over a population of n, without the division.
AbnormalVolume(s) ==
  LET n == Len(s)
      sum == MapThenSumSet(LAMBDA i : s[i].volume, DOMAIN s)
      squares == MapThenSumSet(LAMBDA i : s[i].volume * s[i].volume, DOMAIN s)
      variance == n * squares - sum * sum
  IN  /\ n >= 2 /\ variance # 0
      /\ \E i \in DOMAIN s :
           (n * s[i].volume - sum) * (n * s[i].volume - sum) > VolumeZScore * VolumeZScore * variance

IsValid(s) ==
  /\ ~Duplicates(s) /\ ~OutOfOrder(s)
  /\ ~NegativePrice(s) /\ ~NegativeVolume(s)
  /\ ~HighTooLow(s) /\ ~LowTooHigh(s)
  /\ ~TimezoneInconsistent(s) /\ ~MissingCandles(s)
  /\ ~AbnormalMove(s) /\ ~AbnormalVolume(s)

-----------------------------------------------------------------------------
(* HistoricalDataRepository *)

\* A dictionary with y at x.
Put(f, x, y) == [z \in {x} \cup DOMAIN f |-> IF z = x THEN y ELSE f[z]]

Existing(k) == IF k \in DOMAIN datasets THEN datasets[k] ELSE <<>>

\* sorted() compares stamps directly: a naive one with an aware one raises.  Aware
\* stamps are all of one offset here; those of two, which the validator flags as well,
\* would be sorted.
Sortable(s) == ~TimezoneInconsistent(s)

\* The candles of s whose index has a place, each at its place.
Placed(s, place) ==
  [n \in 1 .. Cardinality(DOMAIN place) |-> s[CHOOSE i \in DOMAIN place : place[i] = n]]

\* sorted() is stable: of two candles of one time the first stays first.
NotAfter(s, i) ==
  {j \in DOMAIN s : s[j].time < s[i].time \/ (s[j].time = s[i].time /\ j <= i)}

SortedByTime(s) == Placed(s, [i \in DOMAIN s |-> Cardinality(NotAfter(s, i))])

\* A scan of s keeps the candles of a range in their order.
RowsIn(s, range) == {i \in DOMAIN s : range[1] <= s[i].time /\ s[i].time <= range[2]}

Scanned(s, range) ==
  Placed(s, [i \in RowsIn(s, range) |-> Cardinality({j \in RowsIn(s, range) : j <= i})])

\* bisect_left and bisect_right on the sorted stamps; then the slice.
QueryDateRange(s, range) ==
  LET left == Cardinality({i \in DOMAIN s : s[i].time < range[1]})
      right == Cardinality({i \in DOMAIN s : s[i].time <= range[2]})
  IN  SubSeq(s, left + 1, right)

Raised(error) ==
  /\ outcome' = [call |-> "import", error |-> error]
  /\ UNCHANGED <<datasets, instruments, queryCache, forced>>

\* What the cache holds for a data set and a range, and putting it there.
Cached(q) == q \in DOMAIN queryCache
SetQuery(q, result) == queryCache' = Put(queryCache, q, result)

\* Mutant: only the dataset cache is cleared.
QueriesKept(k) == queryCache

QueriesWithout(k) == [q \in {q \in DOMAIN queryCache : q[1] # k} |-> queryCache[q]]

\* _store, then what ImportService does when it has not raised.
Store(k, candles, force) ==
  IF ~IsValid(candles) /\ ~force THEN Raised("DatasetValidationError")
  ELSE IF ~Sortable(candles) THEN Raised("TypeError")
  ELSE /\ datasets' = Put(datasets, k, SortedByTime(candles))
       /\ instruments' = instruments \cup {k}
       /\ queryCache' = QueriesWithout(k)
       /\ forced' = IF IsValid(candles) THEN forced \ {k} ELSE forced \cup {k}
       /\ outcome' = [call |-> "import", error |-> "none"]

-----------------------------------------------------------------------------
(* ImportService and QueryService *)

DataInit ==
  /\ datasets = [k \in {} |-> <<>>] /\ instruments = {}
  /\ queryCache = [q \in {} |-> <<>>]
  /\ outcome = [call |-> "none", error |-> "none"]
  /\ forced = {}

Batches == BoundedSeq(Candles, MaxBatch)

\* CSVHistoricalDataProvider.fetch compares every row with a naive range.
Fetch(file, range) == Scanned(file, range)

ImportFromProvider(k, file, range, force) ==
  IF \E i \in DOMAIN file : file[i].zone = "aware" THEN Raised("TypeError")
  ELSE Store(k, Fetch(file, range), force)

\* The providers that are an interface only.
ImportFromStub == Raised("NotImplementedError")

\* Mutant: only the new candles are validated.
AppendValidatingNew(k, candles, force) ==
  IF ~IsValid(candles) /\ ~force THEN Raised("DatasetValidationError")
  ELSE /\ datasets' = Put(datasets, k, SortedByTime(Existing(k) \o candles))
       /\ instruments' = instruments \cup {k}
       /\ queryCache' = QueriesWithout(k)
       /\ forced' = IF force THEN forced \cup {k} ELSE forced
       /\ outcome' = [call |-> "import", error |-> "none"]

AppendDataset(k, candles, force) == Store(k, Existing(k) \o candles, force)

GetDateRange(k, range) ==
  LET q == <<k, range>>
      result == IF Cached(q) THEN queryCache[q] ELSE QueryDateRange(Existing(k), range)
  IN  IF ~Cached(q) /\ \E i \in DOMAIN Existing(k) : Existing(k)[i].zone = "aware"
      THEN outcome' = [call |-> "query", error |-> "TypeError"] /\ UNCHANGED queryCache
      ELSE /\ outcome' = [call |-> "query", error |-> "none", key |-> k, range |-> range, result |-> result]
           /\ SetQuery(q, result)

Import ==
  \E k \in Keys, candles \in Batches, force \in BOOLEAN :
    \/ \E range \in Ranges : ImportFromProvider(k, candles, range, force)
    \/ Len(Existing(k)) + Len(candles) <= MaxStored /\ AppendDataset(k, candles, force)

Query == /\ \E k \in Keys, range \in Ranges : GetDateRange(k, range)
         /\ UNCHANGED <<datasets, instruments, forced>>

DataNext == Import \/ ImportFromStub \/ Query

-----------------------------------------------------------------------------
(* Properties *)

\* A query answers with the candles now stored that fall into the range, each
\* once and in time order: whatever was cached before, however the candles were
\* ordered when they came, and at both ends of the range; and what is cached for
\* the next query is no older than what is stored.
QueriesAreCurrent ==
  /\ (outcome.call = "query" /\ outcome.error = "none") =>
       /\ outcome.result = Scanned(Existing(outcome.key), outcome.range)
       /\ \A i, j \in DOMAIN outcome.result :
            i < j => outcome.result[i].time <= outcome.result[j].time
  /\ \A q \in DOMAIN queryCache : queryCache[q] = QueryDateRange(Existing(q[1]), q[2])

\* Candles with prices within their range, in strict order, with no gap within a day
\* and no jump from one to the next.
Clean(s) ==
  \A i \in DOMAIN s :
    /\ s[i].low \in 0 .. s[i].high /\ s[i].volume >= 0
    /\ s[i].open \in s[i].low .. s[i].high /\ s[i].close \in s[i].low .. s[i].high
    /\ i > 1 => /\ s[i - 1].time < s[i].time /\ s[i - 1].zone = s[i].zone
                /\ ExpectedMinutes # 0 /\ SameDay(s[i - 1], s[i])
                     => s[i].time - s[i - 1].time <= ExpectedMinutes
                /\ s[i - 1].close > 0
                     => Abs(s[i].close - s[i - 1].close) * 100 <= MoveThreshold * s[i - 1].close

\* repository.py: "Data quality problems are surfaced by default, not silently
\* persisted": a dataset nobody forced is clean as a whole, appended parts and
\* the seams between them included, and so is any slice of it.
CleanUnlessForced == \A k \in DOMAIN datasets \ forced : Clean(datasets[k])

\* The store can be trusted, from an import to a query.
StoreTrusted == QueriesAreCurrent /\ CleanUnlessForced

=============================================================================

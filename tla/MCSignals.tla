----------------------------- MODULE MCSignals -----------------------------
(***************************************************************************)
(* The signal engine on a data set whose days after the first have fewer   *)
(* candles: three signals need every minute of one day, and what a later   *)
(* day adds (the roll of the filter, a position held over the night, a     *)
(* report of its own) needs few.                                           *)
(***************************************************************************)
EXTENDS SignalEngine

CONSTANT LaterMinutes    \* bound: the minutes of the days after the first

InData(time) == DayOf(time) = 1 \/ MinuteOf(time) \in LaterMinutes

MCSignalsSpec == SignalInit /\ [][SignalNext /\ InData(now')]_<<vars, signals>>

=============================================================================

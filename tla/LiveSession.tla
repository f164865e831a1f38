----------------------------- MODULE LiveSession -----------------------------
(***************************************************************************)
(* The live sessions of the signal engine: SignalEngineRuntimeService,     *)
(* which starts and stops one session at a time, the LiveSession state     *)
(* machine with its reconnection, the thread that pushes the feed's        *)
(* candles into a queue and the engine thread that takes them out.         *)
(* Operators are the callers the live trading guide names: they pause,     *)
(* reconnect or emergency-stop a session from threads of their own.        *)
(*                                                                         *)
(* Every call is the list of the steps it still has to take; a step reads  *)
(* or writes one piece of shared state.  What the engine does with a       *)
(* candle is SignalEngine's business: here it may notify, which may fail.  *)
(***************************************************************************)
EXTENDS Naturals, Sequences

CONSTANTS
  Operators,    \* threads calling LiveSession directly
  Ops,          \* the LiveSession methods they call
  Candles,      \* len(candles): what the feed pushes and the engine expects
  MaxRetries,   \* LiveConfig.reconnect_limit
  Attempts,     \* NotificationConfig.retry_count + 1
  MaxSessions,  \* bound: starts of the service
  MaxCalls      \* bound: calls by operators

ASSUME LiveAssumption ==
  /\ Candles \in Nat /\ MaxRetries \in Nat \ {0} /\ Attempts \in Nat \ {0}
  /\ MaxSessions \in Nat /\ MaxCalls \in Nat
  /\ "api" \notin Operators
  /\ Ops \subseteq {"connect", "start_trading", "pause", "resume", "stop", "emergency_stop",
                    "mark_disconnected", "mark_error", "attempt_reconnect"}

VARIABLES
  context,        \* SignalEngineRuntimeService._context, 0 for None
  born,           \* sessions started so far
  state,          \* LiveSession._state
  connected,      \* sessions whose ReplayMarketFeed._connected is set
  stopRequested,  \* sessions whose ReplayMarketFeed._stop_requested is set
  feeder,         \* where the thread in ReplayMarketFeed.run is
  pushed,         \* candles it has put on the queue
  engine,         \* where the thread in RuntimeEngine.run is
  taken,          \* candles it has taken off the queue
  attempted,      \* attempts made at the notification it is sending
  call,           \* what each caller is doing
  calls,          \* calls made by operators
  downAt,         \* history: what was pushed when the feed was last disconnected
  halted          \* history: sessions whose emergency_stop has returned

sessionVars == <<state, connected, stopRequested>>
feederVars == <<feeder, pushed>>
engineVars == <<engine, taken, attempted>>
vars == <<context, born, sessionVars, feederVars, engineVars, call, calls, downAt, halted>>

Sessions == 1 .. MaxSessions
Callers == Operators \cup {"api"}
Never == Candles + 1

LiveSessionState ==
  {"Initializing", "Connecting", "Connected", "Trading", "Paused", "Stopping",
   "Stopped", "Disconnected", "Error"}

\* Mutant: a stopped session may be connected again.
RestartableTransitions ==
  [s \in LiveSessionState |->
     CASE s = "Stopping" -> {"Stopped"}
       [] s = "Trading" -> {"Paused", "Disconnected", "Stopping", "Error"}
       [] OTHER -> {"Connecting", "Stopping"}]

LIVE_SESSION_STATE_TRANSITIONS ==
  LET running == {"Disconnected", "Stopping", "Error"}
  IN  [s \in LiveSessionState |->
        CASE s = "Initializing" -> {"Connecting", "Stopping", "Error"}
          [] s = "Connecting"   -> running \cup {"Connected"}
          [] s = "Connected"    -> running \cup {"Trading"}
          [] s = "Trading"      -> running \cup {"Paused"}
          [] s = "Paused"       -> running \cup {"Trading"}
          [] s = "Stopping"     -> {"Stopped"}
          [] s = "Stopped"      -> {}
          [] s = "Disconnected" -> {"Connecting", "Stopping", "Error"}
          [] s = "Error"        -> {"Connecting", "Stopping"}]

-----------------------------------------------------------------------------
(* Calls *)

Step(do, to) == [do |-> do, to |-> to]

\* _transition checks the table, logs, and only then assigns the state.
Transition(to) == <<Step("check", to), Step("set", to)>>

Connect == <<Step("raise_flag", "up"), Step("drop_flag", "stop")>>
Disconnect == <<Step("drop_flag", "up"), Step("raise_flag", "stop")>>

StopSession == Transition("Stopping") \o Disconnect \o Transition("Stopped")

Program ==
  [connect           |-> Transition("Connecting") \o <<Step("connect", "")>>,
   start_trading     |-> Transition("Trading"),
   pause             |-> Transition("Paused"),
   resume            |-> Transition("Trading"),
   stop              |-> StopSession,
   emergency_stop    |-> StopSession,
   mark_disconnected |-> Transition("Disconnected"),
   mark_error        |-> Transition("Error"),
   attempt_reconnect |-> Transition("Connecting") \o <<Step("reconnect", "")>>]

Idle == [op |-> "none", session |-> 0, todo |-> <<>>, tries |-> 0]

Begin(who, op, s) ==
  call' = [call EXCEPT ![who] = [op |-> op, session |-> s, todo |-> Program[op], tries |-> 0]]

\* A feed starts disconnected, with nothing pushed.
FeedInit ==
  /\ connected = {} /\ stopRequested = {}
  /\ feeder = [s \in Sessions |-> "none"] /\ pushed = [s \in Sessions |-> 0]

\* The engine's source subscribes an empty queue to the feed: what is pushed and
\* not yet taken.
SourceInit ==
  engine = [s \in Sessions |-> "none"] /\ taken = [s \in Sessions |-> 0]

Init ==
  /\ context = 0 /\ born = 0 /\ calls = 0
  /\ state = [s \in Sessions |-> "Initializing"]
  /\ FeedInit /\ SourceInit
  /\ attempted = [s \in Sessions |-> 0]
  /\ call = [c \in Callers |-> Idle]
  /\ downAt = [s \in Sessions |-> Never] /\ halted = {}

(***************************************************************************)
(* start() holds the service's lock and hands the session out only at its  *)
(* end, so all of it is one step: connect(), start_trading(), the second   *)
(* feed.connect() and the two threads.  The feed is a ReplayMarketFeed,    *)
(* whose connect() cannot fail.                                            *)
(***************************************************************************)
Start ==
  /\ call["api"] = Idle /\ context = 0 /\ born < MaxSessions
  /\ born' = born + 1 /\ context' = born + 1
  /\ state' = [state EXCEPT ![born + 1] = "Trading"]
  /\ connected' = connected \cup {born + 1}
  /\ feeder' = [feeder EXCEPT ![born + 1] = "checking"]
  /\ engine' = [engine EXCEPT ![born + 1] = "reading"]
  /\ UNCHANGED <<stopRequested, pushed, taken, attempted, call, calls, downAt, halted>>

\* stop() calls LiveSession.stop() under the lock; the context goes afterwards.
Stop ==
  /\ call["api"] = Idle /\ context # 0
  /\ Begin("api", "stop", context)
  /\ UNCHANGED <<context, born, sessionVars, feederVars, engineVars, calls, downAt, halted>>

\* emergency_stop first sets the safety manager's flag, which nothing here reads.
Call(o) ==
  /\ call[o] = Idle /\ calls < MaxCalls
  /\ \E op \in Ops, s \in 1 .. born : Begin(o, op, s)
  /\ calls' = calls + 1
  /\ UNCHANGED <<context, born, sessionVars, feederVars, engineVars, downAt, halted>>

-----------------------------------------------------------------------------
(* Steps of a call *)

Doing(c, do) == call[c].todo # <<>> /\ Head(call[c].todo).do = do

Then(c, more) == call' = [call EXCEPT ![c].todo = more \o Tail(@)]

\* The exception leaves the caller; the service keeps its context.
Raises(c) == call' = [call EXCEPT ![c] = Idle]

CheckTransition(c) ==
  LET to == Head(call[c].todo).to
  IN  /\ Doing(c, "check")
      /\ IF to \in LIVE_SESSION_STATE_TRANSITIONS[state[call[c].session]]
         THEN Then(c, <<>>)
         ELSE Raises(c)
      /\ UNCHANGED <<context, born, sessionVars, feederVars, engineVars, calls, downAt, halted>>

SetState(c) ==
  /\ Doing(c, "set")
  /\ state' = [state EXCEPT ![call[c].session] = Head(call[c].todo).to]
  /\ Then(c, <<>>)
  /\ UNCHANGED <<context, born, connected, stopRequested, feederVars, engineVars, calls,
                 downAt, halted>>

RaiseFlag(c) ==
  LET s == call[c].session
  IN  /\ Doing(c, "raise_flag")
      /\ IF Head(call[c].todo).to = "up"
         THEN connected' = connected \cup {s} /\ UNCHANGED stopRequested
         ELSE stopRequested' = stopRequested \cup {s} /\ UNCHANGED connected
      /\ Then(c, <<>>)
      /\ UNCHANGED <<context, born, state, feederVars, engineVars, calls, downAt, halted>>

DropFlag(c) ==
  LET s == call[c].session
  IN  /\ Doing(c, "drop_flag")
      /\ IF Head(call[c].todo).to = "up"
         THEN /\ connected' = connected \ {s}
              /\ downAt' = [downAt EXCEPT ![s] = pushed[s]]
              /\ UNCHANGED stopRequested
         ELSE stopRequested' = stopRequested \ {s} /\ UNCHANGED <<connected, downAt>>
      /\ Then(c, <<>>)
      /\ UNCHANGED <<context, born, state, feederVars, engineVars, calls, halted>>

\* A feed behind the interface may raise; connect() turns that into ERROR.
TryConnect(c) ==
  /\ Doing(c, "connect")
  /\ \/ Then(c, Connect \o Transition("Connected"))
     \/ Then(c, Transition("Error"))
  /\ UNCHANGED <<context, born, sessionVars, feederVars, engineVars, calls, downAt, halted>>

\* One attempt of ReconnectManager.reconnect, made after its delay.
TryReconnect(c) ==
  /\ Doing(c, "reconnect")
  /\ IF call[c].tries < MaxRetries
     THEN \E more \in {Connect \o <<Step("verify", "")>>, <<Step("reconnect", "")>>} :
            call' = [call EXCEPT ![c].todo = more \o Tail(@), ![c].tries = @ + 1]
     ELSE Then(c, Transition("Stopping") \o Transition("Stopped"))
  /\ UNCHANGED <<context, born, sessionVars, feederVars, engineVars, calls, downAt, halted>>

VerifyConnected(c) ==
  /\ Doing(c, "verify")
  /\ IF call[c].session \in connected
     THEN Then(c, Transition("Connected"))
     ELSE Then(c, <<Step("reconnect", "")>>)
  /\ UNCHANGED <<context, born, sessionVars, feederVars, engineVars, calls, downAt, halted>>

Return(c) ==
  /\ call[c] # Idle /\ call[c].todo = <<>>
  /\ call' = [call EXCEPT ![c] = Idle]
  /\ context' = IF c = "api" THEN 0 ELSE context
  /\ halted' = IF call[c].op = "emergency_stop" THEN halted \cup {call[c].session} ELSE halted
  /\ UNCHANGED <<born, sessionVars, feederVars, engineVars, calls, downAt>>

Proceed(c) ==
  \/ CheckTransition(c) \/ SetState(c) \/ RaiseFlag(c) \/ DropFlag(c)
  \/ TryConnect(c) \/ TryReconnect(c) \/ VerifyConnected(c) \/ Return(c)

-----------------------------------------------------------------------------
(* The feed's thread *)

\* Mutant: only exhaustion ends the loop.
CheckExhaustionOnly(s) ==
  /\ feeder[s] = "checking"
  /\ feeder' = [feeder EXCEPT ![s] = IF pushed[s] = Candles THEN "done" ELSE "pushing"]
  /\ UNCHANGED <<context, born, sessionVars, pushed, engineVars, call, calls, downAt, halted>>

CheckFeed(s) ==
  /\ feeder[s] = "checking"
  /\ feeder' = [feeder EXCEPT ![s] =
       IF pushed[s] = Candles \/ s \notin connected \/ s \in stopRequested
       THEN "done" ELSE "pushing"]
  /\ UNCHANGED <<context, born, sessionVars, pushed, engineVars, call, calls, downAt, halted>>

Push(s) ==
  /\ feeder[s] = "pushing"
  /\ pushed' = [pushed EXCEPT ![s] = @ + 1]
  /\ feeder' = [feeder EXCEPT ![s] = "checking"]
  /\ UNCHANGED <<context, born, sessionVars, engineVars, call, calls, downAt, halted>>

-----------------------------------------------------------------------------
(* The engine's thread, in LiveFeedMarketDataSource.__iter__ or a candle *)

Moves(s, to) == engine' = [engine EXCEPT ![s] = to]

\* The candle is taken and processed, which may raise a notification.
Take(s) ==
  /\ engine[s] = "reading" /\ taken[s] < Candles /\ taken[s] < pushed[s]
  /\ taken' = [taken EXCEPT ![s] = @ + 1]
  /\ \E next \in {"reading", "sending"} : Moves(s, next)
  /\ UNCHANGED <<context, born, sessionVars, feederVars, attempted, call, calls, downAt, halted>>

\* All expected candles received: the iterator ends and the engine with it.
Complete(s) ==
  /\ engine[s] = "reading" /\ taken[s] = Candles
  /\ Moves(s, "done")
  /\ UNCHANGED <<context, born, sessionVars, feederVars, taken, attempted, call, calls, downAt, halted>>

\* queue.get found nothing for the whole timeout.
TimeOut(s) ==
  /\ engine[s] = "reading" /\ taken[s] < Candles /\ taken[s] = pushed[s]
  /\ Moves(s, "timed_out")
  /\ UNCHANGED <<context, born, sessionVars, feederVars, taken, attempted, call, calls, downAt, halted>>

\* Mutant: a quiet feed is waited for even when it is disconnected.
WaitForEver(s) ==
  /\ engine[s] = "timed_out"
  /\ Moves(s, "reading")
  /\ UNCHANGED <<context, born, sessionVars, feederVars, taken, attempted, call, calls, downAt, halted>>

\* Mutant: the first quiet spell ends the iteration.
EndOnTimeout(s) ==
  /\ engine[s] = "timed_out"
  /\ Moves(s, "done")
  /\ UNCHANGED <<context, born, sessionVars, feederVars, taken, attempted, call, calls, downAt, halted>>

AfterTimeout(s) ==
  /\ engine[s] = "timed_out"
  /\ Moves(s, IF s \in connected THEN "reading" ELSE "done")
  /\ UNCHANGED <<context, born, sessionVars, feederVars, taken, attempted, call, calls, downAt, halted>>

Send(s) ==
  /\ engine[s] = "sending"
  /\ \E sent \in BOOLEAN :
       LET over == sent \/ attempted[s] + 1 = Attempts
       IN  /\ attempted' = [attempted EXCEPT ![s] = IF over THEN 0 ELSE @ + 1]
           /\ Moves(s, IF over THEN "reading" ELSE "sending")
  /\ UNCHANGED <<context, born, sessionVars, feederVars, taken, call, calls, downAt, halted>>

FeederStep(s) == CheckFeed(s) \/ Push(s)

EngineStep(s) ==
  Take(s) \/ Complete(s) \/ TimeOut(s) \/ AfterTimeout(s) \/ Send(s)

Next ==
  \/ Start \/ Stop
  \/ \E o \in Operators : Call(o)
  \/ \E c \in Callers : Proceed(c)
  \/ \E s \in Sessions : FeederStep(s) \/ EngineStep(s)

Spec == Init /\ [][Next]_vars

\* Threads that can run do run; nobody has to start, stop or operate a session.
FairSpec ==
  /\ Spec
  /\ \A c \in Callers : WF_vars(Proceed(c))
  /\ \A s \in Sessions : WF_vars(FeederStep(s)) /\ WF_vars(EngineStep(s))

-----------------------------------------------------------------------------
(* Properties *)

TypeOK ==
  /\ context \in 0 .. born /\ born \in 0 .. MaxSessions /\ calls \in 0 .. MaxCalls
  /\ state \in [Sessions -> LiveSessionState]
  /\ connected \subseteq 1 .. born /\ stopRequested \subseteq 1 .. born
  /\ feeder \in [Sessions -> {"none", "checking", "pushing", "done"}]
  /\ engine \in [Sessions -> {"none", "reading", "timed_out", "sending", "done"}]
  /\ pushed \in [Sessions -> 0 .. Candles] /\ taken \in [Sessions -> 0 .. Candles]
  /\ attempted \in [Sessions -> 0 .. Attempts - 1]
  /\ \A c \in Callers : call[c].session \in 0 .. born /\ call[c].tries \in 0 .. MaxRetries

\* Disconnecting stops the stream: the feed's thread, which may be between its
\* check and its push, puts at most one more candle on a disconnected feed's
\* queue, so what the engine still trades on after a stop is bounded.
StopDrains ==
  TypeOK /\ \A s \in Sessions :
    (s \notin connected /\ downAt[s] # Never) => pushed[s] <= downAt[s] + 1

\* The engine ends short of its data only when somebody disconnected the feed:
\* a slow feed never makes the iterator give up.
EndsForAReason ==
  \A s \in Sessions : engine[s] = "done" => taken[s] = Candles \/ downAt[s] # Never

\* The feed's thread has given up and the feed is connected all the same.
Stranded(s) == feeder[s] = "done" /\ s \in connected /\ pushed[s] < Candles

\* Every engine thread ends, whatever Telegram, the operators and the service
\* do, but for a feed that was connected again behind its thread's back.
EngineEnds ==
  \A s \in Sessions : engine[s] = "reading" ~> (engine[s] = "done" \/ Stranded(s))

Quiet(s) == \A c \in Callers : call[c].session # s

\* Once the calls on it have returned, a stopped session is stopped for good: no
\* later call, a reconnection included, brings it back or connects its feed.
StoppedForGood ==
  \A s \in Sessions :
    [](state[s] = "Stopped" /\ Quiet(s) /\ s \notin connected
         => [](state[s] = "Stopped" /\ s \notin connected))

\* docs/LIVE_TRADING_GUIDE.md: emergency_stop() "always disconnects the market
\* feed, and always drives the session to `Stopped`. There is no
\* 'un-emergency-stop'".
EmergencyStopHolds ==
  \A s \in halted : state[s] \in {"Stopping", "Stopped"} /\ s \notin connected

=============================================================================

----------------------------- MODULE RuntimeHost ----------------------------
(***************************************************************************)
(* DashboardRuntimeService hosting RuntimeEngine: the action endpoints,    *)
(* which one lock serialises, and the background threads they spawn, each  *)
(* running RuntimeEngine.run() on a session and taking no lock at all.     *)
(* What a thread does between two points where the interpreter may switch  *)
(* is one step: a controller transition, the iterator's next(), an append. *)
(* process_candle is the interval between AppendCandle and CountCandle, in *)
(* which a thread may close a position, forget it, and open one; what it   *)
(* decides and computes there is TradeCycle's.                             *)
(*                                                                         *)
(* A refused request (HTTP 409) changes nothing and is not a step.  The    *)
(* dashboard leaves auto_stop_on_completion on and maximum_candles unset   *)
(* in the EngineConfig; replay() shortens the data source instead.         *)
(***************************************************************************)
EXTENDS Integers, Sequences, FiniteSets

CONSTANTS
  Endpoints,    \* the action endpoints clients call
  DatasetSizes, \* lengths a session's candle source may have
  MaxRequests,  \* bound: accepted requests per behaviour
  MaxSessions   \* bound: sessions built per behaviour

ASSUME HostAssumption ==
  /\ Endpoints \subseteq {"start", "pause", "resume", "stop", "replay"}
  /\ DatasetSizes \subseteq Nat
  /\ MaxRequests \in Nat /\ MaxSessions \in Nat \ {0}

VARIABLES
  sessions,  \* every session built; the last is the service's _session
  runners,   \* every thread spawned
  lock,      \* "free", or "replay" while replay() is between its two steps
  requests   \* accepted requests so far

vars == <<sessions, runners, lock, requests>>

SessionStates == {"NOT_STARTED", "RUNNING", "PAUSED", "STOPPED", "ENDED"}

Session == [state : SessionStates,   \* SessionController._state
            size : Nat,              \* len(market_data_source)
            taken : Nat,             \* candles the iterator has handed out
            history : Seq(Nat),      \* RuntimeEngine._history
            processed : Nat]         \* RuntimeEngine._processed_count

Points == {"run", "start", "resume", "step", "next", "append", "process", "exiting",
           "exited", "entered", "auto_stop", "returned", "raised"}

Runner == [session : Nat, at : Points, candle : Nat,
           beaten : BOOLEAN]   \* what it has read of the book may be out of date

NoCandle == 0

-----------------------------------------------------------------------------
(* The session state machine *)

SESSION_STATE_TRANSITIONS ==
  [NOT_STARTED |-> {"RUNNING"},
   RUNNING |-> {"PAUSED", "STOPPED", "ENDED"},
   PAUSED |-> {"RUNNING", "STOPPED", "ENDED"},
   STOPPED |-> {"RUNNING", "ENDED"},
   ENDED |-> {"RUNNING"}]

CanMove(s, goal) == goal \in SESSION_STATE_TRANSITIONS[sessions[s].state]

Moved(s, goal) == [sessions EXCEPT ![s].state = goal]

Current == Len(sessions)
HasSession == sessions # <<>>

-----------------------------------------------------------------------------
(* Endpoints.  All but replay do one thing under the lock.                 *)

Accept(endpoint) ==
  /\ endpoint \in Endpoints
  /\ lock = "free" /\ requests < MaxRequests
  /\ requests' = requests + 1

NewSession(size) ==
  [state |-> "NOT_STARTED", size |-> size, taken |-> 0, history |-> <<>>, processed |-> 0]

SpawnThread(s) ==
  runners' = Append(runners, [session |-> s, at |-> "run", candle |-> NoCandle,
                               beaten |-> FALSE])

Build(kept) ==
  /\ \E size \in DatasetSizes : sessions' = Append(kept, NewSession(size))
  /\ SpawnThread(Len(kept) + 1)

Start ==
  /\ Accept("start")
  /\ ~HasSession
  /\ Build(sessions)
  /\ UNCHANGED lock

Pause ==
  /\ Accept("pause")
  /\ HasSession /\ CanMove(Current, "PAUSED")
  /\ sessions' = Moved(Current, "PAUSED")
  /\ UNCHANGED <<runners, lock>>

\* The state stays PAUSED until the new thread's run() resumes the session.
Resume ==
  /\ Accept("resume")
  /\ HasSession /\ sessions[Current].state = "PAUSED"
  /\ SpawnThread(Current)
  /\ UNCHANGED <<sessions, lock>>

Stop ==
  /\ Accept("stop")
  /\ HasSession /\ CanMove(Current, "STOPPED")
  /\ sessions' = Moved(Current, "STOPPED")
  /\ UNCHANGED <<runners, lock>>

\* Mutant: replay() stops a RUNNING session only.
StopsRunningOnly == HasSession /\ sessions[Current].state = "RUNNING"

MustStop == HasSession /\ sessions[Current].state \in {"RUNNING", "PAUSED"}

\* replay() reads the state of the old session...
Replay ==
  /\ Accept("replay")
  /\ Len(sessions) < MaxSessions
  /\ IF MustStop THEN lock' = "replay" /\ UNCHANGED <<sessions, runners>>
                 ELSE Build(sessions) /\ UNCHANGED lock

\* ...and stops it in a step of its own: if the session's thread has stopped it
\* meanwhile, the transition raises out of the endpoint and nothing is built.
ReplayStops ==
  /\ lock = "replay" /\ lock' = "free"
  /\ IF CanMove(Current, "STOPPED") THEN Build(Moved(Current, "STOPPED"))
                                    ELSE UNCHANGED <<sessions, runners>>
  /\ UNCHANGED requests

-----------------------------------------------------------------------------
(* Threads *)

SessionOf(r) == runners[r].session
At(r, point) == r \in DOMAIN runners /\ runners[r].at = point
GoTo(r, point) == runners' = [runners EXCEPT ![r].at = point]
Alive(r) == runners[r].at \notin {"returned", "raised"}
RunnersOf(s) == {r \in DOMAIN runners : SessionOf(r) = s}

ByThread == UNCHANGED <<lock, requests>>

\* Mutant: run() forgets that a paused session must be resumed.
ReadStateOnce(r) ==
  /\ At(r, "run")
  /\ GoTo(r, IF sessions[SessionOf(r)].state = "NOT_STARTED" THEN "start" ELSE "step")
  /\ UNCHANGED sessions /\ ByThread

\* run(): the state is read here and acted on later.
ReadState(r) ==
  /\ At(r, "run")
  /\ GoTo(r, CASE sessions[SessionOf(r)].state = "NOT_STARTED" -> "start"
               [] sessions[SessionOf(r)].state = "PAUSED" -> "resume"
               [] sessions[SessionOf(r)].state \in {"STOPPED", "ENDED"} -> "returned"
               [] OTHER -> "step")
  /\ UNCHANGED sessions /\ ByThread

\* controller.start() and controller.resume() are the same transition; an
\* illegal one raises out of run() and ends the thread.
EnterRunning(r) ==
  /\ At(r, "start") \/ At(r, "resume")
  /\ IF CanMove(SessionOf(r), "RUNNING")
     THEN sessions' = Moved(SessionOf(r), "RUNNING") /\ GoTo(r, "step")
     ELSE GoTo(r, "raised") /\ UNCHANGED sessions
  /\ ByThread

CheckState(r) ==
  /\ At(r, "step")
  /\ GoTo(r, IF sessions[SessionOf(r)].state = "RUNNING" THEN "next" ELSE "returned")
  /\ UNCHANGED sessions /\ ByThread

\* Mutant: the next candle is found by the length of the history, no iterator.
TakeByHistory(r) ==
  /\ At(r, "next")
  /\ LET s == SessionOf(r)
         next == Len(sessions[s].history) + 1
     IN  IF next <= sessions[s].size
         THEN /\ sessions' = [sessions EXCEPT ![s].taken = next]
              /\ runners' = [runners EXCEPT ![r].at = "append", ![r].candle = next]
         ELSE GoTo(r, "auto_stop") /\ UNCHANGED sessions
  /\ ByThread

TakeCandle(r) ==
  /\ At(r, "next")
  /\ LET s == SessionOf(r)
     IN  IF sessions[s].taken < sessions[s].size
         THEN /\ sessions' = [sessions EXCEPT ![s].taken = @ + 1]
              /\ runners' = [runners EXCEPT ![r].at = "append",
                                            ![r].candle = sessions[s].taken + 1]
         ELSE GoTo(r, "auto_stop") /\ UNCHANGED sessions
  /\ ByThread

AppendCandle(r) ==
  /\ At(r, "append")
  /\ sessions' = [sessions EXCEPT ![SessionOf(r)].history = Append(@, runners[r].candle)]
  /\ GoTo(r, "process")
  /\ ByThread

InProcess == {"process", "exiting", "exited", "entered"}

Inside(s) == {q \in DOMAIN runners : SessionOf(q) = s /\ runners[q].at \in InProcess}

\* r goes on, having just changed the book under everybody else in process_candle.
BeatOthers(r, point) ==
  runners' = [q \in DOMAIN runners |->
    IF q = r THEN [runners[q] EXCEPT !.at = point, !.beaten = FALSE]
    ELSE IF q \in Inside(SessionOf(r)) THEN [runners[q] EXCEPT !.beaten = TRUE]
    ELSE runners[q]]

\* _check_exit: the position is CLOSED; _open_position_id still points at it...
ClosePosition(r) ==
  /\ At(r, "process")
  /\ GoTo(r, "exiting")
  /\ UNCHANGED sessions /\ ByThread

\* ...until it is set to None.
ForgetPosition(r) ==
  /\ At(r, "exiting")
  /\ BeatOthers(r, "exited")
  /\ UNCHANGED sessions /\ ByThread

\* _evaluate_entry adds a position to the book and points at it.
OpenPosition(r) ==
  /\ At(r, "process") \/ At(r, "exited")
  /\ BeatOthers(r, "entered")
  /\ UNCHANGED sessions /\ ByThread

CountCandle(r) ==
  /\ At(r, "process") \/ At(r, "exited") \/ At(r, "entered")
  /\ sessions' = [sessions EXCEPT ![SessionOf(r)].processed = @ + 1]
  /\ runners' = [runners EXCEPT ![r].at = "step", ![r].candle = NoCandle, ![r].beaten = FALSE]
  /\ ByThread

\* A thread raises when the position it is about to exit or to mark is CLOSED, when
\* _open_position_id has become None since it looked, or when the book grows while
\* it iterates over it: only by what another thread is doing or has done meanwhile.
LoseRace(r) ==
  /\ At(r, "process") \/ At(r, "exited") \/ At(r, "entered")
  /\ \/ runners[r].beaten
     \/ \E q \in RunnersOf(SessionOf(r)) : q # r /\ At(q, "exiting")
  /\ GoTo(r, "raised")
  /\ UNCHANGED sessions /\ ByThread

\* Mutant: auto_stop_on_completion is ignored.
ReturnWithoutStop(r) == At(r, "auto_stop") /\ GoTo(r, "returned") /\ UNCHANGED sessions /\ ByThread

\* Stopping a session somebody else has just stopped raises.
AutoStop(r) ==
  /\ At(r, "auto_stop")
  /\ IF CanMove(SessionOf(r), "STOPPED")
     THEN sessions' = Moved(SessionOf(r), "STOPPED") /\ GoTo(r, "returned")
     ELSE GoTo(r, "raised") /\ UNCHANGED sessions
  /\ ByThread

Proceed(r) ==
  \/ ReadState(r) \/ EnterRunning(r) \/ CheckState(r) \/ TakeCandle(r)
  \/ AppendCandle(r) \/ ClosePosition(r) \/ ForgetPosition(r) \/ OpenPosition(r)
  \/ CountCandle(r) \/ LoseRace(r) \/ AutoStop(r)

-----------------------------------------------------------------------------
Init ==
  /\ sessions = <<>> /\ runners = <<>>
  /\ lock = "free"
  /\ requests = 0

Next ==
  \/ Start \/ Pause \/ Resume \/ Stop \/ Replay \/ ReplayStops
  \/ \E r \in DOMAIN runners : Proceed(r)

Spec == Init /\ [][Next]_vars

\* The operating system runs every thread in the end, the request handler's
\* included; nobody is obliged to send a request.
FairSpec == Spec /\ WF_vars(ReplayStops) /\ \A r \in 1 .. MaxRequests : WF_vars(Proceed(r))

-----------------------------------------------------------------------------
(* Properties *)

TypeOK ==
  /\ sessions \in Seq(Session) /\ runners \in Seq(Runner)
  /\ \A r \in DOMAIN runners : SessionOf(r) \in DOMAIN sessions
  /\ lock \in {"free", "replay"} /\ (lock = "replay" => HasSession)
  /\ requests \in Nat

\* Whatever threads step a session, each candle the source hands out reaches the
\* history exactly once, and _processed_count is what was appended less what is
\* inside process_candle or was lost with a thread that raised there.
CandlesAccounted ==
  \A s \in DOMAIN sessions :
    LET history == sessions[s].history
        held == {r \in RunnersOf(s) : At(r, "append")}
        unfinished == {r \in RunnersOf(s) : ~At(r, "append") /\ runners[r].candle # NoCandle}
    IN  /\ {history[i] : i \in DOMAIN history} \cup {runners[r].candle : r \in held}
             = 1 .. sessions[s].taken
        /\ Len(history) + Cardinality(held) = sessions[s].taken
        /\ sessions[s].processed + Cardinality(unfinished) = Len(history)

\* No order of requests, thread switches and lost races leaves a session RUNNING
\* with no thread left to step it or to stop it.
RunningIsDriven ==
  \A s \in DOMAIN sessions :
    sessions[s].state = "RUNNING" => \E r \in RunnersOf(s) : Alive(r)

\* The README's "One background thread per session": process_candle, which takes
\* no lock, is never inside two calls of one session at once.
OneCandleAtATime == \A s \in DOMAIN sessions : Cardinality(Inside(s)) <= 1

\* EventProcessor reads its history as a time series: it is in candle order.
HistoryInOrder ==
  \A s \in DOMAIN sessions :
    \A i, j \in DOMAIN sessions[s].history :
      i < j => sessions[s].history[i] < sessions[s].history[j]

\* ENGINE_RUNTIME.md: replay() is the one action that re-enters Running from
\* Stopped, so a session somebody stopped stays stopped.
StopIsFinal ==
  [][\A s \in DOMAIN sessions :
       sessions[s].state = "STOPPED" => sessions'[s].state = "STOPPED"]_vars

\* A session replay() has discarded, even one it failed to stop, in the end is
\* stopped and stays so: nothing can pause it, and its data runs out.
DiscardedSettles ==
  \A s \in 1 .. MaxSessions :
    s < Current ~> [](s \in DOMAIN sessions /\ sessions[s].state = "STOPPED")

\* An accepted resume takes effect: as long as a thread has not yet read the
\* state, a PAUSED session will leave PAUSED.
ResumeTakesEffect ==
  \A s \in 1 .. MaxSessions :
    (s \in DOMAIN sessions /\ sessions[s].state = "PAUSED" /\ \E r \in RunnersOf(s) : At(r, "run"))
      ~> (s \in DOMAIN sessions /\ sessions[s].state # "PAUSED")

=============================================================================

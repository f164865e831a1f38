--------------------------- MODULE DashboardClient ---------------------------
(***************************************************************************)
(* The browser's two services, RestDashboardService and                    *)
(* SignalEngineService, polling one backend over HTTP.  Both poll on an    *)
(* interval whether or not the last poll has been answered, drop what      *)
(* fails, and after a button's requests, however they end, poll once more. *)
(* The backend answers requests in any order, and so does the network.     *)
(*                                                                         *)
(* What a response says is reduced to the version of the backend it was    *)
(* read from; the five requests of one refresh of the signals page, shown  *)
(* together or not at all, to the oldest of theirs.  The backend is        *)
(* DashboardRuntimeService and SignalEngineRuntimeService as their callers *)
(* see them: what their threads do in between is the business of           *)
(* RuntimeHost and LiveSession.  The services share nothing but that       *)
(* backend: a behaviour follows the polls of one, the buttons of both.     *)
(***************************************************************************)
EXTENDS Naturals, Sequences

CONSTANTS
  None,         \* no answer yet
  Timeout,      \* apiTimeoutMs, in polling intervals
  MaxClicks,    \* bound: buttons pressed
  MaxProgress   \* bound: changes the engines make by themselves

ASSUME ClientAssumption ==
  Timeout \in Nat \ {0} /\ MaxClicks \in Nat /\ MaxProgress \in Nat

VARIABLES
  page,       \* the service whose polls are followed
  runtime,    \* the state of DashboardRuntimeService._session, "none" without one
  signals,    \* whether SignalEngineRuntimeService has a context
  version,    \* the backend's state, counted from 1 when the page is loaded
  progress,   \* those of them the engines made by themselves
  requests,   \* the requests the browser still waits for
  orphans,    \* POSTs it has given up that may still reach the backend
  clicks,     \* the buttons pressed, and how far each has come
  shown,      \* the version of the page's snapshot, 0 for the empty one
  past        \* history: version at the last Timeout + 1 ticks, oldest first

backendVars == <<runtime, signals, version, progress>>
clientVars == <<page, backendVars, requests, orphans, clicks, shown, past>>

Services == {"dashboard", "signals"}
RuntimeStates == {"none", "Running", "Paused", "Stopped"}

\* The POSTs behind each button, in the order they are awaited.
DashboardButtons ==
  {<<"runtime/start">>, <<"runtime/pause">>, <<"runtime/resume">>, <<"runtime/stop">>, <<"runtime/replay">>}
SignalsStart == <<"runtime/start", "signals/start">>
SignalsStop == <<"signals/stop", "runtime/stop">>
Buttons(s) == IF s = "dashboard" THEN DashboardButtons ELSE {SignalsStart, SignalsStop}
Posts == {"runtime/start", "runtime/pause", "runtime/resume", "runtime/stop",
          "runtime/replay", "signals/start", "signals/stop"}

Versions == 1 .. 1 + MaxProgress + 2 * MaxClicks
Replies == [ok : BOOLEAN, ver : Versions]
ASSUME NoneAssumption == None \notin Replies

Clicks == [svc : Services, posts : UNION {Buttons(s) : s \in Services}, next : 1 .. 3,
           outcome : {"open", "done", "conflict", "cut"}, seen : Versions \cup {0}]

\* A fetch in flight: a refresh of the page, or a POST of click c.  The
\* interval's refreshes belong to click 0.
Request(c, ask) == [click |-> c, ask |-> ask, age |-> 0, reply |-> None]
Refresh(c) == Request(c, "refresh")
RefreshAfter(c) == IF clicks[c].svc = page THEN {Refresh(c)} ELSE {}

-----------------------------------------------------------------------------
(***************************************************************************)
(* The backend                                                             *)
(***************************************************************************)
\* The conditions under which a POST is not answered with a 409.
Allowed(post) ==
  CASE post = "runtime/start"  -> runtime = "none"
    [] post = "runtime/pause"  -> runtime = "Running"
    [] post = "runtime/resume" -> runtime = "Paused"
    [] post = "runtime/stop"   -> runtime \in {"Running", "Paused"}
    [] post = "runtime/replay" -> TRUE
    [] post = "signals/start"  -> ~signals
    [] post = "signals/stop"   -> signals

\* One POST at the backend: its effect, or a conflict that changes nothing.
Process(post) ==
  IF Allowed(post)
    THEN /\ version' = version + 1
         /\ runtime' = CASE post \in {"runtime/start", "runtime/resume", "runtime/replay"} -> "Running"
                         [] post = "runtime/pause" -> "Paused"
                         [] post = "runtime/stop" -> "Stopped"
                         [] OTHER -> runtime
         /\ signals' = CASE post = "signals/start" -> TRUE
                         [] post = "signals/stop" -> FALSE
                         [] OTHER -> signals
         /\ UNCHANGED progress
    ELSE UNCHANGED backendVars

\* The engines process a candle, or the runtime's data runs out.
EngineMoves ==
  /\ progress < MaxProgress
  /\ runtime = "Running" \/ signals
  /\ progress' = progress + 1
  /\ version' = version + 1
  /\ runtime' \in IF runtime = "Running" THEN {"Running", "Stopped"} ELSE {runtime}
  /\ UNCHANGED <<page, signals, requests, orphans, clicks, shown, past>>

\* The backend answers a request; the answer is on its way.
Answer(r) ==
  /\ r.reply = None
  /\ IF r.ask \in Posts THEN Process(r.ask) ELSE UNCHANGED backendVars
  /\ requests' = (requests \ {r}) \cup
       {[r EXCEPT !.reply = [ok |-> r.ask \in Posts => Allowed(r.ask), ver |-> version']]}
  /\ UNCHANGED <<page, orphans, clicks, shown, past>>

\* A POST nobody waits for any more reaches the backend, or never does.
OrphanArrives(o) ==
  /\ orphans' = orphans \ {o}
  /\ Process(o[2]) \/ UNCHANGED backendVars
  /\ UNCHANGED <<page, requests, clicks, shown, past>>

-----------------------------------------------------------------------------
(***************************************************************************)
(* The browser                                                             *)
(***************************************************************************)
\* Mutant: a button that refreshes at once, beside its first request.
AskedAndRefreshed(c, posts) == {Request(c, posts[1]), Refresh(c)}
Asked(c, posts) == {Request(c, posts[1])}

Click(s, posts) ==
  LET c == Len(clicks) + 1 IN
  /\ c <= MaxClicks
  /\ clicks' = Append(clicks, [svc |-> s, posts |-> posts, next |-> 1, outcome |-> "open", seen |-> 0])
  /\ requests' = requests \cup Asked(c, posts)
  /\ UNCHANGED <<page, backendVars, orphans, shown, past>>

InTime(r) == r.age < Timeout
\* Mutant: requests are never aborted.
MayLinger(r) == TRUE
MayAge(r) == InTime(r)

\* Mutant: a timer that does not repeat.
NoPolls == {}
Polls == {Refresh(0)}

\* setInterval fires, and polls; no request outlives its timeout.
Tick ==
  /\ \A r \in requests : MayAge(r)
  /\ requests' = {[r EXCEPT !.age = IF InTime(r) THEN @ + 1 ELSE @] : r \in requests} \cup Polls
  /\ past' = Append(Tail(past), version)
  /\ UNCHANGED <<page, backendVars, orphans, clicks, shown>>

\* A refresh has come back: it is shown, whatever was shown before.
Show(r) ==
  /\ r.ask = "refresh" /\ r.reply # None
  /\ shown' = r.reply.ver
  /\ requests' = requests \ {r}
  /\ UNCHANGED <<page, backendVars, orphans, clicks, past>>

\* A POST is answered: the next one is sent, or the button is through and its
\* service refreshes.
Advance(r) ==
  LET c == r.click
      next == clicks[c].next + 1
      more == r.reply.ok /\ next <= Len(clicks[c].posts)
  IN /\ r.ask \in Posts /\ r.reply # None
     /\ clicks' = [clicks EXCEPT
          ![c].next = IF r.reply.ok THEN next ELSE @,
          ![c].outcome = IF more THEN @ ELSE IF r.reply.ok THEN "done" ELSE "conflict",
          ![c].seen = r.reply.ver]
     /\ requests' = (requests \ {r}) \cup
          (IF more THEN {Request(c, clicks[c].posts[next])} ELSE RefreshAfter(c))
     /\ UNCHANGED <<page, backendVars, orphans, shown, past>>

\* A POST fails in the network or is aborted at its timeout: it ends its
\* button, and may yet be processed.
Lose(r) ==
  /\ r.ask \in Posts
  /\ clicks' = [clicks EXCEPT ![r.click].outcome = "cut"]
  /\ requests' = (requests \ {r}) \cup RefreshAfter(r.click)
  /\ orphans' = orphans \cup (IF r.reply = None THEN {<<r.click, r.ask>>} ELSE {})
  /\ UNCHANGED <<page, backendVars, shown, past>>

\* A refresh is dropped.  One that failed in the network is one nothing is heard
\* of until its time is up.
Drop(r) ==
  /\ r.ask = "refresh" /\ ~InTime(r)
  /\ requests' = requests \ {r}
  /\ UNCHANGED <<page, backendVars, orphans, clicks, shown, past>>

-----------------------------------------------------------------------------
\* A page is loaded, over a backend in any state, and sends its first poll.
ClientInit ==
  /\ page \in Services
  /\ runtime \in RuntimeStates /\ signals \in BOOLEAN
  /\ version = 1 /\ progress = 0
  /\ requests = {Refresh(0)} /\ orphans = {} /\ clicks = <<>>
  /\ shown = 0 /\ past = [i \in 1 .. Timeout + 1 |-> 1]

ClientNext ==
  \/ EngineMoves
  \/ Tick
  \/ \E s \in Services : \E posts \in Buttons(s) : Click(s, posts)
  \/ \E o \in orphans : OrphanArrives(o)
  \/ \E r \in requests : Answer(r) \/ Show(r) \/ Advance(r) \/ Lose(r) \/ Drop(r)

\* Timers fire and the event loop handles what has come.  The network is not
\* down for ever: refreshes that can be answered, and shown, again and again
\* are answered and shown again and again.
ClientSpec == ClientInit /\ [][ClientNext]_clientVars
FairSpec ==
  /\ ClientSpec
  /\ WF_clientVars(Tick)
  /\ WF_clientVars(\E r \in requests : Drop(r) \/ Advance(r) \/ (~InTime(r) /\ Lose(r)))
  /\ SF_clientVars(\E r \in requests : r.ask = "refresh" /\ Answer(r))
  /\ SF_clientVars(\E r \in requests : Show(r))

-----------------------------------------------------------------------------
ClientTypeOK ==
  /\ page \in Services /\ runtime \in RuntimeStates /\ signals \in BOOLEAN
  /\ version \in Versions /\ progress \in 0 .. MaxProgress /\ shown \in 0 .. version
  /\ \A r \in requests :
       /\ r.click \in 0 .. Len(clicks) /\ r.ask \in Posts \cup {"refresh"}
       /\ r.age \in 0 .. Timeout /\ r.reply \in Replies \cup {None}
  /\ orphans \subseteq (1 .. MaxClicks) \X Posts
  /\ \A c \in DOMAIN clicks : clicks[c] \in Clicks
  /\ Len(past) = Timeout + 1

\* Polls overlap and their answers may overtake each other, so the display can
\* go back; but never to anything the backend had left behind a timeout before.
ShowsRecent == []ClientTypeOK /\ [][shown' # shown => shown' >= past[1]]_clientVars

\* A refresh that belongs to a button is shown only when the button is through,
\* and then the display knows of every answer the button got: clicking
\* reflects its result.
ReflectsClick ==
  [][\A r \in requests : r.click > 0 /\ Show(r) =>
       clicks[r.click].outcome # "open" /\ shown' >= clicks[r.click].seen]_clientVars

\* Once the backend has come to rest, the page comes to show it and goes on
\* showing it, however many polls have failed before.
ShownCatchesUp == <>[](shown = version)

\* The signals page's start calls the signal engine's start endpoint, as the
\* test of SignalEngineService.start() says it does, unless its first request
\* is lost.
StartReachesEngine ==
  \A c \in DOMAIN clicks :
    clicks[c].posts = SignalsStart /\ clicks[c].outcome \in {"done", "conflict"} => clicks[c].next > 1
=============================================================================

-------------------------- MODULE RuntimeHostProofs -------------------------
(***************************************************************************)
(* Proofs about RuntimeHost.  TypeOK, RunningIsDriven and CandlesAccounted *)
(* hold whatever clients call: sessions with several threads included.     *)
(* The rest is about clients that never resume: then                       *)
(* session r and thread r are built together and belong to each other for  *)
(* good, which is what Solo states and what the other results rest on.     *)
(***************************************************************************)
EXTENDS RuntimeHost, FiniteSetTheorems, SequenceTheorems, TLAPS

-----------------------------------------------------------------------------
(* Who drives a RUNNING session *)

\* A thread that goes on as long as its session is RUNNING: what it has read of
\* the book cannot make it raise.  The last thread to change the book is one.
Drives(R) ==
  \/ R.at \in {"step", "next", "append", "exiting", "auto_stop"}
  \/ R.at \in {"process", "exited", "entered"} /\ R.beaten = FALSE

\* Only a thread in process_candle, or one that raised there, has been beaten.
Calm(R) == R.beaten # FALSE => R.at \in InProcess \cup {"raised"}

Driven ==
  /\ \A s \in DOMAIN sessions :
       sessions[s].state = "RUNNING" => \E r \in RunnersOf(s) : Drives(runners[r])
  /\ \A r \in DOMAIN runners : Calm(runners[r])

-----------------------------------------------------------------------------
(* What a thread and its session satisfy as long as nobody resumes *)

\* Thread R is alone in the session S, and S is where R has brought it.
Fits(R, S) ==
  /\ R.beaten = FALSE
  /\ R.at # "resume"
  /\ R.at \in {"run", "start"} => S.state = "NOT_STARTED"
  /\ R.at \in {"returned", "raised"} => S.state # "RUNNING"
  /\ S.taken = Len(S.history) + (IF R.at = "append" THEN 1 ELSE 0)
  /\ R.at = "append" => R.candle = S.taken
  /\ \A i \in DOMAIN S.history : S.history[i] = i

Solo ==
  /\ Len(runners) = Len(sessions)
  /\ \A r \in DOMAIN runners : runners[r].session = r /\ Fits(runners[r], sessions[r])

\* A stopped session stays stopped from old to new.
KeepsStopped(old, new) == old.state = "STOPPED" => new.state = "STOPPED"

-----------------------------------------------------------------------------
(* The step of a thread *)

\* The step of thread r puts S in the place of its session and R in its own.
Replaces(r, R, S) ==
  /\ R \in Runner /\ R.session = SessionOf(r)
  /\ S \in Session
  /\ sessions' = [sessions EXCEPT ![SessionOf(r)] = S]
  /\ runners' = [runners EXCEPT ![r] = R]

\* If the step leaves its session RUNNING, the thread drives it or another does.
HandsOver(r, R, S) ==
  S.state = "RUNNING"
    => Drives(R) \/ \E q \in RunnersOf(SessionOf(r)) : q # r /\ Drives(runners[q])

\* What is kept of Driven and of Solo.
Keeps(r, R, S) ==
  /\ Driven => Calm(R) /\ HandsOver(r, R, S)
  /\ Solo => Fits(R, S) /\ KeepsStopped(sessions[SessionOf(r)], S)

Advances(r) == \E R, S : Replaces(r, R, S) /\ Keeps(r, R, S)

-----------------------------------------------------------------------------
(* Sequences *)

\* Replacing one element of a sequence.
LEMMA SeqUpdate ==
  ASSUME NEW T, NEW q \in Seq(T), NEW i \in DOMAIN q, NEW x \in T
  PROVE  /\ [q EXCEPT ![i] = x] \in Seq(T)
         /\ Len([q EXCEPT ![i] = x]) = Len(q)
         /\ DOMAIN [q EXCEPT ![i] = x] = DOMAIN q
         /\ [q EXCEPT ![i] = x][i] = x
         /\ \A j \in DOMAIN q : j # i => [q EXCEPT ![i] = x][j] = q[j]
  BY SMT

\* Appending one element to a sequence.
LEMMA SeqAppend ==
  ASSUME NEW T, NEW q \in Seq(T), NEW x \in T
  PROVE  /\ Append(q, x) \in Seq(T)
         /\ Len(Append(q, x)) = Len(q) + 1
         /\ \A i \in DOMAIN q : Append(q, x)[i] = q[i]
         /\ Append(q, x)[Len(q) + 1] = x
         /\ DOMAIN Append(q, x) = DOMAIN q \cup {Len(q) + 1}
  BY SMT

-----------------------------------------------------------------------------
(* One lemma per thread action *)

\* A thread and its session are well typed, and fit each other when alone.
LEMMA Alone ==
  ASSUME TypeOK, NEW r \in DOMAIN runners
  PROVE  /\ runners[r] \in Runner
         /\ SessionOf(r) \in DOMAIN sessions
         /\ sessions[SessionOf(r)] \in Session
         /\ Solo => SessionOf(r) = r /\ Fits(runners[r], sessions[SessionOf(r)])
         /\ Driven => Calm(runners[r])
  BY SMT DEF TypeOK, SessionOf, Solo, Driven

\* Where a thread does not drive its RUNNING session, another one does.
LEMMA OthersDrive ==
  ASSUME TypeOK, Driven, NEW r \in DOMAIN runners, ~Drives(runners[r]),
         sessions[SessionOf(r)].state = "RUNNING"
  PROVE  \E q \in RunnersOf(SessionOf(r)) : q # r /\ Drives(runners[q])
  BY Alone DEF Driven

\* Steps that only move the thread to another point.
LEMMA GoesTo ==
  ASSUME TypeOK, NEW r \in DOMAIN runners, NEW point \in Points,
         GoTo(r, point), UNCHANGED sessions,
         Keeps(r, [runners[r] EXCEPT !.at = point], sessions[SessionOf(r)])
  PROVE  Advances(r)
<1> DEFINE R == [runners[r] EXCEPT !.at = point]
           S == sessions[SessionOf(r)]
<1>1. runners[r] \in Runner /\ SessionOf(r) \in DOMAIN sessions /\ S \in Session
  BY Alone
<1>2. R \in Runner
  BY <1>1 DEF Runner
<1>3. R.session = SessionOf(r)
  BY <1>1 DEF Runner, SessionOf
<1>4. sessions' = [sessions EXCEPT ![SessionOf(r)] = S]
  BY <1>1 DEF TypeOK
<1>5. runners' = [runners EXCEPT ![r] = R]
  BY DEF GoTo
<1>6. Replaces(r, R, S)
  BY <1>1, <1>2, <1>3, <1>4, <1>5 DEF Replaces
<1> QED
  BY <1>6 DEF Advances

\* Steps that move the thread and make a transition of its controller.
LEMMA MovesTo ==
  ASSUME TypeOK, NEW r \in DOMAIN runners, NEW point \in Points, NEW goal \in SessionStates,
         GoTo(r, point), sessions' = Moved(SessionOf(r), goal),
         Keeps(r, [runners[r] EXCEPT !.at = point],
                  [sessions[SessionOf(r)] EXCEPT !.state = goal])
  PROVE  Advances(r)
<1> DEFINE R == [runners[r] EXCEPT !.at = point]
           S == [sessions[SessionOf(r)] EXCEPT !.state = goal]
<1>1. runners[r] \in Runner /\ SessionOf(r) \in DOMAIN sessions
      /\ sessions[SessionOf(r)] \in Session
  BY Alone
<1>2. R \in Runner
  BY <1>1 DEF Runner
<1>3. R.session = SessionOf(r)
  BY <1>1 DEF Runner, SessionOf
<1>4. S \in Session
  BY <1>1 DEF Session
<1>5. sessions' = [sessions EXCEPT ![SessionOf(r)] = S]
  BY DEF Moved
<1>6. runners' = [runners EXCEPT ![r] = R]
  BY DEF GoTo
<1>7. Replaces(r, R, S)
  BY <1>2, <1>3, <1>4, <1>5, <1>6 DEF Replaces
<1> QED
  BY <1>7 DEF Advances

\* Moving between two points outside AppendCandle keeps the fit, as long as the
\* session's state suits the new point.
LEMMA FitsAt ==
  ASSUME NEW R \in Runner, NEW S \in Session, NEW point \in Points \ {"resume", "append"},
         Fits(R, S), R.at # "append",
         point \in {"run", "start"} => S.state = "NOT_STARTED",
         point \in {"returned", "raised"} => S.state # "RUNNING"
  PROVE  Fits([R EXCEPT !.at = point], S)
<1> DEFINE Q == [R EXCEPT !.at = point]
<1>1. Q.at = point /\ Q.beaten = R.beaten
  BY DEF Runner
<1> HIDE DEF Q
<1>2. Fits(Q, S)
  BY <1>1 DEF Fits
<1> QED
  BY <1>2 DEF Q

LEMMA FitsMoved ==
  ASSUME NEW R, NEW S \in Session, NEW goal \in SessionStates,
         Fits(R, S), R.at \notin {"run", "start"},
         R.at \in {"returned", "raised"} => goal # "RUNNING"
  PROVE  Fits(R, [S EXCEPT !.state = goal])
<1> DEFINE Q == [S EXCEPT !.state = goal]
<1>1. Q.state = goal /\ Q.taken = S.taken /\ Q.history = S.history
  BY DEF Session
<1> HIDE DEF Q
<1>2. Fits(R, Q)
  BY <1>1 DEF Fits
<1> QED
  BY <1>2 DEF Q

\* A thread outside process_candle goes to a point where it stays calm, and where
\* it drives what is RUNNING.
LEMMA KeepsAt ==
  ASSUME TypeOK, NEW r \in DOMAIN runners, NEW S \in Session, NEW point \in Points,
         runners[r].at \notin InProcess \cup {"raised"},
         S.state # "RUNNING" \/ point \in {"step", "next", "auto_stop"},
         Solo => /\ Fits([runners[r] EXCEPT !.at = point], S)
                 /\ KeepsStopped(sessions[SessionOf(r)], S)
  PROVE  Keeps(r, [runners[r] EXCEPT !.at = point], S)
<1> DEFINE R == [runners[r] EXCEPT !.at = point]
<1>1. runners[r] \in Runner /\ (Driven => Calm(runners[r]))
  BY Alone
<1>2. R.at = point /\ R.beaten = runners[r].beaten
  BY <1>1 DEF Runner
<1> HIDE DEF R
<1>3. Driven => Calm(R) /\ HandsOver(r, R, S)
  BY <1>1, <1>2 DEF Calm, HandsOver, Drives
<1> QED
  BY <1>3 DEF Keeps, R

LEMMA ReadStateAdvances ==
  ASSUME TypeOK, NEW r \in DOMAIN runners, ReadState(r)
  PROVE  Advances(r)
<1> DEFINE S == sessions[SessionOf(r)]
<1>1. runners[r] \in Runner /\ S \in Session /\ runners[r].at = "run" /\ UNCHANGED sessions
      /\ (Solo => Fits(runners[r], S) /\ S.state = "NOT_STARTED")
  BY Alone DEF ReadState, At, Fits
<1>2. KeepsStopped(S, S)
  BY DEF KeepsStopped
<1>3. CASE S.state = "NOT_STARTED"
  <2>1. GoTo(r, "start")
    BY <1>3 DEF ReadState
  <2>2. Solo => Fits([runners[r] EXCEPT !.at = "start"], S)
    BY <1>1, FitsAt DEF Points
  <2>3. Keeps(r, [runners[r] EXCEPT !.at = "start"], S)
    BY <1>1, <1>2, <1>3, <2>2, KeepsAt DEF Points, InProcess
  <2> QED
    BY <1>1, <2>1, <2>3, GoesTo DEF Points
<1>4. CASE S.state # "NOT_STARTED"
  <2>1. PICK point \in {"resume", "returned", "step"} :
          GoTo(r, point) /\ (point # "step" => S.state # "RUNNING")
    BY <1>1, <1>4 DEF ReadState
  <2>2. Keeps(r, [runners[r] EXCEPT !.at = point], S)
    BY <1>1, <1>4, <2>1, KeepsAt DEF Points, InProcess
  <2> QED
    BY <1>1, <2>1, <2>2, GoesTo DEF Points
<1> QED
  BY <1>3, <1>4

LEMMA EnterRunningAdvances ==
  ASSUME TypeOK, NEW r \in DOMAIN runners, EnterRunning(r)
  PROVE  Advances(r)
<1> DEFINE S == sessions[SessionOf(r)]
<1>1. runners[r] \in Runner /\ S \in Session /\ runners[r].at \in {"start", "resume"}
      /\ (Solo => Fits(runners[r], S) /\ S.state = "NOT_STARTED")
  BY Alone DEF EnterRunning, At, Fits
<1>2. CASE CanMove(SessionOf(r), "RUNNING")
  <2>1. sessions' = Moved(SessionOf(r), "RUNNING") /\ GoTo(r, "step")
    BY <1>2 DEF EnterRunning
  <2> DEFINE R == [runners[r] EXCEPT !.at = "step"]
             Q == [S EXCEPT !.state = "RUNNING"]
  <2>2. R.at = "step"
    BY <1>1 DEF Runner
  <2>3. Solo => Fits(R, S)
    BY <1>1, FitsAt DEF Points
  <2> HIDE DEF R
  <2>4. Solo => Fits(R, Q)
    BY <1>1, <2>2, <2>3, FitsMoved DEF SessionStates
  <2>5. Q \in Session
    BY <1>1 DEF Session, SessionStates
  <2>6. Solo => KeepsStopped(S, Q)
    BY <1>1 DEF KeepsStopped
  <2> HIDE DEF Q
  <2>7. Keeps(r, R, Q)
    BY <1>1, <2>4, <2>5, <2>6, KeepsAt DEF R, Points, InProcess
  <2> QED
    BY <1>1, <2>1, <2>7, MovesTo DEF R, Q, Points, SessionStates
<1>3. CASE ~CanMove(SessionOf(r), "RUNNING")
  <2>1. GoTo(r, "raised") /\ UNCHANGED sessions
    BY <1>3 DEF EnterRunning
  <2>2. ~Solo /\ S.state = "RUNNING"
    BY <1>1, <1>3 DEF CanMove, SESSION_STATE_TRANSITIONS, Session, SessionStates
  <2> DEFINE R == [runners[r] EXCEPT !.at = "raised"]
  <2>3. R.at = "raised"
    BY <1>1 DEF Runner
  <2>4. ~Drives(runners[r])
    BY <1>1 DEF Drives
  <2>5. Driven => Calm(R) /\ HandsOver(r, R, S)
    BY <2>2, <2>3, <2>4, OthersDrive DEF Calm, HandsOver
  <2>6. Keeps(r, R, S)
    BY <2>2, <2>5 DEF Keeps
  <2> QED
    BY <2>1, <2>6, GoesTo DEF Points
<1> QED
  BY <1>2, <1>3

LEMMA CheckStateAdvances ==
  ASSUME TypeOK, NEW r \in DOMAIN runners, CheckState(r)
  PROVE  Advances(r)
<1> DEFINE S == sessions[SessionOf(r)]
<1>1. runners[r] \in Runner /\ S \in Session /\ runners[r].at = "step" /\ UNCHANGED sessions
      /\ (Solo => Fits(runners[r], S))
  BY Alone DEF CheckState, At
<1>2. PICK point \in {"next", "returned"} :
        GoTo(r, point) /\ (point = "returned" => S.state # "RUNNING")
  BY DEF CheckState
<1>3. Solo => Fits([runners[r] EXCEPT !.at = point], S)
  BY <1>1, <1>2, FitsAt DEF Points
<1>4. Keeps(r, [runners[r] EXCEPT !.at = point], S)
  BY <1>1, <1>2, <1>3, KeepsAt DEF Points, InProcess, KeepsStopped
<1> QED
  BY <1>1, <1>2, <1>4, GoesTo DEF Points

LEMMA AutoStopAdvances ==
  ASSUME TypeOK, NEW r \in DOMAIN runners, AutoStop(r)
  PROVE  Advances(r)
<1> DEFINE S == sessions[SessionOf(r)]
<1>1. runners[r] \in Runner /\ S \in Session /\ runners[r].at = "auto_stop"
      /\ (Solo => Fits(runners[r], S))
  BY Alone DEF AutoStop, At
<1>2. CASE CanMove(SessionOf(r), "STOPPED")
  <2>1. sessions' = Moved(SessionOf(r), "STOPPED") /\ GoTo(r, "returned")
    BY <1>2 DEF AutoStop
  <2> DEFINE Q == [S EXCEPT !.state = "STOPPED"]
  <2>2. Q \in Session /\ Q.state = "STOPPED"
    BY <1>1 DEF Session, SessionStates
  <2>3. Solo => Fits(runners[r], Q)
    BY <1>1, FitsMoved DEF SessionStates
  <2> HIDE DEF Q
  <2>4. Solo => Fits([runners[r] EXCEPT !.at = "returned"], Q)
    BY <1>1, <2>2, <2>3, FitsAt DEF Points
  <2>5. Keeps(r, [runners[r] EXCEPT !.at = "returned"], Q)
    BY <1>1, <2>2, <2>4, KeepsAt DEF Points, InProcess, KeepsStopped
  <2> QED
    BY <2>1, <2>5, MovesTo DEF Q, Points, SessionStates
<1>3. CASE ~CanMove(SessionOf(r), "STOPPED")
  <2>1. GoTo(r, "raised") /\ UNCHANGED sessions
    BY <1>3 DEF AutoStop
  <2>2. S.state # "RUNNING"
    BY <1>3 DEF CanMove, SESSION_STATE_TRANSITIONS
  <2>3. Solo => Fits([runners[r] EXCEPT !.at = "raised"], S)
    BY <1>1, <2>2, FitsAt DEF Points
  <2>4. Keeps(r, [runners[r] EXCEPT !.at = "raised"], S)
    BY <1>1, <2>2, <2>3, KeepsAt DEF Points, InProcess, KeepsStopped
  <2> QED
    BY <2>1, <2>4, GoesTo DEF Points
<1> QED
  BY <1>2, <1>3

LEMMA ClosePositionAdvances ==
  ASSUME TypeOK, NEW r \in DOMAIN runners, ClosePosition(r)
  PROVE  Advances(r)
<1> DEFINE S == sessions[SessionOf(r)]
           R == [runners[r] EXCEPT !.at = "exiting"]
<1>1. runners[r] \in Runner /\ S \in Session /\ runners[r].at = "process"
      /\ GoTo(r, "exiting") /\ UNCHANGED sessions
      /\ (Solo => Fits(runners[r], S))
  BY Alone DEF ClosePosition, At
<1>2. Solo => Fits(R, S)
  BY <1>1, FitsAt DEF Points
<1>3. R.at = "exiting"
  BY <1>1 DEF Runner
<1> HIDE DEF R
<1>4. Keeps(r, R, S)
  BY <1>2, <1>3 DEF Keeps, Calm, HandsOver, Drives, InProcess, KeepsStopped
<1> QED
  BY <1>1, <1>4, GoesTo DEF R, Points

LEMMA LoseRaceAdvances ==
  ASSUME TypeOK, NEW r \in DOMAIN runners, LoseRace(r)
  PROVE  Advances(r)
<1> DEFINE S == sessions[SessionOf(r)]
           R == [runners[r] EXCEPT !.at = "raised"]
<1>1. /\ runners[r] \in Runner /\ runners[r].at \in {"process", "exited", "entered"}
      /\ GoTo(r, "raised") /\ UNCHANGED sessions
  BY Alone DEF LoseRace, At
<1>2. R.at = "raised"
  BY <1>1 DEF Runner
<1>3. CASE runners[r].beaten # FALSE
  <2>1. ~Solo
    BY <1>3, Alone DEF Fits
  <2>2. ~Drives(runners[r])
    BY <1>1, <1>3 DEF Drives
  <2>3. Driven => HandsOver(r, R, S)
    BY <2>2, OthersDrive DEF HandsOver
  <2> QED
    BY <2>1, <2>3, <1>1, <1>2, GoesTo DEF Keeps, Calm, Points
<1>4. CASE runners[r].beaten = FALSE
  <2>1. PICK q \in RunnersOf(SessionOf(r)) : q # r /\ At(q, "exiting")
    BY <1>4 DEF LoseRace
  <2>2. ~Solo
    BY <2>1 DEF Solo, RunnersOf, SessionOf
  <2>3. HandsOver(r, R, S)
    BY <2>1 DEF HandsOver, Drives, At
  <2> QED
    BY <2>2, <2>3, <1>1, <1>2, GoesTo DEF Keeps, Calm, Points
<1> QED
  BY <1>3, <1>4

LEMMA TakeCandleAdvances ==
  ASSUME TypeOK, NEW r \in DOMAIN runners, TakeCandle(r)
  PROVE  Advances(r)
<1> DEFINE S == sessions[SessionOf(r)]
<1>1. /\ runners[r] \in Runner /\ SessionOf(r) \in DOMAIN sessions
      /\ S \in Session /\ runners[r].at = "next"
      /\ (Solo => Fits(runners[r], S))
  BY Alone DEF TakeCandle, At
<1>2. CASE S.taken < S.size
  <2> DEFINE next == S.taken + 1
             Held == [runners[r] EXCEPT !.at = "append"]
             R == [Held EXCEPT !.candle = next]
             Q == [S EXCEPT !.taken = next]
  <2>1. S.taken \in Nat /\ next \in Nat
    BY <1>1 DEF Session
  <2>2. /\ Held \in Runner
        /\ Held.at = "append" /\ Held.session = SessionOf(r) /\ Held.beaten = runners[r].beaten
    <3>1. Held \in Runner
      BY <1>1 DEF Runner, Points
    <3>2. Held.at = "append" /\ Held.session = SessionOf(r) /\ Held.beaten = runners[r].beaten
      BY <1>1 DEF Runner, SessionOf
    <3> QED  BY <3>1, <3>2
  <2>3. /\ sessions' = [sessions EXCEPT ![SessionOf(r)] = Q]
        /\ runners' = [runners EXCEPT ![r] = R]
    BY <1>2 DEF TakeCandle
  <2>4. next = S.taken + 1
    OBVIOUS
  <2> HIDE DEF next, Held
  <2>5. Q \in Session /\ Q.taken = next /\ Q.history = S.history /\ Q.state = S.state
    BY <1>1, <2>1 DEF Session
  <2> HIDE DEF Q
  <2>6. R \in Runner /\ R.candle = next /\ R.at = "append" /\ R.session = SessionOf(r)
        /\ R.beaten = runners[r].beaten
    BY <2>1, <2>2 DEF Runner
  <2> HIDE DEF R
  <2>7. Replaces(r, R, Q)
    BY <2>3, <2>5, <2>6 DEF Replaces
  <2>8. Solo => Fits(R, Q) /\ KeepsStopped(S, Q)
    BY <1>1, <2>1, <2>4, <2>5, <2>6 DEF Fits, KeepsStopped
  <2>9. Driven => Calm(R) /\ HandsOver(r, R, Q)
    BY <1>1, <2>6, Alone DEF Calm, HandsOver, Drives, InProcess
  <2> QED
    BY <2>7, <2>8, <2>9 DEF Advances, Keeps
<1>3. CASE ~(S.taken < S.size)
  <2>1. GoTo(r, "auto_stop") /\ UNCHANGED sessions
    BY <1>3 DEF TakeCandle
  <2>2. Solo => Fits([runners[r] EXCEPT !.at = "auto_stop"], S)
    BY <1>1, FitsAt DEF Points
  <2>3. Keeps(r, [runners[r] EXCEPT !.at = "auto_stop"], S)
    BY <1>1, <2>2, KeepsAt DEF Points, InProcess, KeepsStopped
  <2> QED
    BY <2>1, <2>3, GoesTo DEF Points
<1> QED
  BY <1>2, <1>3

LEMMA CountCandleAdvances ==
  ASSUME TypeOK, NEW r \in DOMAIN runners, CountCandle(r)
  PROVE  Advances(r)
<1> DEFINE S == sessions[SessionOf(r)]
           Q == [S EXCEPT !.processed = S.processed + 1]
           Out == [runners[r] EXCEPT !.at = "step"]
           Empty == [Out EXCEPT !.candle = NoCandle]
           R == [Empty EXCEPT !.beaten = FALSE]
<1>1. /\ runners[r] \in Runner /\ SessionOf(r) \in DOMAIN sessions
      /\ S \in Session /\ runners[r].at \in {"process", "exited", "entered"}
      /\ (Solo => Fits(runners[r], S))
  BY Alone DEF CountCandle, At
<1>2. S.processed \in Nat /\ S.processed + 1 \in Nat
  BY <1>1 DEF Session
<1>3. /\ Q \in Session
      /\ Q.taken = S.taken /\ Q.history = S.history /\ Q.state = S.state
  BY <1>1, <1>2 DEF Session
<1>4. /\ sessions' = [sessions EXCEPT ![SessionOf(r)] = Q]
      /\ runners' = [runners EXCEPT ![r] = R]
  BY DEF CountCandle
<1>5. Out \in Runner /\ Out.at = "step" /\ Out.session = SessionOf(r)
  <2>1. Out \in Runner
    BY <1>1 DEF Runner, Points
  <2>2. Out.at = "step" /\ Out.session = SessionOf(r)
    BY <1>1 DEF Runner, SessionOf
  <2> QED  BY <2>1, <2>2
<1> HIDE DEF Q, Out
<1>6. Empty \in Runner /\ Empty.at = "step" /\ Empty.session = SessionOf(r)
  BY <1>5 DEF Runner, NoCandle
<1> HIDE DEF Empty
<1>7. R \in Runner /\ R.at = "step" /\ R.session = SessionOf(r) /\ R.beaten = FALSE
  BY <1>6 DEF Runner
<1> HIDE DEF R
<1>8. Replaces(r, R, Q)
  BY <1>3, <1>4, <1>7 DEF Replaces
<1>9. Solo => Fits(R, Q) /\ KeepsStopped(S, Q)
  BY <1>1, <1>3, <1>7 DEF Fits, KeepsStopped
<1>10. Calm(R) /\ HandsOver(r, R, Q)
  BY <1>7 DEF Calm, HandsOver, Drives
<1> QED
  BY <1>8, <1>9, <1>10 DEF Advances, Keeps

LEMMA AppendCandleAdvances ==
  ASSUME TypeOK, NEW r \in DOMAIN runners, AppendCandle(r)
  PROVE  Advances(r)
<1> DEFINE S == sessions[SessionOf(r)]
           h == Append(S.history, runners[r].candle)
           Q == [S EXCEPT !.history = h]
           R == [runners[r] EXCEPT !.at = "process"]
<1>1. /\ runners[r] \in Runner /\ SessionOf(r) \in DOMAIN sessions
      /\ S \in Session /\ runners[r].at = "append"
      /\ (Solo => Fits(runners[r], S)) /\ (Driven => Calm(runners[r]))
  BY Alone DEF AppendCandle, At
<1>2. S.history \in Seq(Nat) /\ runners[r].candle \in Nat /\ S.taken \in Nat
  BY <1>1 DEF Session, Runner
<1>3. h \in Seq(Nat)
  BY <1>2
<1>4. Solo => Len(h) = S.taken /\ \A i \in DOMAIN h : h[i] = i
  <2>1. SUFFICES ASSUME Solo PROVE Len(h) = S.taken /\ \A i \in DOMAIN h : h[i] = i
    OBVIOUS
  <2>2. runners[r].candle = S.taken /\ S.taken = Len(S.history) + 1
        /\ \A i \in DOMAIN S.history : S.history[i] = i
    BY <1>1, <2>1 DEF Fits
  <2> QED
    BY <1>2, <2>2
<1>5. /\ sessions' = [sessions EXCEPT ![SessionOf(r)] = Q]
      /\ runners' = [runners EXCEPT ![r] = R]
  BY DEF AppendCandle, GoTo
<1> HIDE DEF h
<1>6. /\ Q \in Session
      /\ Q.taken = S.taken /\ Q.history = h /\ Q.state = S.state
  BY <1>1, <1>3 DEF Session
<1>7. R \in Runner
  BY <1>1 DEF Runner, Points
<1>8. R.at = "process" /\ R.session = SessionOf(r) /\ R.beaten = runners[r].beaten
  BY <1>1 DEF Runner, SessionOf
<1> HIDE DEF Q, R
<1>9. Replaces(r, R, Q)
  BY <1>5, <1>6, <1>7, <1>8 DEF Replaces
<1>10. Solo => Fits(R, Q) /\ KeepsStopped(S, Q)
  BY <1>1, <1>2, <1>3, <1>4, <1>6, <1>8 DEF Fits, KeepsStopped
<1>11. Driven => Calm(R) /\ HandsOver(r, R, Q)
  BY <1>1, <1>8 DEF Calm, HandsOver, Drives, InProcess
<1> QED
  BY <1>9, <1>10, <1>11 DEF Advances, Keeps

-----------------------------------------------------------------------------
(* What a thread step leaves of the state                                  *)

LEMMA AdvanceFacts ==
  ASSUME TypeOK, NEW r \in DOMAIN runners, NEW R, NEW S, Replaces(r, R, S)
  PROVE  /\ sessions' \in Seq(Session) /\ Len(sessions') = Len(sessions)
         /\ DOMAIN sessions' = DOMAIN sessions /\ sessions'[SessionOf(r)] = S
         /\ \A s \in DOMAIN sessions : s # SessionOf(r) => sessions'[s] = sessions[s]
         /\ runners' \in Seq(Runner) /\ Len(runners') = Len(runners)
         /\ DOMAIN runners' = DOMAIN runners /\ runners'[r] = R
         /\ \A q \in DOMAIN runners : q # r => runners'[q] = runners[q]
         /\ \A q \in DOMAIN runners : runners'[q].session = SessionOf(q)
<1>1. SessionOf(r) \in DOMAIN sessions
  BY Alone
<1>2. /\ sessions' \in Seq(Session) /\ Len(sessions') = Len(sessions)
      /\ DOMAIN sessions' = DOMAIN sessions /\ sessions'[SessionOf(r)] = S
      /\ \A s \in DOMAIN sessions : s # SessionOf(r) => sessions'[s] = sessions[s]
  BY <1>1, SeqUpdate DEF Replaces, TypeOK
<1>3. /\ runners' \in Seq(Runner) /\ Len(runners') = Len(runners)
      /\ DOMAIN runners' = DOMAIN runners /\ runners'[r] = R
      /\ \A q \in DOMAIN runners : q # r => runners'[q] = runners[q]
  BY SeqUpdate DEF Replaces, TypeOK
<1>4. \A q \in DOMAIN runners : runners'[q].session = SessionOf(q)
  BY <1>3 DEF Replaces, SessionOf
<1> QED
  BY <1>2, <1>3, <1>4

LEMMA AdvanceType ==
  ASSUME TypeOK, NEW r \in DOMAIN runners, Advances(r), UNCHANGED <<lock, requests>>
  PROVE  TypeOK'
<1>1. PICK R, S : Replaces(r, R, S)
  BY DEF Advances
<1>2. /\ sessions' \in Seq(Session) /\ Len(sessions') = Len(sessions)
      /\ DOMAIN sessions' = DOMAIN sessions
      /\ runners' \in Seq(Runner) /\ DOMAIN runners' = DOMAIN runners
      /\ \A q \in DOMAIN runners : runners'[q].session = SessionOf(q)
  BY <1>1, AdvanceFacts
<1>3. sessions # <<>> => sessions' # <<>>
  BY <1>2 DEF TypeOK
<1> QED
  BY <1>2, <1>3 DEF TypeOK, SessionOf, HasSession

LEMMA AdvanceDriven ==
  ASSUME TypeOK, Driven, NEW r \in DOMAIN runners, Advances(r)
  PROVE  Driven'
<1>1. PICK R, S : Replaces(r, R, S) /\ Calm(R) /\ HandsOver(r, R, S)
  BY DEF Advances, Keeps
<1>2. /\ DOMAIN sessions' = DOMAIN sessions /\ sessions'[SessionOf(r)] = S
      /\ \A s \in DOMAIN sessions : s # SessionOf(r) => sessions'[s] = sessions[s]
      /\ DOMAIN runners' = DOMAIN runners /\ runners'[r] = R
      /\ \A q \in DOMAIN runners : q # r => runners'[q] = runners[q]
      /\ \A q \in DOMAIN runners : runners'[q].session = SessionOf(q)
  BY <1>1, AdvanceFacts
<1>3. \A q \in DOMAIN runners' : Calm(runners'[q])
  BY <1>1, <1>2 DEF Driven
<1>4. ASSUME NEW s \in DOMAIN sessions, sessions'[s].state = "RUNNING"
      PROVE  \E q \in DOMAIN runners : SessionOf(q) = s /\ Drives(runners'[q])
  <2>1. CASE s = SessionOf(r)
    BY <1>1, <1>2, <1>4, <2>1 DEF HandsOver, RunnersOf
  <2>2. CASE s # SessionOf(r)
    BY <1>2, <1>4, <2>2 DEF Driven, RunnersOf
  <2> QED
    BY <2>1, <2>2
<1> QED
  BY <1>2, <1>3, <1>4 DEF Driven, RunnersOf, SessionOf

LEMMA AdvanceSolo ==
  ASSUME TypeOK, Solo, NEW r \in DOMAIN runners, Advances(r)
  PROVE  /\ Solo'
         /\ \A s \in DOMAIN sessions : KeepsStopped(sessions[s], sessions'[s])
<1>1. PICK R, S : /\ Replaces(r, R, S) /\ Fits(R, S)
                  /\ KeepsStopped(sessions[SessionOf(r)], S)
  BY DEF Advances, Keeps
<1>2. SessionOf(r) = r /\ r \in DOMAIN sessions
  BY Alone
<1>3. /\ Len(sessions') = Len(sessions) /\ sessions'[r] = S
      /\ \A s \in DOMAIN sessions : s # r => sessions'[s] = sessions[s]
      /\ Len(runners') = Len(runners) /\ DOMAIN runners' = DOMAIN runners /\ runners'[r] = R
      /\ \A q \in DOMAIN runners : q # r => runners'[q] = runners[q]
  BY <1>1, <1>2, AdvanceFacts
<1>4. DOMAIN runners = DOMAIN sessions
  BY DEF Solo, TypeOK
<1>5. \A q \in DOMAIN runners' :
        runners'[q].session = q /\ Fits(runners'[q], sessions'[q])
  BY <1>1, <1>2, <1>3, <1>4 DEF Replaces, Solo
<1> QED
  BY <1>1, <1>2, <1>3, <1>5 DEF Solo, KeepsStopped

\* ForgetPosition and OpenPosition: the thread that has changed the book is the
\* one that drives from here on; alone, it beats nobody.
LEMMA BeatStep ==
  ASSUME TypeOK, NEW r \in DOMAIN runners, NEW point \in {"exited", "entered"},
         runners[r].at \in {"process", "exiting", "exited"},
         BeatOthers(r, point), UNCHANGED <<sessions, lock, requests>>
  PROVE  TypeOK' /\ (Driven => Driven') /\ (Solo => Solo')
<1> DEFINE s == SessionOf(r)
           New(q) == IF q = r THEN [runners[q] EXCEPT !.at = point, !.beaten = FALSE]
                     ELSE IF q \in Inside(s) THEN [runners[q] EXCEPT !.beaten = TRUE]
                     ELSE runners[q]
<1>1. runners' = [q \in DOMAIN runners |-> New(q)]
  BY DEF BeatOthers
<1>2. ASSUME NEW q \in DOMAIN runners
      PROVE  /\ New(q) \in Runner /\ New(q).session = runners[q].session
             /\ q = r => /\ New(q).at = point /\ New(q).beaten = FALSE
                         /\ New(q).candle = runners[q].candle
             /\ q # r => New(q).at = runners[q].at
             /\ q \notin Inside(s) \cup {r} => New(q) = runners[q]
  <2>1. runners[q] \in Runner
    BY Alone
  <2>2. CASE q = r
    <3> DEFINE Moving == [runners[q] EXCEPT !.at = point]
    <3>1. Moving \in Runner
      BY <2>1 DEF Runner, Points
    <3>2. Moving.session = runners[q].session /\ Moving.at = point
          /\ Moving.candle = runners[q].candle
      BY <2>1 DEF Runner
    <3>3. New(q) = [Moving EXCEPT !.beaten = FALSE]
      BY <2>2
    <3> HIDE DEF Moving, New
    <3> QED
      BY <2>2, <3>1, <3>2, <3>3 DEF Runner
  <2>3. CASE q # r /\ q \in Inside(s)
    <3>1. New(q) = [runners[q] EXCEPT !.beaten = TRUE]
      BY <2>3
    <3> HIDE DEF New
    <3> QED
      BY <2>1, <2>3, <3>1 DEF Runner
  <2>4. CASE q # r /\ q \notin Inside(s)
    BY <2>1, <2>4
  <2> QED
    BY <2>2, <2>3, <2>4
<1> HIDE DEF New
<1>3. runners' \in Seq(Runner) /\ Len(runners') = Len(runners)
      /\ DOMAIN runners' = DOMAIN runners
      /\ \A q \in DOMAIN runners : runners'[q] = New(q)
  <2>1. runners \in Seq(Runner) /\ DOMAIN runners = 1 .. Len(runners) /\ Len(runners) \in Nat
    BY DEF TypeOK
  <2>2. runners' \in [1 .. Len(runners) -> Runner]
    BY <1>1, <1>2, <2>1
  <2> QED
    BY <1>1, <2>1, <2>2
<1>4. \A q \in DOMAIN runners : runners'[q].session = SessionOf(q)
  BY <1>2, <1>3 DEF SessionOf
<1>5. TypeOK'
  BY <1>3, <1>4 DEF TypeOK, SessionOf, HasSession
<1>6. ASSUME Driven
      PROVE  Driven'
  <2>1. Drives(runners'[r])
    BY <1>2, <1>3 DEF Drives
  <2>2. ASSUME NEW t \in DOMAIN sessions, sessions[t].state = "RUNNING"
        PROVE  \E q \in DOMAIN runners : SessionOf(q) = t /\ Drives(runners'[q])
    <3>1. CASE t = s
      BY <2>1, <3>1
    <3>2. CASE t # s
      <4>1. PICK q \in RunnersOf(t) : Drives(runners[q])
        BY <1>6, <2>2 DEF Driven
      <4>2. q \in DOMAIN runners /\ SessionOf(q) = t /\ q \notin Inside(s) \cup {r}
        BY <3>2, <4>1 DEF RunnersOf, Inside
      <4> QED
        BY <1>2, <1>3, <4>1, <4>2
    <3> QED
      BY <3>1, <3>2
  <2>3. ASSUME NEW q \in DOMAIN runners
        PROVE  Calm(runners'[q])
    <3>1. CASE q \in Inside(s) \/ q = r
      <4>1. runners'[q].at \in InProcess
        BY <1>2, <1>3, <3>1 DEF Inside, InProcess
      <4> QED
        BY <4>1 DEF Calm
    <3>2. CASE q \notin Inside(s) \cup {r}
      BY <1>2, <1>3, <1>6, <3>2 DEF Driven
    <3> QED
      BY <3>1, <3>2
  <2> QED
    BY <1>3, <1>4, <2>2, <2>3 DEF Driven, RunnersOf, SessionOf
<1>7. ASSUME Solo
      PROVE  Solo'
  <2>1. ASSUME NEW q \in DOMAIN runners
        PROVE  runners'[q].session = q /\ Fits(runners'[q], sessions[q])
    <3>1. runners[q].session = q /\ Fits(runners[q], sessions[q])
          /\ runners[r].session = r /\ Fits(runners[r], sessions[r])
      BY <1>7 DEF Solo
    <3>2. q \notin Inside(s) \/ q = r
      BY <3>1 DEF Inside, SessionOf
    <3>3. CASE q = r
      BY <1>2, <1>3, <3>1, <3>3 DEF Fits
    <3>4. CASE q \notin Inside(s) \cup {r}
      BY <1>2, <1>3, <3>1, <3>4
    <3> QED
      BY <3>2, <3>3, <3>4
  <2> QED
    BY <1>3, <1>7, <2>1 DEF Solo
<1> QED
  BY <1>5, <1>6, <1>7

StopsKept == \A s \in DOMAIN sessions : KeepsStopped(sessions[s], sessions'[s])

\* Every step of a thread.
LEMMA ProceedStep ==
  ASSUME TypeOK, NEW r \in DOMAIN runners, Proceed(r)
  PROVE  /\ TypeOK'
         /\ Driven => Driven'
         /\ Solo => Solo' /\ StopsKept
<1>1. UNCHANGED <<lock, requests>>
  BY DEF Proceed, ReadState, EnterRunning, CheckState, TakeCandle, AppendCandle, ClosePosition,
         ForgetPosition, OpenPosition, CountCandle, LoseRace, AutoStop, ByThread
<1>2. CASE Advances(r)
  BY <1>1, <1>2, AdvanceType, AdvanceDriven, AdvanceSolo DEF StopsKept
<1>3. CASE ForgetPosition(r) \/ OpenPosition(r)
  <2>1. PICK point \in {"exited", "entered"} :
          BeatOthers(r, point) /\ runners[r].at \in {"process", "exiting", "exited"}
          /\ UNCHANGED sessions
    BY <1>3 DEF ForgetPosition, OpenPosition, At
  <2>2. StopsKept
    BY <2>1 DEF StopsKept, KeepsStopped
  <2> QED
    BY <1>1, <2>1, <2>2, BeatStep
<1> QED
  BY <1>2, <1>3, ReadStateAdvances, EnterRunningAdvances, CheckStateAdvances,
     TakeCandleAdvances, AppendCandleAdvances, ClosePositionAdvances, CountCandleAdvances,
     LoseRaceAdvances, AutoStopAdvances DEF Proceed

-----------------------------------------------------------------------------
(* Endpoints *)

\* A request sets nothing RUNNING: only a thread does.
SetsNoneRunning(kept) ==
  \A s \in DOMAIN sessions : kept[s].state = "RUNNING" => sessions[s].state = "RUNNING"

\* What the list of old sessions satisfies after a request.
Kept(kept) ==
  /\ kept \in Seq(Session) /\ Len(kept) = Len(sessions) /\ DOMAIN kept = DOMAIN sessions
  /\ SetsNoneRunning(kept)
  /\ \A s \in DOMAIN sessions : KeepsStopped(sessions[s], kept[s])
  /\ Solo => \A r \in DOMAIN sessions : Fits(runners[r], kept[r])

LEMMA Unmoved ==
  ASSUME TypeOK
  PROVE  Kept(sessions)
<1>1. DOMAIN sessions = 1 .. Len(sessions) /\ DOMAIN runners = 1 .. Len(runners)
  BY DEF TypeOK
<1> QED
  BY <1>1 DEF Kept, KeepsStopped, SetsNoneRunning, Solo, TypeOK

LEMMA CurrentExists ==
  ASSUME TypeOK, HasSession
  PROVE  Current \in DOMAIN sessions
  BY SMT DEF TypeOK, HasSession, Current

\* A transition requested by a client.
LEMMA MovedKept ==
  ASSUME TypeOK, NEW s \in DOMAIN sessions, NEW goal \in {"PAUSED", "STOPPED"},
         CanMove(s, goal)
  PROVE  Kept(Moved(s, goal))
<1> DEFINE Q == [sessions[s] EXCEPT !.state = goal]
           kept == [sessions EXCEPT ![s] = Q]
<1>1. sessions[s] \in Session /\ goal \in SessionStates
  BY DEF TypeOK, SessionStates
<1>2. Q \in Session /\ Q.state = goal
  BY <1>1 DEF Session
<1>3. Moved(s, goal) = kept
  BY DEF Moved
<1>4. Solo => Fits(runners[s], Q)
  <2>1. SUFFICES ASSUME Solo PROVE Fits(runners[s], Q)
    OBVIOUS
  <2>2. s \in DOMAIN runners /\ Fits(runners[s], sessions[s])
    BY <2>1 DEF Solo, TypeOK
  <2>3. sessions[s].state # "NOT_STARTED"
    BY DEF CanMove, SESSION_STATE_TRANSITIONS
  <2> QED
    BY <1>1, <2>2, <2>3, FitsMoved DEF Fits
<1>5. KeepsStopped(sessions[s], Q)
  BY DEF KeepsStopped, CanMove, SESSION_STATE_TRANSITIONS
<1> HIDE DEF Q
<1>6. /\ kept \in Seq(Session) /\ Len(kept) = Len(sessions) /\ DOMAIN kept = DOMAIN sessions
      /\ kept[s] = Q /\ \A r \in DOMAIN sessions : r # s => kept[r] = sessions[r]
  BY <1>2, SeqUpdate DEF TypeOK
<1> HIDE DEF kept
<1>7. Solo => \A r \in DOMAIN sessions : Fits(runners[r], kept[r])
  BY <1>4, <1>6 DEF Solo, TypeOK
<1>8. \A r \in DOMAIN sessions : KeepsStopped(sessions[r], kept[r])
  BY <1>5, <1>6 DEF KeepsStopped
<1>9. SetsNoneRunning(kept)
  BY <1>2, <1>6 DEF SetsNoneRunning
<1> QED
  BY <1>3, <1>6, <1>7, <1>8, <1>9 DEF Kept

\* pause(), stop(), and a replay() that builds nothing: the threads stay as they are.
LEMMA ThreadsStay ==
  ASSUME TypeOK, Kept(sessions'), runners' = runners, requests' \in Nat,
         lock' \in {"free", "replay"}, lock' = "replay" => HasSession
  PROVE  TypeOK' /\ (Driven => Driven') /\ (Solo => Solo' /\ StopsKept)
<1>1. /\ sessions' \in Seq(Session) /\ Len(sessions') = Len(sessions)
      /\ DOMAIN sessions' = DOMAIN sessions
      /\ SetsNoneRunning(sessions') /\ StopsKept
      /\ Solo => \A r \in DOMAIN sessions : Fits(runners[r], sessions'[r])
  BY DEF Kept, StopsKept
<1>2. sessions # <<>> => sessions' # <<>>
  BY <1>1 DEF TypeOK
<1>3. TypeOK'
  BY <1>1, <1>2 DEF TypeOK, SessionOf, HasSession
<1>4. Driven => Driven'
  BY <1>1 DEF Driven, SetsNoneRunning, RunnersOf, SessionOf
<1>5. Solo => DOMAIN runners = DOMAIN sessions
  BY DEF Solo, TypeOK
<1>6. Solo => Solo'
  BY <1>1, <1>5 DEF Solo
<1> QED
  BY <1>1, <1>3, <1>4, <1>6

\* A thread spawned at the start of run().
NewThread(s) == [session |-> s, at |-> "run", candle |-> NoCandle, beaten |-> FALSE]

LEMMA SpawnFacts ==
  ASSUME TypeOK, NEW s \in Nat, SpawnThread(s)
  PROVE  /\ runners' \in Seq(Runner) /\ Len(runners') = Len(runners) + 1
         /\ DOMAIN runners' = DOMAIN runners \cup {Len(runners) + 1}
         /\ \A r \in DOMAIN runners : runners'[r] = runners[r]
         /\ runners'[Len(runners) + 1] = NewThread(s)
         /\ NewThread(s).session = s /\ Calm(NewThread(s))
<1>1. NewThread(s) \in Runner
  BY DEF NewThread, Runner, Points, NoCandle
<1>2. runners' = Append(runners, NewThread(s))
  BY DEF SpawnThread, NewThread
<1>3. NewThread(s).session = s /\ Calm(NewThread(s))
  BY DEF NewThread, Calm
<1> QED
  BY <1>1, <1>2, <1>3, SeqAppend DEF TypeOK

\* start() and replay(): a new session after kept, the old ones, and its thread.
LEMMA BuildStep ==
  ASSUME TypeOK, NEW kept, Kept(kept), Build(kept),
         lock' \in {"free", "replay"}, requests' \in Nat
  PROVE  TypeOK' /\ (Driven => Driven') /\ (Solo => Solo' /\ StopsKept)
<1> DEFINE n == Len(sessions) + 1
<1>1. PICK size \in DatasetSizes : sessions' = Append(kept, NewSession(size))
  BY DEF Build
<1> DEFINE built == NewSession(size)
<1>2. built \in Session /\ built.state = "NOT_STARTED"
  BY HostAssumption DEF NewSession, Session, SessionStates
<1>3. Fits(NewThread(n), built)
  BY DEF Fits, NewSession, NewThread
<1> HIDE DEF built
<1>4. Len(sessions) \in Nat /\ Len(runners) \in Nat /\ n \in Nat
  BY DEF TypeOK
<1>5. /\ sessions' \in Seq(Session) /\ Len(sessions') = n
      /\ \A s \in DOMAIN sessions : sessions'[s] = kept[s]
      /\ sessions'[n] = built
      /\ DOMAIN sessions' = DOMAIN sessions \cup {n}
      /\ n \notin DOMAIN sessions
  <2>1. kept \in Seq(Session) /\ Len(kept) = Len(sessions) /\ DOMAIN kept = DOMAIN sessions
    BY DEF Kept
  <2>2. sessions' = Append(kept, built)
    BY <1>1 DEF built
  <2>3. n \notin DOMAIN sessions
    BY DEF TypeOK
  <2> QED
    BY <1>2, <2>1, <2>2, <2>3, SeqAppend
<1>6. SpawnThread(n)
  BY DEF Build, Kept
<1>7. /\ runners' \in Seq(Runner) /\ Len(runners') = Len(runners) + 1
      /\ DOMAIN runners' = DOMAIN runners \cup {Len(runners) + 1}
      /\ \A r \in DOMAIN runners : runners'[r] = runners[r]
      /\ runners'[Len(runners) + 1] = NewThread(n)
      /\ NewThread(n).session = n /\ Calm(NewThread(n))
  BY <1>4, <1>6, SpawnFacts
<1> HIDE DEF n
<1>8. TypeOK'
  <2>1. \A r \in DOMAIN runners' : runners'[r].session \in DOMAIN sessions'
    BY <1>5, <1>7 DEF TypeOK, SessionOf
  <2>2. sessions' # <<>>
    BY <1>4, <1>5 DEF n
  <2> QED
    BY <1>5, <1>7, <2>1, <2>2 DEF TypeOK, SessionOf, HasSession
<1>9. ASSUME Driven
      PROVE  Driven'
  <2>1. ASSUME NEW s \in DOMAIN sessions', sessions'[s].state = "RUNNING"
        PROVE  \E r \in DOMAIN runners' : runners'[r].session = s /\ Drives(runners'[r])
    <3>1. s \in DOMAIN sessions /\ sessions[s].state = "RUNNING"
      BY <1>2, <1>5, <2>1 DEF Kept, SetsNoneRunning
    <3>2. PICK r \in DOMAIN runners : runners[r].session = s /\ Drives(runners[r])
      BY <1>9, <3>1 DEF Driven, RunnersOf, SessionOf
    <3> QED
      BY <1>7, <3>2
  <2>2. \A r \in DOMAIN runners' : Calm(runners'[r])
    BY <1>7, <1>9 DEF Driven
  <2> QED
    BY <2>1, <2>2 DEF Driven, RunnersOf, SessionOf
<1>10. ASSUME Solo
       PROVE  Solo' /\ StopsKept
  <2>1. DOMAIN runners = DOMAIN sessions /\ Len(runners) = Len(sessions)
    BY <1>10 DEF Solo, TypeOK
  <2>2. \A r \in DOMAIN sessions : Fits(runners[r], kept[r]) /\ runners[r].session = r
    BY <1>10, <2>1 DEF Kept, Solo
  <2>3. Len(runners) + 1 = n
    BY <2>1 DEF n
  <2>4. \A r \in DOMAIN runners' :
          runners'[r].session = r /\ Fits(runners'[r], sessions'[r])
    BY <1>3, <1>5, <1>7, <2>1, <2>2, <2>3
  <2>5. StopsKept
    BY <1>5 DEF Kept, StopsKept
  <2> QED
    BY <1>5, <1>7, <2>3, <2>4, <2>5 DEF Solo
<1> QED
  BY <1>8, <1>9, <1>10

\* resume(): a second thread for a session that is not RUNNING.
LEMMA ResumeStep ==
  ASSUME TypeOK, Resume
  PROVE  TypeOK' /\ (Driven => Driven')
<1>1. /\ Current \in DOMAIN sessions /\ Current \in Nat /\ SpawnThread(Current)
      /\ UNCHANGED <<sessions, lock>> /\ requests' = requests + 1
  BY CurrentExists DEF Resume, Accept, TypeOK, Current
<1>2. /\ runners' \in Seq(Runner)
      /\ DOMAIN runners' = DOMAIN runners \cup {Len(runners) + 1}
      /\ \A r \in DOMAIN runners : runners'[r] = runners[r]
      /\ runners'[Len(runners) + 1] = NewThread(Current)
      /\ NewThread(Current).session = Current /\ Calm(NewThread(Current))
  BY <1>1, SpawnFacts
<1> HIDE DEF Current
<1>3. TypeOK'
  BY <1>1, <1>2 DEF TypeOK, SessionOf, HasSession
<1>4. ASSUME Driven
      PROVE  Driven'
  <2>1. ASSUME NEW s \in DOMAIN sessions, sessions[s].state = "RUNNING"
        PROVE  \E r \in DOMAIN runners' : runners'[r].session = s /\ Drives(runners'[r])
    <3>1. PICK r \in DOMAIN runners : runners[r].session = s /\ Drives(runners[r])
      BY <1>4, <2>1 DEF Driven, RunnersOf, SessionOf
    <3> QED
      BY <1>2, <3>1
  <2>2. \A r \in DOMAIN runners' : Calm(runners'[r])
    BY <1>2, <1>4 DEF Driven
  <2> QED
    BY <1>1, <2>1, <2>2 DEF Driven, RunnersOf, SessionOf
<1> QED
  BY <1>3, <1>4

\* Every other endpoint.
LEMMA EndpointStep ==
  ASSUME TypeOK, Start \/ Pause \/ Stop \/ Replay \/ ReplayStops
  PROVE  TypeOK' /\ (Driven => Driven') /\ (Solo => Solo' /\ StopsKept)
<1>1. /\ sessions \in Seq(Session) /\ requests \in Nat /\ requests + 1 \in Nat
      /\ lock \in {"free", "replay"} /\ (lock = "replay" => HasSession)
  BY DEF TypeOK
<1>2. CASE Start
  <2>1. Build(sessions) /\ lock' = lock /\ requests' = requests + 1
    BY <1>2 DEF Start, Accept
  <2> QED
    BY <1>1, <2>1, Unmoved, BuildStep
<1>3. CASE Pause \/ Stop
  <2>1. PICK goal \in {"PAUSED", "STOPPED"} :
          /\ HasSession /\ CanMove(Current, goal) /\ sessions' = Moved(Current, goal)
          /\ UNCHANGED <<runners, lock>> /\ requests' = requests + 1
    BY <1>3 DEF Pause, Stop, Accept
  <2> QED
    BY <1>1, <2>1, CurrentExists, MovedKept, ThreadsStay
<1>4. CASE Replay
  <2>1. requests' = requests + 1
    BY <1>4 DEF Replay, Accept
  <2>2. CASE MustStop
    <3>1. lock' = "replay" /\ UNCHANGED <<sessions, runners>> /\ HasSession
      BY <1>4, <2>2 DEF Replay, MustStop
    <3> QED
      BY <1>1, <2>1, <3>1, Unmoved, ThreadsStay
  <2>3. CASE ~MustStop
    <3>1. Build(sessions) /\ lock' = lock
      BY <1>4, <2>3 DEF Replay
    <3> QED
      BY <1>1, <2>1, <3>1, Unmoved, BuildStep
  <2> QED
    BY <2>2, <2>3
<1>5. CASE ReplayStops
  <2>1. lock' = "free" /\ requests' = requests /\ Current \in DOMAIN sessions
    BY <1>5, CurrentExists DEF ReplayStops, TypeOK
  <2>2. CASE CanMove(Current, "STOPPED")
    <3>1. Build(Moved(Current, "STOPPED"))
      BY <1>5, <2>2 DEF ReplayStops
    <3> QED
      BY <1>1, <2>1, <2>2, <3>1, MovedKept, BuildStep
  <2>3. CASE ~CanMove(Current, "STOPPED")
    <3>1. UNCHANGED <<sessions, runners>>
      BY <1>5, <2>3 DEF ReplayStops
    <3> QED
      BY <1>1, <2>1, <3>1, Unmoved, ThreadsStay
  <2> QED
    BY <2>2, <2>3
<1> QED
  BY <1>2, <1>3, <1>4, <1>5

-----------------------------------------------------------------------------
(* Whatever clients call *)

\* TypeOK and Driven together are inductive: every thread of a RUNNING session may
\* be beaten but the one that changed the book last, and every thread that leaves
\* run() has seen its session not RUNNING.
THEOREM HostInvariant == Spec => [](TypeOK /\ Driven)
<1>1. Init => TypeOK /\ Driven
  BY DEF Init, TypeOK, Driven
<1>2. TypeOK /\ Driven /\ [Next]_vars => (TypeOK /\ Driven)'
  <2> SUFFICES ASSUME TypeOK, Driven, [Next]_vars
               PROVE  TypeOK' /\ Driven'
    OBVIOUS
  <2>1. CASE UNCHANGED vars
    BY <2>1 DEF vars, TypeOK, Driven, SessionOf, RunnersOf, HasSession
  <2>2. CASE Start \/ Pause \/ Stop \/ Replay \/ ReplayStops
    BY <2>2, EndpointStep
  <2>3. CASE Resume
    BY <2>3, ResumeStep
  <2>4. ASSUME NEW r \in DOMAIN runners, Proceed(r)
        PROVE  TypeOK' /\ Driven'
    BY <2>4, ProceedStep
  <2> QED
    BY <2>1, <2>2, <2>3, <2>4 DEF Next
<1> QED
  BY <1>1, <1>2, PTL DEF Spec

\* The host's variables keep their types, and the lock is held by a replay() only
\* over an existing session.
THEOREM HostTypeCorrect == Spec => []TypeOK
  BY HostInvariant, PTL

\* A session is never RUNNING without a thread that will go on or stop it, however
\* often clients pause, resume and replay and whatever races its threads lose.
THEOREM RunningStaysDriven == Spec => []RunningIsDriven
<1>1. Driven => RunningIsDriven
  BY DEF Driven, RunningIsDriven, Drives, Alive, RunnersOf
<1> QED
  BY <1>1, HostInvariant, PTL

-----------------------------------------------------------------------------
(* Where every candle is, whatever clients call *)

\* The threads that hold a candle not yet in the history, and those inside
\* process_candle or lost there.
Held(s) == {r \in RunnersOf(s) : At(r, "append")}
Unfinished(s) == {r \in RunnersOf(s) : ~At(r, "append") /\ runners[r].candle # NoCandle}

Candles(s) == {sessions[s].history[i] : i \in DOMAIN sessions[s].history}
HeldCandles(s) == {runners[r].candle : r \in Held(s)}

\* What CandlesAccounted says of one session.
Adds(s) ==
  /\ Candles(s) \cup HeldCandles(s) = 1 .. sessions[s].taken
  /\ Len(sessions[s].history) + Cardinality(Held(s)) = sessions[s].taken
  /\ sessions[s].processed + Cardinality(Unfinished(s)) = Len(sessions[s].history)

\* A thread carries a candle inside process_candle, may carry one to its end when
\* it raises, and has none anywhere else but on its way to the history.
Carries(R) ==
  /\ R.at \in InProcess => R.candle # NoCandle
  /\ R.at \notin InProcess \cup {"append", "raised"} => R.candle = NoCandle

Counted ==
  /\ \A s \in DOMAIN sessions : Adds(s)
  /\ \A r \in DOMAIN runners : Carries(runners[r])

\* The sets counted are finite.
LEMMA HeldFinite ==
  ASSUME TypeOK, NEW s
  PROVE  /\ IsFiniteSet(Held(s)) /\ IsFiniteSet(Unfinished(s))
         /\ Cardinality(Held(s)) \in Nat /\ Cardinality(Unfinished(s)) \in Nat
         /\ Held(s) \subseteq DOMAIN runners /\ Unfinished(s) \subseteq DOMAIN runners
<1>1. DOMAIN runners = 1 .. Len(runners) /\ Len(runners) \in Nat
  BY DEF TypeOK
<1>2. IsFiniteSet(DOMAIN runners)
  BY <1>1, FS_Interval
<1>3. Held(s) \subseteq DOMAIN runners /\ Unfinished(s) \subseteq DOMAIN runners
  BY DEF Held, Unfinished, RunnersOf
<1> QED
  BY <1>2, <1>3, FS_Subset, FS_CardinalityType

\* A step that hands out, appends and counts nothing; a session it builds is empty
\* and a thread it spawns carries nothing.
SameCounts(old, new) ==
  new.taken = old.taken /\ new.history = old.history /\ new.processed = old.processed

Empty(S) == S.taken = 0 /\ S.history = <<>> /\ S.processed = 0

SameLoad(old, new) ==
  /\ new.session = old.session /\ new.candle = old.candle
  /\ new.at = "append" <=> old.at = "append"

\* Such a step keeps every session's accounts.
LEMMA SteadyStep ==
  ASSUME TypeOK, Counted,
         \A s \in DOMAIN sessions : s \in DOMAIN sessions' /\ SameCounts(sessions[s], sessions'[s]),
         \A s \in DOMAIN sessions' : s \in DOMAIN sessions \/ Empty(sessions'[s]),
         \A r \in DOMAIN runners : r \in DOMAIN runners' /\ SameLoad(runners[r], runners'[r]),
         \A r \in DOMAIN runners' :
           r \in DOMAIN runners \/ (runners'[r].candle = NoCandle /\ runners'[r].at # "append"),
         \A r \in DOMAIN runners' : Carries(runners'[r])
  PROVE  Counted'
<1>1. ASSUME NEW s
      PROVE  /\ Held(s)' = Held(s) /\ Unfinished(s)' = Unfinished(s)
             /\ HeldCandles(s)' = HeldCandles(s)
  <2>1. Held(s)' = Held(s)
    BY DEF Held, RunnersOf, SessionOf, At, SameLoad
  <2>2. Unfinished(s)' = Unfinished(s)
    BY DEF Unfinished, RunnersOf, SessionOf, At, SameLoad
  <2>3. \A r \in Held(s) : runners'[r].candle = runners[r].candle
    BY DEF Held, RunnersOf, SameLoad
  <2> QED
    BY <2>1, <2>2, <2>3 DEF HeldCandles
<1>2. ASSUME NEW s \in DOMAIN sessions' PROVE Adds(s)'
  <2>1. CASE s \in DOMAIN sessions
    <3>1. Adds(s) /\ SameCounts(sessions[s], sessions'[s])
      BY <2>1 DEF Counted
    <3>2. Candles(s)' = Candles(s)
      BY <3>1 DEF Candles, SameCounts
    <3> QED
      BY <1>1, <3>1, <3>2 DEF Adds, SameCounts
  <2>2. CASE s \notin DOMAIN sessions
    <3>1. Held(s) = {} /\ Unfinished(s) = {}
      BY <2>2 DEF Held, Unfinished, RunnersOf, TypeOK
    <3>2. Held(s)' = {} /\ Unfinished(s)' = {} /\ HeldCandles(s)' = {}
      <4>1. HeldCandles(s) = {}
        BY <3>1 DEF HeldCandles
      <4> QED
        BY <1>1, <3>1, <4>1
    <3>3. Empty(sessions'[s])
      BY <2>2
    <3>4. Candles(s)' = {} /\ 1 .. 0 = {} /\ Len(sessions'[s].history) = 0
      BY <3>3 DEF Candles, Empty
    <3>5. Cardinality(Held(s)') = 0 /\ Cardinality(Unfinished(s)') = 0
      BY <3>2, FS_EmptySet
    <3> QED
      BY <3>2, <3>3, <3>4, <3>5 DEF Adds, Empty
  <2> QED
    BY <2>1, <2>2
<1> QED
  BY <1>2 DEF Counted

\* What the rest of the section needs of TypeOK.
LEMMA RunnerFacts ==
  ASSUME TypeOK, NEW r \in DOMAIN runners
  PROVE  /\ runners[r] \in Runner /\ SessionOf(r) \in DOMAIN sessions
         /\ sessions[SessionOf(r)] \in Session
         /\ \A R \in Runner : [runners EXCEPT ![r] = R] \in Seq(Runner)
         /\ DOMAIN sessions = 1 .. Len(sessions) /\ sessions \in Seq(Session)
  BY SMT DEF TypeOK, SessionOf

\* Steps that only move a thread, and may make a transition of its controller.
LEMMA MoveCounts ==
  ASSUME TypeOK, Counted, NEW r \in DOMAIN runners, NEW point \in Points \ {"append"},
         GoTo(r, point), runners[r].at # "append",
         point \in InProcess => runners[r].at \in InProcess,
         point \notin InProcess \cup {"raised"} => runners[r].at \notin InProcess \cup {"raised"},
         \/ UNCHANGED sessions
         \/ \E goal \in SessionStates : sessions' = Moved(SessionOf(r), goal)
  PROVE  Counted'
<1>1. runners[r] \in Runner /\ SessionOf(r) \in DOMAIN sessions
      /\ sessions[SessionOf(r)] \in Session
  BY RunnerFacts
<1>2. DOMAIN sessions' = DOMAIN sessions
      /\ \A s \in DOMAIN sessions : SameCounts(sessions[s], sessions'[s])
  <2>1. CASE UNCHANGED sessions
    BY <2>1 DEF SameCounts
  <2>2. ASSUME NEW goal \in SessionStates, sessions' = Moved(SessionOf(r), goal)
        PROVE  DOMAIN sessions' = DOMAIN sessions
               /\ \A s \in DOMAIN sessions : SameCounts(sessions[s], sessions'[s])
    <3> DEFINE S == [sessions[SessionOf(r)] EXCEPT !.state = goal]
    <3>1. SameCounts(sessions[SessionOf(r)], S)
      BY <1>1 DEF SameCounts, Session
    <3>2. sessions' = [sessions EXCEPT ![SessionOf(r)] = S]
      BY <2>2 DEF Moved
    <3> HIDE DEF S
    <3> QED
      BY <1>1, <3>1, <3>2 DEF SameCounts
  <2> QED
    BY <2>1, <2>2
<1> DEFINE R == [runners[r] EXCEPT !.at = point]
<1>3. R.at = point /\ R.candle = runners[r].candle /\ R.session = runners[r].session
  BY <1>1 DEF Runner
<1>4. runners' = [runners EXCEPT ![r] = R]
  BY DEF GoTo
<1> HIDE DEF R
<1>5. Carries(runners[r])
  BY DEF Counted
<1>6. Carries(R)
  BY <1>3, <1>5 DEF Carries
<1>7. SameLoad(runners[r], R)
  BY <1>3 DEF SameLoad
<1>8. DOMAIN runners' = DOMAIN runners /\ runners'[r] = R
      /\ \A q \in DOMAIN runners : q # r => runners'[q] = runners[q]
  BY <1>4
<1>9. /\ \A q \in DOMAIN runners : SameLoad(runners[q], runners'[q])
      /\ \A q \in DOMAIN runners' : Carries(runners'[q])
  BY <1>6, <1>7, <1>8 DEF SameLoad, Counted
<1> QED
  BY <1>2, <1>8, <1>9, SteadyStep

\* The steps that change the book change no count.
LEMMA BeatCounts ==
  ASSUME TypeOK, Counted, NEW r \in DOMAIN runners, NEW point \in InProcess,
         BeatOthers(r, point), UNCHANGED sessions, runners[r].at \in InProcess
  PROVE  Counted'
<1>1. \A q \in DOMAIN runners : runners[q] \in Runner /\ Carries(runners[q])
  BY RunnerFacts DEF Counted
<1>2. DOMAIN runners' = DOMAIN runners
  BY DEF BeatOthers
<1>3. ASSUME NEW q \in DOMAIN runners
      PROVE  SameLoad(runners[q], runners'[q]) /\ Carries(runners'[q])
  <2>1. CASE q = r
    <3>1. runners'[q] = [runners[q] EXCEPT !.at = point, !.beaten = FALSE]
      BY <2>1 DEF BeatOthers
    <3>2. /\ runners'[q].at = point /\ runners'[q].candle = runners[q].candle
          /\ runners'[q].session = runners[q].session
      BY <1>1, <3>1 DEF Runner
    <3> QED
      BY <1>1, <2>1, <3>2 DEF SameLoad, Carries, InProcess
  <2>2. CASE q # r /\ q \in Inside(SessionOf(r))
    <3>1. runners'[q] = [runners[q] EXCEPT !.beaten = TRUE]
      BY <2>2 DEF BeatOthers
    <3>2. /\ runners'[q].at = runners[q].at /\ runners'[q].candle = runners[q].candle
          /\ runners'[q].session = runners[q].session
      BY <1>1, <3>1 DEF Runner
    <3> QED
      BY <1>1, <3>2 DEF SameLoad, Carries
  <2>3. CASE q # r /\ q \notin Inside(SessionOf(r))
    <3>1. runners'[q] = runners[q]
      BY <2>3 DEF BeatOthers
    <3> QED
      BY <1>1, <3>1 DEF SameLoad, Carries
  <2> QED
    BY <2>1, <2>2, <2>3
<1> QED
  BY <1>2, <1>3, SteadyStep DEF SameCounts

\* What a step of thread r that also changes its session's counts leaves alone.
TouchesOnly(r) ==
  /\ DOMAIN sessions' = DOMAIN sessions /\ DOMAIN runners' = DOMAIN runners
  /\ \A s \in DOMAIN sessions : s # SessionOf(r) => sessions'[s] = sessions[s]
  /\ \A q \in DOMAIN runners : q # r => runners'[q] = runners[q]
  /\ runners'[r].session = runners[r].session

\* The accounts of the other sessions, and the loads of the other threads, stay.
LEMMA OtherSessions ==
  ASSUME TypeOK, Counted, NEW r \in DOMAIN runners, TouchesOnly(r),
         Carries(runners'[r]), Adds(SessionOf(r))'
  PROVE  Counted'
<1>1. ASSUME NEW s \in DOMAIN sessions, s # SessionOf(r)
      PROVE  Adds(s)'
  <2>1. Held(s)' = Held(s)
    BY <1>1 DEF Held, RunnersOf, SessionOf, At, TouchesOnly
  <2>2. Unfinished(s)' = Unfinished(s)
    BY <1>1 DEF Unfinished, RunnersOf, SessionOf, At, TouchesOnly
  <2>3. \A q \in Held(s) : runners'[q].candle = runners[q].candle
    BY <1>1 DEF Held, RunnersOf, TouchesOnly
  <2>4. HeldCandles(s)' = HeldCandles(s)
    BY <2>1, <2>3 DEF HeldCandles
  <2>5. sessions'[s] = sessions[s] /\ Adds(s)
    BY <1>1 DEF TouchesOnly, Counted
  <2> QED
    BY <2>1, <2>2, <2>4, <2>5 DEF Adds, Candles
<1>2. SessionOf(r)' = SessionOf(r)
  BY DEF TouchesOnly, SessionOf
<1>3. \A s \in DOMAIN sessions' : Adds(s)'
  <2>1. ASSUME NEW s \in DOMAIN sessions', s = SessionOf(r) PROVE Adds(s)'
    BY <2>1, <1>2
  <2> QED
    BY <1>1, <2>1 DEF TouchesOnly
<1>4. \A q \in DOMAIN runners' : Carries(runners'[q])
  BY DEF TouchesOnly, Counted
<1> QED
  BY <1>3, <1>4 DEF Counted

\* The three steps that count: what thread r leaves of the sets of its session.
LEMMA OthersHeld ==
  ASSUME TypeOK, NEW r \in DOMAIN runners, TouchesOnly(r), NEW s, s = SessionOf(r)
  PROVE  /\ Held(s)' \ {r} = Held(s) \ {r}
         /\ Unfinished(s)' \ {r} = Unfinished(s) \ {r}
         /\ r \in Held(s)' <=> runners'[r].at = "append"
         /\ r \in Held(s) <=> runners[r].at = "append"
         /\ r \in Unfinished(s)' <=> runners'[r].at # "append" /\ runners'[r].candle # NoCandle
         /\ r \in Unfinished(s) <=> runners[r].at # "append" /\ runners[r].candle # NoCandle
         /\ \A q \in Held(s) \ {r} : runners'[q].candle = runners[q].candle
<1>1. SessionOf(r)' = s
  BY DEF TouchesOnly, SessionOf
<1> QED
  BY <1>1 DEF Held, Unfinished, RunnersOf, SessionOf, At, TouchesOnly

\* The next candle goes from the source to the thread.
LEMMA TakeCounts ==
  ASSUME TypeOK, Counted, NEW r \in DOMAIN runners, TakeCandle(r)
  PROVE  Counted'
<1>1. PICK s \in DOMAIN sessions : s = SessionOf(r)
  BY RunnerFacts
<1>2. runners[r] \in Runner /\ sessions[s] \in Session
  BY <1>1, RunnerFacts
<1>3. CASE sessions[s].taken < sessions[s].size
  <2> DEFINE n == sessions[s].taken + 1
             S == [sessions[s] EXCEPT !.taken = n]
             R == [runners[r] EXCEPT !.at = "append", !.candle = n]
  <2>1. sessions' = [sessions EXCEPT ![s] = S]
    BY <1>1, <1>3 DEF TakeCandle
  <2>2. runners' = [runners EXCEPT ![r] = R]
    BY <1>1, <1>3 DEF TakeCandle
  <2>3. /\ S.taken = n /\ S.history = sessions[s].history /\ S.processed = sessions[s].processed
        /\ R.at = "append" /\ R.candle = n /\ R.session = runners[r].session
    BY <1>2 DEF Session, Runner
  <2>4. n = sessions[s].taken + 1 /\ sessions[s].taken \in Nat
    BY <1>2 DEF Session
  <2>5. runners[r].at = "next"
    BY DEF TakeCandle, At
  <2> HIDE DEF S, R, n
  <2>6. TouchesOnly(r) /\ runners'[r] = R /\ sessions'[s] = S
    BY <1>1, <2>1, <2>2, <2>3 DEF TouchesOnly
  <2>7. Carries(R) /\ runners[r].candle = NoCandle
    BY <2>3, <2>5 DEF Carries, InProcess, Counted
  <2>8. Held(s)' = Held(s) \cup {r} /\ r \notin Held(s) /\ Unfinished(s)' = Unfinished(s)
    <3>1. /\ Held(s)' \ {r} = Held(s) \ {r} /\ Unfinished(s)' \ {r} = Unfinished(s) \ {r}
          /\ r \in Held(s)' /\ r \notin Held(s)
          /\ r \notin Unfinished(s)' /\ r \notin Unfinished(s)
      BY <1>1, <2>3, <2>5, <2>6, <2>7, OthersHeld
    <3> QED
      BY <3>1
  <2>9. HeldCandles(s)' = HeldCandles(s) \cup {n}
    <3>1. \A q \in Held(s) : runners'[q].candle = runners[q].candle
      BY <1>1, <2>6, <2>8, OthersHeld
    <3>2. runners'[r].candle = n
      BY <2>3, <2>6
    <3> QED
      BY <2>8, <3>1, <3>2 DEF HeldCandles
  <2>10. Cardinality(Held(s)') = Cardinality(Held(s)) + 1 /\ Cardinality(Held(s)) \in Nat
    BY <2>8, HeldFinite, FS_AddElement
  <2>11. Adds(s)
    BY DEF Counted
  <2>12. Candles(s)' = Candles(s)
    BY <2>3, <2>6 DEF Candles
  <2>13. Candles(s)' \cup HeldCandles(s)' = 1 .. n
    <3>1. 1 .. n = (1 .. sessions[s].taken) \cup {n}
      BY <2>4
    <3> QED
      BY <2>9, <2>11, <2>12, <3>1 DEF Adds
  <2>14. Len(sessions[s].history) \in Nat
    BY <1>2 DEF Session
  <2>15. Adds(s)'
    <3>1. sessions'[s].taken = n /\ sessions'[s].history = sessions[s].history
          /\ sessions'[s].processed = sessions[s].processed
      BY <2>3, <2>6
    <3>2. Len(sessions[s].history) + Cardinality(Held(s)') = n
      BY <2>4, <2>10, <2>11, <2>14 DEF Adds
    <3>3. sessions[s].processed + Cardinality(Unfinished(s)') = Len(sessions[s].history)
      BY <2>8, <2>11 DEF Adds
    <3> QED
      BY <2>13, <3>1, <3>2, <3>3 DEF Adds
  <2>16. SessionOf(r)' = s
    BY <1>1, <2>6 DEF TouchesOnly, SessionOf
  <2> QED
    BY <2>6, <2>7, <2>15, <2>16, OtherSessions
<1>4. CASE ~(sessions[s].taken < sessions[s].size)
  <2>1. GoTo(r, "auto_stop") /\ UNCHANGED sessions /\ runners[r].at = "next"
    BY <1>1, <1>4 DEF TakeCandle, At
  <2> QED
    BY <2>1, MoveCounts DEF InProcess, Points
<1> QED
  BY <1>3, <1>4

\* The candle goes from the thread to the history, and into process_candle.
LEMMA AppendCounts ==
  ASSUME TypeOK, Counted, NEW r \in DOMAIN runners, AppendCandle(r)
  PROVE  Counted'
<1>1. PICK s \in DOMAIN sessions : s = SessionOf(r)
  BY RunnerFacts
<1>2. runners[r] \in Runner /\ sessions[s] \in Session
  BY <1>1, RunnerFacts
<1> DEFINE c == runners[r].candle
           S == [sessions[s] EXCEPT !.history = Append(sessions[s].history, c)]
           R == [runners[r] EXCEPT !.at = "process"]
<1>3. sessions' = [sessions EXCEPT ![s] = S]
  BY <1>1 DEF AppendCandle
<1>4. runners' = [runners EXCEPT ![r] = R]
  BY DEF AppendCandle, GoTo
<1>5. /\ S.taken = sessions[s].taken /\ S.processed = sessions[s].processed
      /\ S.history = Append(sessions[s].history, c)
      /\ R.at = "process" /\ R.candle = c /\ R.session = runners[r].session
  BY <1>2 DEF Session, Runner
<1>6. runners[r].at = "append"
  BY DEF AppendCandle, At
<1>7. sessions[s].history \in Seq(Nat) /\ c \in Nat /\ sessions[s].taken \in Nat
      /\ sessions[s].processed \in Nat
  BY <1>2 DEF Session, Runner
<1> HIDE DEF S, R
<1>8. TouchesOnly(r) /\ runners'[r] = R /\ sessions'[s] = S
  BY <1>1, <1>3, <1>4, <1>5 DEF TouchesOnly
<1>9. r \in Held(s)
  BY <1>1, <1>6 DEF Held, RunnersOf, At
<1>10. Adds(s)
  BY DEF Counted
<1>11. c \in 1 .. sessions[s].taken /\ c # NoCandle
  <2>1. c \in HeldCandles(s)
    BY <1>9 DEF HeldCandles
  <2> QED
    BY <1>10, <2>1 DEF Adds, NoCandle
<1>12. Carries(R)
  BY <1>5, <1>11 DEF Carries, InProcess
<1>13. /\ Held(s)' = Held(s) \ {r}
       /\ Unfinished(s)' = Unfinished(s) \cup {r} /\ r \notin Unfinished(s)
  <2>1. /\ Held(s)' \ {r} = Held(s) \ {r} /\ Unfinished(s)' \ {r} = Unfinished(s) \ {r}
        /\ r \notin Held(s)' /\ r \in Unfinished(s)' /\ r \notin Unfinished(s)
    BY <1>1, <1>5, <1>6, <1>8, <1>11, OthersHeld
  <2> QED
    BY <2>1
<1>14. /\ Cardinality(Held(s)') = Cardinality(Held(s)) - 1
       /\ Cardinality(Unfinished(s)') = Cardinality(Unfinished(s)) + 1
       /\ Cardinality(Held(s)) \in Nat /\ Cardinality(Unfinished(s)) \in Nat
  <2>1. IsFiniteSet(Held(s)) /\ IsFiniteSet(Unfinished(s))
        /\ Cardinality(Held(s)) \in Nat /\ Cardinality(Unfinished(s)) \in Nat
    BY HeldFinite
  <2>2. Cardinality(Held(s) \ {r}) = Cardinality(Held(s)) - 1
    BY <1>9, <2>1, FS_RemoveElement
  <2>3. Cardinality(Unfinished(s) \cup {r}) = Cardinality(Unfinished(s)) + 1
    BY <1>13, <2>1, FS_AddElement
  <2> QED
    BY <1>13, <2>1, <2>2, <2>3
<1>15. Len(S.history) = Len(sessions[s].history) + 1 /\ Len(sessions[s].history) \in Nat
  BY <1>5, <1>7
<1>16. Candles(s)' = Candles(s) \cup {c}
  <2> DEFINE h == sessions[s].history
             k == S.history
  <2>1. /\ DOMAIN k = DOMAIN h \cup {Len(h) + 1}
        /\ \A i \in DOMAIN h : k[i] = h[i]
        /\ k[Len(h) + 1] = c
    BY <1>5, <1>7, SeqAppend
  <2>2. Candles(s)' = {k[i] : i \in DOMAIN k}
    BY <1>8 DEF Candles
  <2>3. Candles(s) = {h[i] : i \in DOMAIN h}
    BY DEF Candles
  <2> HIDE DEF h, k
  <2> QED
    BY <2>1, <2>2, <2>3
<1>17. HeldCandles(s) = HeldCandles(s)' \cup {c}
  <2>1. \A q \in Held(s)' : runners'[q].candle = runners[q].candle
    BY <1>1, <1>8, <1>13, OthersHeld
  <2> QED
    BY <1>9, <1>13, <2>1 DEF HeldCandles
<1>18. Candles(s)' \cup HeldCandles(s)' = 1 .. sessions[s].taken
  BY <1>10, <1>16, <1>17 DEF Adds
<1>19. Adds(s)'
  <2>1. /\ sessions'[s].taken = sessions[s].taken
        /\ sessions'[s].processed = sessions[s].processed
        /\ Len(sessions'[s].history) = Len(sessions[s].history) + 1
    BY <1>5, <1>8, <1>15
  <2>2. Len(sessions[s].history) + 1 + Cardinality(Held(s)') = sessions[s].taken
    BY <1>7, <1>10, <1>14, <1>15 DEF Adds
  <2>3. sessions[s].processed + Cardinality(Unfinished(s)') = Len(sessions[s].history) + 1
    <3>1. sessions[s].processed + Cardinality(Unfinished(s)) = Len(sessions[s].history)
      BY <1>10 DEF Adds
    <3>2. sessions[s].processed \in Nat
      BY <1>7
    <3>3. \A a, b, n \in Nat : a + b = n => a + (b + 1) = n + 1
      OBVIOUS
    <3> QED
      BY <1>14, <1>15, <3>1, <3>2, <3>3
  <2> QED
    BY <1>18, <2>1, <2>2, <2>3 DEF Adds
<1>20. SessionOf(r)' = s
  BY <1>1, <1>8 DEF TouchesOnly, SessionOf
<1> QED
  BY <1>8, <1>12, <1>19, <1>20, OtherSessions

\* The candle is counted, and the thread lets go of it.
LEMMA CountCounts ==
  ASSUME TypeOK, Counted, NEW r \in DOMAIN runners, CountCandle(r)
  PROVE  Counted'
<1>1. PICK s \in DOMAIN sessions : s = SessionOf(r)
  BY RunnerFacts
<1>2. runners[r] \in Runner /\ sessions[s] \in Session
  BY <1>1, RunnerFacts
<1> DEFINE S == [sessions[s] EXCEPT !.processed = sessions[s].processed + 1]
           R == [runners[r] EXCEPT !.at = "step", !.candle = NoCandle, !.beaten = FALSE]
<1>3. sessions' = [sessions EXCEPT ![s] = S]
  BY <1>1 DEF CountCandle
<1>4. runners' = [runners EXCEPT ![r] = R]
  BY DEF CountCandle
<1>5. /\ S.taken = sessions[s].taken /\ S.processed = sessions[s].processed + 1
      /\ S.history = sessions[s].history
      /\ R.at = "step" /\ R.candle = NoCandle /\ R.session = runners[r].session
  BY <1>2 DEF Session, Runner
<1>6. runners[r].at \in InProcess /\ runners[r].at # "append"
  BY DEF CountCandle, At, InProcess
<1>7. Len(sessions[s].history) \in Nat /\ sessions[s].processed \in Nat
  BY <1>2 DEF Session
<1> HIDE DEF S, R
<1>8. TouchesOnly(r) /\ runners'[r] = R /\ sessions'[s] = S
  BY <1>1, <1>3, <1>4, <1>5 DEF TouchesOnly
<1>9. runners[r].candle # NoCandle
  BY <1>6 DEF Counted, Carries
<1>10. Carries(R)
  BY <1>5 DEF Carries, InProcess
<1>11. /\ Held(s)' = Held(s) /\ r \notin Held(s)
       /\ Unfinished(s)' = Unfinished(s) \ {r} /\ r \in Unfinished(s)
  <2>1. /\ Held(s)' \ {r} = Held(s) \ {r} /\ Unfinished(s)' \ {r} = Unfinished(s) \ {r}
        /\ r \notin Held(s)' /\ r \notin Held(s)
        /\ r \notin Unfinished(s)' /\ r \in Unfinished(s)
    BY <1>1, <1>5, <1>6, <1>8, <1>9, OthersHeld
  <2> QED
    BY <2>1
<1>12. Cardinality(Unfinished(s)') = Cardinality(Unfinished(s)) - 1
       /\ Cardinality(Unfinished(s)) \in Nat
  BY <1>11, HeldFinite, FS_RemoveElement
<1>13. HeldCandles(s)' = HeldCandles(s)
  <2>1. \A q \in Held(s) : runners'[q].candle = runners[q].candle
    BY <1>1, <1>8, <1>11, OthersHeld
  <2> QED
    BY <1>11, <2>1 DEF HeldCandles
<1>14. Adds(s)
  BY DEF Counted
<1>15. Candles(s)' = Candles(s)
  BY <1>5, <1>8 DEF Candles
<1>16. Adds(s)'
  BY <1>5, <1>7, <1>8, <1>11, <1>12, <1>13, <1>14, <1>15 DEF Adds
<1>17. SessionOf(r)' = s
  BY <1>1, <1>8 DEF TouchesOnly, SessionOf
<1> QED
  BY <1>8, <1>10, <1>16, <1>17, OtherSessions

\* No step of a thread, whatever race it loses, miscounts a candle.
LEMMA ProceedCounts ==
  ASSUME TypeOK, Counted, NEW r \in DOMAIN runners, Proceed(r)
  PROVE  Counted'
<1>1. runners[r].at \in Points
  BY RunnerFacts DEF Runner
<1>2. CASE ReadState(r)
  <2>1. PICK point \in {"start", "resume", "returned", "step"} : GoTo(r, point)
    BY <1>2 DEF ReadState
  <2> QED
    BY <1>2, <2>1, MoveCounts DEF ReadState, At, InProcess, Points
<1>3. CASE EnterRunning(r)
  <2>1. PICK point \in {"step", "raised"} : GoTo(r, point)
    BY <1>3 DEF EnterRunning
  <2>2. runners[r].at \in {"start", "resume"}
    BY <1>3 DEF EnterRunning, At
  <2>3. UNCHANGED sessions \/ sessions' = Moved(SessionOf(r), "RUNNING")
    BY <1>3 DEF EnterRunning
  <2> QED
    BY <2>1, <2>2, <2>3, MoveCounts DEF InProcess, Points, SessionStates
<1>4. CASE CheckState(r)
  <2>1. PICK point \in {"next", "returned"} : GoTo(r, point)
    BY <1>4 DEF CheckState
  <2> QED
    BY <1>4, <2>1, MoveCounts DEF CheckState, At, InProcess, Points
<1>5. CASE ClosePosition(r)
  BY <1>5, MoveCounts DEF ClosePosition, At, InProcess, Points
<1>6. CASE ForgetPosition(r)
  BY <1>6, BeatCounts DEF ForgetPosition, At, InProcess
<1>7. CASE OpenPosition(r)
  BY <1>7, BeatCounts DEF OpenPosition, At, InProcess
<1>8. CASE LoseRace(r)
  <2>1. runners[r].at # "append" /\ GoTo(r, "raised") /\ UNCHANGED sessions
    BY <1>8 DEF LoseRace, At
  <2> QED
    BY <2>1, MoveCounts DEF InProcess, Points
<1>9. CASE AutoStop(r)
  <2>1. PICK point \in {"returned", "raised"} : GoTo(r, point)
    BY <1>9 DEF AutoStop
  <2>2. runners[r].at = "auto_stop"
    BY <1>9 DEF AutoStop, At
  <2>3. UNCHANGED sessions \/ sessions' = Moved(SessionOf(r), "STOPPED")
    BY <1>9 DEF AutoStop
  <2> QED
    BY <2>1, <2>2, <2>3, MoveCounts DEF InProcess, Points, SessionStates
<1>10. CASE TakeCandle(r) \/ AppendCandle(r) \/ CountCandle(r)
  BY <1>10, TakeCounts, AppendCounts, CountCounts
<1> QED
  BY <1>2, <1>3, <1>4, <1>5, <1>6, <1>7, <1>8, <1>9, <1>10 DEF Proceed

\* A request only moves controllers and adds an empty session or an idle thread.
LEMMA RequestCounts ==
  ASSUME TypeOK, Counted, Start \/ Pause \/ Resume \/ Stop \/ Replay \/ ReplayStops
  PROVE  Counted'
<1> DEFINE Moves(kept) ==
             kept \in Seq(Session) /\ Len(kept) = Len(sessions) /\ DOMAIN kept = DOMAIN sessions
             /\ \A s \in DOMAIN sessions : SameCounts(sessions[s], kept[s])
<1>1. Moves(sessions)
  BY DEF SameCounts, TypeOK
<1>2. ASSUME HasSession, NEW goal \in SessionStates
      PROVE  Moves(Moved(Current, goal))
  <2> DEFINE S == [sessions[Current] EXCEPT !.state = goal]
             kept == [sessions EXCEPT ![Current] = S]
  <2>1. Current \in DOMAIN sessions /\ sessions[Current] \in Session
    BY <1>2, CurrentExists DEF TypeOK
  <2>2. S \in Session /\ SameCounts(sessions[Current], S)
    BY <2>1 DEF SameCounts, Session
  <2>3. Moved(Current, goal) = kept
    BY DEF Moved
  <2> HIDE DEF S
  <2>4. /\ kept \in Seq(Session) /\ Len(kept) = Len(sessions) /\ DOMAIN kept = DOMAIN sessions
        /\ kept[Current] = S /\ \A s \in DOMAIN sessions : s # Current => kept[s] = sessions[s]
    BY <2>1, <2>2, SeqUpdate DEF TypeOK
  <2> HIDE DEF kept
  <2>5. \A s \in DOMAIN sessions : SameCounts(sessions[s], kept[s])
    BY <2>2, <2>4 DEF SameCounts
  <2> QED
    BY <2>3, <2>4, <2>5
<1>3. ASSUME NEW kept, Moves(kept), sessions' = kept, UNCHANGED runners
      PROVE  Counted'
  BY <1>3, SteadyStep DEF Counted, SameLoad
<1>4. ASSUME NEW s \in Nat, SpawnThread(s)
      PROVE  /\ \A r \in DOMAIN runners : r \in DOMAIN runners' /\ SameLoad(runners[r], runners'[r])
             /\ \A r \in DOMAIN runners' :
                  r \in DOMAIN runners \/ (runners'[r].candle = NoCandle /\ runners'[r].at # "append")
             /\ \A r \in DOMAIN runners' : Carries(runners'[r])
  <2>1. Carries(NewThread(s)) /\ NewThread(s).candle = NoCandle /\ NewThread(s).at = "run"
    BY DEF Carries, NewThread, InProcess
  <2>2. /\ DOMAIN runners' = DOMAIN runners \cup {Len(runners) + 1}
        /\ \A r \in DOMAIN runners : runners'[r] = runners[r]
        /\ runners'[Len(runners) + 1] = NewThread(s)
    BY <1>4, SpawnFacts
  <2> QED
    BY <2>1, <2>2 DEF Counted, SameLoad
<1>5. ASSUME NEW kept, Moves(kept), Build(kept)
      PROVE  Counted'
  <2>1. PICK size \in DatasetSizes : sessions' = Append(kept, NewSession(size))
    BY <1>5 DEF Build
  <2>2. NewSession(size) \in Session /\ Empty(NewSession(size))
    BY HostAssumption DEF NewSession, Session, SessionStates, Empty
  <2>3. /\ DOMAIN sessions' = DOMAIN kept \cup {Len(kept) + 1}
        /\ \A s \in DOMAIN kept : sessions'[s] = kept[s]
        /\ sessions'[Len(kept) + 1] = NewSession(size)
    BY <1>5, <2>1, <2>2, SeqAppend
  <2>4. Len(kept) + 1 \in Nat
    BY <1>5 DEF TypeOK
  <2>5. SpawnThread(Len(kept) + 1)
    BY <1>5 DEF Build
  <2>6. /\ \A s \in DOMAIN sessions : s \in DOMAIN sessions' /\ SameCounts(sessions[s], sessions'[s])
        /\ \A s \in DOMAIN sessions' : s \in DOMAIN sessions \/ Empty(sessions'[s])
    BY <1>5, <2>2, <2>3
  <2> HIDE DEF Moves
  <2> QED
    BY <1>4, <2>4, <2>5, <2>6, SteadyStep
<1> HIDE DEF Moves
<1>6. CASE Start
  BY <1>1, <1>5, <1>6 DEF Start
<1>7. CASE Pause \/ Stop
  <2>1. PICK goal \in SessionStates :
          HasSession /\ sessions' = Moved(Current, goal) /\ UNCHANGED runners
    BY <1>7 DEF Pause, Stop, SessionStates
  <2> QED
    BY <1>2, <1>3, <2>1
<1>8. CASE Resume
  <2>1. UNCHANGED sessions /\ SpawnThread(Current) /\ Current \in Nat
    BY <1>8 DEF Resume, Current, TypeOK
  <2>2. \A s \in DOMAIN sessions : SameCounts(sessions[s], sessions'[s])
    BY <2>1 DEF SameCounts
  <2> QED
    BY <1>4, <2>1, <2>2, SteadyStep
<1>9. CASE Replay
  <2>1. Build(sessions) \/ UNCHANGED <<sessions, runners>>
    BY <1>9 DEF Replay
  <2> QED
    BY <1>1, <1>3, <1>5, <2>1
<1>10. CASE ReplayStops
  <2>1. HasSession
    BY <1>10 DEF ReplayStops, TypeOK
  <2>2. Build(Moved(Current, "STOPPED")) \/ UNCHANGED <<sessions, runners>>
    BY <1>10 DEF ReplayStops
  <2> QED
    BY <1>1, <1>2, <1>3, <1>5, <2>1, <2>2 DEF SessionStates
<1> QED
  BY <1>6, <1>7, <1>8, <1>9, <1>10

\* However many threads step a session and whatever races they lose, every candle
\* its source hands out is in the history once or on its way there, and the
\* processed count falls behind by the candles being processed or lost.
THEOREM CandlesStayAccounted == Spec => []CandlesAccounted
<1>1. Init => Counted
  BY DEF Init, Counted
<1>2. TypeOK /\ Counted /\ [Next]_vars => Counted'
  <2> SUFFICES ASSUME TypeOK, Counted, [Next]_vars PROVE Counted'
    OBVIOUS
  <2>1. CASE UNCHANGED vars
    BY <2>1, SteadyStep DEF vars, Counted, SameCounts, SameLoad
  <2>2. CASE Start \/ Pause \/ Resume \/ Stop \/ Replay \/ ReplayStops
    BY <2>2, RequestCounts
  <2>3. ASSUME NEW r \in DOMAIN runners, Proceed(r) PROVE Counted'
    BY <2>3, ProceedCounts
  <2> QED
    BY <2>1, <2>2, <2>3 DEF Next
<1>3. Counted => CandlesAccounted
  BY DEF Counted, Adds, Candles, HeldCandles, Held, Unfinished, CandlesAccounted
<1> QED
  BY <1>1, <1>2, <1>3, HostTypeCorrect, PTL DEF Spec

-----------------------------------------------------------------------------
(* Clients that never resume *)

\* Without resume(), session r is stepped by thread r and by nobody else.
THEOREM OneThreadPerSession ==
  ASSUME "resume" \notin Endpoints
  PROVE  Spec => [](TypeOK /\ Solo) /\ [][StopsKept]_vars
<1>1. Init => TypeOK /\ Solo
  BY DEF Init, TypeOK, Solo
<1>2. TypeOK /\ Solo /\ [Next]_vars => (TypeOK /\ Solo)' /\ [StopsKept]_vars
  <2> SUFFICES ASSUME TypeOK, Solo, [Next]_vars
               PROVE  TypeOK' /\ Solo' /\ (UNCHANGED vars \/ StopsKept)
    OBVIOUS
  <2>1. CASE UNCHANGED vars
    BY <2>1 DEF vars, TypeOK, Solo, SessionOf, HasSession
  <2>2. CASE Start \/ Pause \/ Stop \/ Replay \/ ReplayStops
    BY <2>2, EndpointStep
  <2>3. ~Resume
    BY DEF Resume, Accept
  <2>4. ASSUME NEW r \in DOMAIN runners, Proceed(r)
        PROVE  TypeOK' /\ Solo' /\ StopsKept
    BY <2>4, ProceedStep
  <2> QED
    BY <2>1, <2>2, <2>3, <2>4 DEF Next
<1> QED
  BY <1>1, <1>2, PTL DEF Spec

\* Without resume(), process_candle is never inside two calls of one session.
THEOREM OneCandleWithoutResume ==
  ASSUME "resume" \notin Endpoints
  PROVE  Spec => []OneCandleAtATime
<1>1. TypeOK /\ Solo => OneCandleAtATime
  <2> SUFFICES ASSUME TypeOK, Solo, NEW s \in DOMAIN sessions
               PROVE  Cardinality(Inside(s)) <= 1
    BY DEF OneCandleAtATime
  <2>1. Inside(s) \subseteq {s}
    BY DEF Inside, Solo, SessionOf
  <2>2. IsFiniteSet({s}) /\ Cardinality({s}) = 1
    BY FS_Singleton
  <2>3. Cardinality(Inside(s)) <= Cardinality({s}) /\ IsFiniteSet(Inside(s))
    BY <2>1, <2>2, FS_Subset
  <2> QED
    BY <2>2, <2>3, FS_CardinalityType
<1> QED
  BY <1>1, OneThreadPerSession, PTL

\* Without resume(), the history EventProcessor computes its indicators from is in
\* candle order.
THEOREM HistoryInOrderWithoutResume ==
  ASSUME "resume" \notin Endpoints
  PROVE  Spec => []HistoryInOrder
<1>1. TypeOK /\ Solo => HistoryInOrder
  <2> SUFFICES ASSUME TypeOK, Solo, NEW s \in DOMAIN sessions,
                      NEW i \in DOMAIN sessions[s].history,
                      NEW j \in DOMAIN sessions[s].history, i < j
               PROVE  sessions[s].history[i] < sessions[s].history[j]
    BY DEF HistoryInOrder
  <2>1. s \in DOMAIN runners
    BY DEF TypeOK, Solo
  <2>2. \A k \in DOMAIN sessions[s].history : sessions[s].history[k] = k
    BY <2>1 DEF Solo, Fits
  <2> QED
    BY <2>2
<1> QED
  BY <1>1, OneThreadPerSession, PTL

\* Without resume(), a session that has been stopped stays stopped.
THEOREM StopIsFinalWithoutResume ==
  ASSUME "resume" \notin Endpoints
  PROVE  Spec => StopIsFinal
<1>1. [StopsKept]_vars
        => [\A s \in DOMAIN sessions :
              sessions[s].state = "STOPPED" => sessions'[s].state = "STOPPED"]_vars
  BY DEF StopsKept, KeepsStopped
<1> QED
  BY <1>1, OneThreadPerSession, PTL DEF StopIsFinal

=============================================================================

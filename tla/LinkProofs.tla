----------------------------- MODULE LinkProofs -----------------------------
(***************************************************************************)
(* Proofs about Link, for every Retry-After a server may ask for, and with *)
(* any number of attempts told apart and of calls awaiting.                *)
(***************************************************************************)
EXTENDS Link, Integers, FiniteSetTheorems, TLAPS

Loops == [reconnecting : BOOLEAN, attempt : 0..MaxAttempt, wait : Nat, everConnected : BOOLEAN,
          firstRetries : 0..FIRST_CONNECT_RETRY_BUDGET, panel : Panels]

\* A loop that does not run has no timer, and none of its panels is shown.
Steady(l) == ~l.reconnecting => l.wait = 0 /\ l.panel \notin LoopPanels

SteadyLoops == {l \in Loops : Steady(l)}

LEMMA PowerNat == ASSUME NEW n \in Nat PROVE 2^n \in Nat
<1>1. IsFiniteSet(1..n) /\ Cardinality(1..n) = n
  BY FS_Interval
<1>2. IsFiniteSet(SUBSET (1..n)) /\ Cardinality(SUBSET (1..n)) = 2^n
  BY <1>1, FS_SUBSET
<1> QED BY <1>2, FS_CardinalityType

LEMMA DelayNat ==
  ASSUME NEW n \in Nat
  PROVE  backoffMs(n) \in Nat /\ FirstDelay(n) \in Nat
<1>1. 2^n \in Nat
  BY PowerNat
<1>2. 2 * 2^n \in Nat
  BY <1>1
<1> QED BY <1>1, <1>2 DEF backoffMs, FirstDelay, Least, MaxBackoff

LEMMA StopSteady ==
  ASSUME NEW l \in Loops
  PROVE  stopReconnect(l) \in SteadyLoops /\ ~stopReconnect(l).reconnecting
<1>1. 0 \in 0..MaxAttempt /\ "none" \in Panels /\ "none" \notin LoopPanels
  BY LinkAssumption DEF Panels, LoopPanels
<1>2. stopReconnect(l) \in Loops
  BY <1>1 DEF stopReconnect, Loops
<1>3. ~stopReconnect(l).reconnecting /\ stopReconnect(l).wait = 0 /\ stopReconnect(l).panel = "none"
  BY DEF stopReconnect, Loops
<1> QED BY <1>1, <1>2, <1>3 DEF SteadyLoops, Steady

\* In the panels that end an attempt.
LEMMA ShowSteady ==
  ASSUME NEW l \in SteadyLoops, NEW p \in EndPanels \cup {"none"}
  PROVE  showStatus(l, p) \in SteadyLoops /\ showStatus(l, p).reconnecting = l.reconnecting
  BY DEF showStatus, SteadyLoops, Steady, Loops, Panels, LoopPanels, EndPanels

LEMMA ScheduleSteady ==
  ASSUME NEW l \in Loops, l.reconnecting, NEW floor \in Nat
  PROVE  scheduleAttempt(l, floor) \in SteadyLoops
<1> DEFINE delay == Greatest(backoffMs(l.attempt), floor)
           longer == Greatest(delay, FirstDelay(l.firstRetries))
<1>1. delay \in Nat /\ longer \in Nat
  <2>1. l.attempt \in Nat /\ l.firstRetries \in Nat
    BY LinkAssumption DEF Loops, FIRST_CONNECT_RETRY_BUDGET
  <2> QED BY <2>1, DelayNat DEF Greatest
<1> HIDE DEF delay, longer
<1>2. "waiting" \in Panels
  BY DEF Panels, LoopPanels
<1>3. CASE l.everConnected
  <2>1. scheduleAttempt(l, floor) = [l EXCEPT !.wait = delay, !.panel = "waiting"]
    BY <1>3 DEF scheduleAttempt, delay
  <2> QED BY <2>1, <1>1, <1>2 DEF SteadyLoops, Steady, Loops
<1>4. CASE ~l.everConnected /\ l.firstRetries < FIRST_CONNECT_RETRY_BUDGET
  <2>1. scheduleAttempt(l, floor) =
          [l EXCEPT !.wait = longer, !.firstRetries = @ + 1, !.panel = "waiting"]
    BY <1>4 DEF scheduleAttempt, delay, longer
  <2>2. l.firstRetries + 1 \in 0..FIRST_CONNECT_RETRY_BUDGET
    BY <1>4 DEF Loops, FIRST_CONNECT_RETRY_BUDGET
  <2> QED BY <2>1, <2>2, <1>1, <1>2 DEF SteadyLoops, Steady, Loops
<1>5. CASE ~l.everConnected /\ ~(l.firstRetries < FIRST_CONNECT_RETRY_BUDGET)
  <2>1. scheduleAttempt(l, floor) = showStatus(stopReconnect(l), "unable")
    BY <1>5 DEF scheduleAttempt
  <2> QED BY <2>1, StopSteady, ShowSteady DEF EndPanels
<1> QED BY <1>3, <1>4, <1>5

LEMMA StartSteady ==
  ASSUME NEW l \in SteadyLoops, NEW floor \in Nat
  PROVE  startReconnect(l, floor) \in SteadyLoops
<1>1. CASE l.reconnecting
  BY <1>1 DEF startReconnect
<1>2. CASE ~l.reconnecting
  <2>1. [l EXCEPT !.reconnecting = TRUE] \in Loops
    BY DEF SteadyLoops, Loops
  <2>2. [l EXCEPT !.reconnecting = TRUE].reconnecting
    BY DEF SteadyLoops, Loops
  <2> QED BY <1>2, <2>1, <2>2, ScheduleSteady DEF startReconnect
<1> QED BY <1>1, <1>2

LEMMA RetrySteady ==
  ASSUME NEW l \in SteadyLoops, NEW floor \in Nat
  PROVE  Retry(l, floor) \in SteadyLoops
<1>1. l \in Loops
  BY DEF SteadyLoops
<1> QED BY <1>1, StartSteady, ScheduleSteady DEF Retry

LEMMA EndSteady ==
  ASSUME NEW l \in SteadyLoops, NEW p \in EndPanels \cup {"none"}
  PROVE  EndWith(l, p) \in SteadyLoops
<1>1. l \in Loops
  BY DEF SteadyLoops
<1> QED BY <1>1, StopSteady, ShowSteady DEF EndWith

LEMMA DispatchSteady ==
  ASSUME loop \in SteadyLoops, NEW code
  PROVE  CloseDispatch(code) \in SteadyLoops
<1> DEFINE rest == IF loop.reconnecting THEN stopReconnect(loop) ELSE loop
<1>1. loop \in Loops
  BY DEF SteadyLoops
<1>2. rest \in SteadyLoops
  BY <1>1, StopSteady
<1>3. EndPanel(code) \in EndPanels
  BY DEF EndPanel, EndPanels
<1>4. loop.reconnecting => scheduleAttempt(loop, 0) \in SteadyLoops
  BY <1>1, ScheduleSteady
<1>5. startReconnect(rest, 0) \in SteadyLoops /\ showStatus(rest, EndPanel(code)) \in SteadyLoops
  BY <1>2, <1>3, StartSteady, ShowSteady
<1> HIDE DEF rest
<1>6. \/ loop.reconnecting /\ CloseDispatch(code) = scheduleAttempt(loop, 0)
      \/ CloseDispatch(code) \in {startReconnect(rest, 0), showStatus(rest, EndPanel(code))}
  BY DEF CloseDispatch, rest
<1> QED BY <1>4, <1>5, <1>6

-----------------------------------------------------------------------------
(* The steps.  A session that runs is only disturbed by what starts the    *)
(* loop, and every call that does first asks whether there is one.         *)

LinkInv == TypeOK /\ loop \in SteadyLoops /\ HealthyIsQuiet

\* connect() as part of a step: there is no session while it awaits.
LEMMA ConnectStep ==
  ASSUME LinkInv, connect, loop' \in SteadyLoops,
         authRetries' \in 0..AUTH_RETRY_BUDGET, ws' \in {ws, "closed"}, peer' \in {peer, "none"},
         guarded' \in {guarded, FALSE}, UNCHANGED <<share, old>>,
         login' \in BOOLEAN, loginBusy' \in BOOLEAN, visible' \in BOOLEAN
  PROVE  LinkInv'
<1> USE DEF LinkInv
<1>1. stale' \in 0..MaxStale
  BY LinkAssumption DEF connect, TypeOK
<1>2. conn' \in [opened : BOOLEAN, helloSent : BOOLEAN, authError : BOOLEAN,
                 exit : BOOLEAN, welcomeDone : BOOLEAN] /\ ~conn'.welcomeDone
  BY DEF connect, Fresh
<1>3. loop' \in Loops
  BY DEF SteadyLoops
<1>4. chain' = "fetch"
  BY DEF connect
<1>5. TypeOK'
  BY <1>1, <1>2, <1>3, <1>4 DEF TypeOK, Loops
<1> QED BY <1>2, <1>5 DEF HealthyIsQuiet

LEMMA AttemptSteady ==
  ASSUME LinkInv, loop.panel \in LoopPanels \/ loop.wait # 0 \/ loop.reconnecting, runAttempt
  PROVE  loop' \in SteadyLoops
<1>1. loop \in Loops /\ loop.reconnecting
  BY DEF LinkInv, SteadyLoops, Steady
<1>2. Least(loop.attempt + 1, MaxAttempt) \in 0..MaxAttempt
  BY <1>1, LinkAssumption DEF Loops, Least
<1>3. "trying" \in Panels
  BY DEF Panels, LoopPanels
<1>4. loop' = [loop EXCEPT !.wait = 0, !.attempt = Least(loop.attempt + 1, MaxAttempt),
                           !.panel = "trying"]
  BY <1>1 DEF runAttempt, Loops
<1>5. loop' \in Loops /\ loop'.reconnecting
  BY <1>1, <1>2, <1>3, <1>4 DEF Loops
<1> QED BY <1>5 DEF SteadyLoops, Steady

LEMMA RunStep ==
  ASSUME LinkInv, loop.panel \in LoopPanels \/ loop.wait # 0 \/ loop.reconnecting, runAttempt,
         PageIdle, UNCHANGED <<login, loginBusy>>, visible' \in BOOLEAN
  PROVE  LinkInv'
<1>1. loop' \in SteadyLoops
  BY AttemptSteady
<1>2. login' \in BOOLEAN /\ loginBusy' \in BOOLEAN /\ authRetries' \in 0..AUTH_RETRY_BUDGET
  BY DEF LinkInv, TypeOK, PageIdle
<1> QED BY <1>1, <1>2, ConnectStep DEF PageIdle, runAttempt

\* A step that leaves the socket alone; if the loop changes there is no session.
LEMMA LoopStep ==
  ASSUME LinkInv, loop' \in SteadyLoops, loop' # loop => ~(Served /\ conn.welcomeDone),
         UNCHANGED <<share, ws, peer, old, conn, authRetries, guarded>>,
         chain' \in {"none", "fetch", "json"}, stale' \in 0..MaxStale,
         login' \in BOOLEAN, loginBusy' \in BOOLEAN, visible' \in BOOLEAN
  PROVE  LinkInv'
<1>1. loop' \in Loops
  BY DEF SteadyLoops
<1>2. TypeOK'
  BY <1>1 DEF LinkInv, TypeOK, Loops
<1> QED BY <1>2 DEF LinkInv, HealthyIsQuiet, Served

\* The tail of connect() closes the socket it replaces.
LEMMA OpenStep ==
  ASSUME LinkInv, OpenSocket
  PROVE  LinkInv'
<1>1. old' \subseteq {"connecting", "open", "closing"}
  BY DEF LinkInv, TypeOK, OpenSocket, CloseSocket
<1>2. TypeOK'
  BY <1>1 DEF LinkInv, TypeOK, OpenSocket
<1>3. loop' \in SteadyLoops /\ ws' # "open"
  BY DEF LinkInv, OpenSocket
<1> QED BY <1>1, <1>2, <1>3 DEF LinkInv, HealthyIsQuiet, Served

\* The catch clause: a session that runs has no loop to schedule.
LEMMA CatchSteady ==
  ASSUME LinkInv, CatchFetch
  PROVE  loop' \in SteadyLoops /\ (loop' # loop => ~(Served /\ conn.welcomeDone))
<1>1. loop \in SteadyLoops /\ loop \in Loops
  BY DEF LinkInv, SteadyLoops
<1>2. loop.reconnecting => scheduleAttempt(loop, 0) \in SteadyLoops
  BY <1>1, ScheduleSteady
<1>3. startReconnect(loop, 0) \in SteadyLoops
  BY <1>1, StartSteady
<1>4. loop' \in SteadyLoops
  BY <1>1, <1>2, <1>3 DEF CatchFetch
<1>5. ASSUME Served, conn.welcomeDone PROVE loop' = loop
  BY <1>5 DEF LinkInv, HealthyIsQuiet, CatchFetch
<1> QED BY <1>4, <1>5

LEMMA FetchStep ==
  ASSUME LinkInv, Fetch \/ BodyRead \/ Old
  PROVE  LinkInv'
<1>1. /\ loop \in SteadyLoops /\ stale \in 0..MaxStale
      /\ login \in BOOLEAN /\ loginBusy \in BOOLEAN /\ visible \in BOOLEAN
      /\ chain \in {"none", "fetch", "json"}
  BY DEF LinkInv, TypeOK
<1>2. CASE FetchOk
  BY <1>1, <1>2, LoopStep DEF FetchOk, LinkIdle
<1>3. CASE FetchNoAuth \/ BodyRead
  BY <1>3, OpenStep DEF FetchNoAuth, BodyRead
<1>4. CASE FetchDropped
  BY <1>1, <1>4, LoopStep DEF FetchDropped, LinkIdle
<1>5. CASE FetchUnauthorized
  <2>1. loop' \in SteadyLoops
    BY <1>1, <1>5, EndSteady DEF FetchUnauthorized
  <2>2. login' \in BOOLEAN
    BY <1>5 DEF FetchUnauthorized
  <2> QED BY <1>1, <1>5, <2>1, <2>2, LoopStep DEF FetchUnauthorized, LinkIdle, Superseded
<1>6. CASE FetchThrows
  <2>1. loop' \in SteadyLoops /\ (loop' # loop => ~(Served /\ conn.welcomeDone))
    BY <1>6, CatchSteady DEF FetchThrows
  <2> QED BY <1>1, <1>6, <2>1, LoopStep DEF FetchThrows, LinkIdle
<1>7. ASSUME NEW p \in {"share", "origin", "rejected"}, FetchRefused(p) PROVE LinkInv'
  <2>1. loop' \in SteadyLoops
    BY <1>1, <1>7, EndSteady DEF FetchRefused, EndPanels
  <2> QED BY <1>1, <1>7, <2>1, LoopStep DEF FetchRefused, LinkIdle, Superseded
<1>8. ASSUME NEW floor \in RetryAfter \cup {0}, FetchBusy(floor) PROVE LinkInv'
  <2>1. floor \in Nat
    BY LinkAssumption
  <2>2. loop' \in SteadyLoops
    BY <1>1, <1>8, <2>1, RetrySteady DEF FetchBusy
  <2> QED BY <1>1, <1>8, <2>2, LoopStep DEF FetchBusy, LinkIdle, Superseded
<1>9. CASE Old
  <2>1. stale' \in 0..MaxStale
    BY <1>1, <1>9, LinkAssumption DEF Old, StaleResolves, StaleThrows
  <2>2. CASE StaleResolves
    BY <1>1, <2>1, <2>2, LoopStep DEF StaleResolves, LinkIdle
  <2>3. CASE StaleThrows
    <3>1. loop' \in SteadyLoops /\ (loop' # loop => ~(Served /\ conn.welcomeDone))
      BY <2>3, CatchSteady DEF StaleThrows
    <3> QED BY <1>1, <2>1, <2>3, <3>1, LoopStep DEF StaleThrows, LinkIdle
  <2> QED BY <1>9, <2>2, <2>3 DEF Old
<1> QED BY <1>2, <1>3, <1>4, <1>5, <1>6, <1>7, <1>8, <1>9 DEF Fetch

-----------------------------------------------------------------------------
(* The socket. *)

\* A step that leaves no session, or a session and a loop that is off.
LEMMA SocketStep ==
  ASSUME LinkInv, loop' \in SteadyLoops, Quiet,
         ws' \in {"open", "closed"}, peer' \in {"none", "hello", "in", "failed", "refused", "exited"},
         conn' \in [opened : BOOLEAN, helloSent : BOOLEAN, authError : BOOLEAN,
                    exit : BOOLEAN, welcomeDone : BOOLEAN],
         authRetries' \in 0..AUTH_RETRY_BUDGET, guarded' \in BOOLEAN,
         ws' = "open" /\ peer' = "in" =>
           ~loop'.reconnecting /\ loop'.wait = 0 /\ loop'.panel \notin LoopPanels
  PROVE  LinkInv'
<1>1. loop' \in Loops
  BY DEF SteadyLoops
<1>2. TypeOK'
  BY <1>1 DEF LinkInv, TypeOK, Quiet, Loops
<1> QED BY <1>2 DEF LinkInv, HealthyIsQuiet, Served, Quiet

LEMMA WelcomeStep ==
  ASSUME LinkInv, RecvWelcome
  PROVE  LinkInv'
<1> DEFINE rest == IF loop.reconnecting THEN stopReconnect(loop) ELSE loop
<1>1. loop \in SteadyLoops /\ loop \in Loops
  BY DEF LinkInv, SteadyLoops
<1>2. rest \in SteadyLoops /\ ~rest.reconnecting
  BY <1>1, StopSteady
<1>3. rest \in Loops /\ rest.wait = 0 /\ rest.panel \notin LoopPanels
  BY <1>2 DEF SteadyLoops, Steady
<1>4. loop' = [rest EXCEPT !.everConnected = TRUE]
  BY DEF RecvWelcome
<1> HIDE DEF rest
<1>5. loop' \in Loops /\ ~loop'.reconnecting /\ loop'.wait = 0 /\ loop'.panel \notin LoopPanels
  BY <1>2, <1>3, <1>4 DEF Loops
<1>6. loop' \in SteadyLoops
  BY <1>5 DEF SteadyLoops, Steady
<1>7. conn \in [opened : BOOLEAN, helloSent : BOOLEAN, authError : BOOLEAN,
                exit : BOOLEAN, welcomeDone : BOOLEAN]
  BY DEF LinkInv, TypeOK
<1>8. conn' \in [opened : BOOLEAN, helloSent : BOOLEAN, authError : BOOLEAN,
                 exit : BOOLEAN, welcomeDone : BOOLEAN]
  BY <1>7 DEF RecvWelcome
<1>9. authRetries' \in 0..AUTH_RETRY_BUDGET
  BY DEF RecvWelcome, AUTH_RETRY_BUDGET
<1>10. guarded' \in BOOLEAN
  BY DEF RecvWelcome
<1>11. ws' = "open" /\ peer' = "in" /\ Quiet
  BY DEF RecvWelcome
<1> QED BY <1>5, <1>6, <1>8, <1>9, <1>10, <1>11, SocketStep

LEMMA CloseStep ==
  ASSUME LinkInv, NEW code, onclose(code)
  PROVE  LinkInv'
<1>1. loop \in SteadyLoops /\ authRetries \in 0..AUTH_RETRY_BUDGET
  BY DEF LinkInv, TypeOK
<1>2. ws' = "closed" /\ peer' = "none" /\ guarded' = FALSE
      /\ UNCHANGED <<share, old, login, loginBusy, visible>>
  BY DEF onclose
<1>3. CASE /\ loop' = CloseDispatch(code)
           /\ UNCHANGED <<chain, stale, conn, authRetries>>
  <2>1. loop' \in SteadyLoops
    BY <1>1, <1>3, DispatchSteady
  <2>2. conn' \in [opened : BOOLEAN, helloSent : BOOLEAN, authError : BOOLEAN,
                   exit : BOOLEAN, welcomeDone : BOOLEAN]
        /\ authRetries' \in 0..AUTH_RETRY_BUDGET
    BY <1>3 DEF LinkInv, TypeOK
  <2> QED BY <1>2, <1>3, <2>1, <2>2, SocketStep DEF Quiet
<1>4. CASE /\ authRetries < AUTH_RETRY_BUDGET /\ authRetries' = authRetries + 1
           /\ connect /\ UNCHANGED loop
  <2>1. authRetries' \in 0..AUTH_RETRY_BUDGET
    BY <1>1, <1>4 DEF AUTH_RETRY_BUDGET
  <2>2. login' \in BOOLEAN /\ loginBusy' \in BOOLEAN /\ visible' \in BOOLEAN
    BY <1>2 DEF LinkInv, TypeOK
  <2>3. loop' \in SteadyLoops
    BY <1>1, <1>4
  <2> QED BY <1>2, <1>4, <2>1, <2>2, <2>3, ConnectStep
<1>5. CASE /\ conn' = [conn EXCEPT !.authError = FALSE]
           /\ loop' = startReconnect(loop, 0)
           /\ UNCHANGED <<chain, stale, authRetries>>
  <2>1. loop' \in SteadyLoops
    BY <1>1, <1>5, StartSteady
  <2>2. conn' \in [opened : BOOLEAN, helloSent : BOOLEAN, authError : BOOLEAN,
                   exit : BOOLEAN, welcomeDone : BOOLEAN]
        /\ authRetries' \in 0..AUTH_RETRY_BUDGET
    BY <1>5 DEF LinkInv, TypeOK
  <2> QED BY <1>2, <1>5, <2>1, <2>2, SocketStep DEF Quiet
<1> QED BY <1>3, <1>4, <1>5 DEF onclose

LEMMA SocketsStep ==
  ASSUME LinkInv, Socket
  PROVE  LinkInv'
<1>1. /\ loop \in SteadyLoops /\ authRetries \in 0..AUTH_RETRY_BUDGET /\ guarded \in BOOLEAN
      /\ conn \in [opened : BOOLEAN, helloSent : BOOLEAN, authError : BOOLEAN,
                   exit : BOOLEAN, welcomeDone : BOOLEAN]
  BY DEF LinkInv, TypeOK
<1>2. CASE SocketOpens
  <2>1. conn' \in [opened : BOOLEAN, helloSent : BOOLEAN, authError : BOOLEAN,
                   exit : BOOLEAN, welcomeDone : BOOLEAN]
        /\ ws' = "open" /\ peer' = "hello" /\ UNCHANGED <<loop, authRetries, guarded>> /\ Quiet
    BY <1>1, <1>2 DEF SocketOpens
  <2> QED BY <1>1, <2>1, SocketStep
<1>3. CASE RecvWelcome
  BY <1>3, WelcomeStep
<1>4. CASE RecvExit
  <2>1. conn' \in [opened : BOOLEAN, helloSent : BOOLEAN, authError : BOOLEAN,
                   exit : BOOLEAN, welcomeDone : BOOLEAN]
        /\ ws' = "open" /\ peer' = "exited" /\ UNCHANGED <<loop, authRetries, guarded>> /\ Quiet
    BY <1>1, <1>4 DEF RecvExit
  <2> QED BY <1>1, <2>1, SocketStep
<1>5. CASE OldSocketCloses
  <2>1. old' \subseteq old /\ Ignored
    BY <1>5 DEF OldSocketCloses
  <2>2. TypeOK'
    BY <2>1 DEF LinkInv, TypeOK, Ignored
  <2> QED BY <2>1, <2>2 DEF LinkInv, Ignored, HealthyIsQuiet, Served
<1>6. ASSUME NEW authFailed \in BOOLEAN, RecvError(authFailed) PROVE LinkInv'
  <2>1. conn' \in [opened : BOOLEAN, helloSent : BOOLEAN, authError : BOOLEAN,
                   exit : BOOLEAN, welcomeDone : BOOLEAN]
    BY <1>1, <1>6 DEF RecvError
  <2>2. peer' \in {"failed", "refused"} /\ ws' = "open"
        /\ UNCHANGED <<loop, authRetries, guarded>> /\ Quiet
    BY <1>6 DEF RecvError
  <2> QED BY <1>1, <2>1, <2>2, SocketStep
<1>7. ASSUME NEW code \in CloseCodes, SocketCloses(code) PROVE LinkInv'
  BY <1>7, CloseStep DEF SocketCloses
<1> QED BY <1>2, <1>3, <1>4, <1>5, <1>6, <1>7 DEF Socket

-----------------------------------------------------------------------------
(* The timer and the page. *)

LEMMA PageStep ==
  ASSUME LinkInv, TimerFires \/ Page
  PROVE  LinkInv'
<1>1. /\ loop \in SteadyLoops /\ stale \in 0..MaxStale /\ chain \in {"none", "fetch", "json"}
      /\ login \in BOOLEAN /\ loginBusy \in BOOLEAN /\ visible \in BOOLEAN
      /\ authRetries \in 0..AUTH_RETRY_BUDGET
  BY DEF LinkInv, TypeOK
<1>2. CASE TimerFires \/ ClickReconnect \/ Online
  <2>1. visible' \in BOOLEAN
    BY <1>1, <1>2 DEF TimerFires, ClickReconnect, Online
  <2> QED BY <1>2, <2>1, RunStep DEF TimerFires, ClickReconnect, Online
<1>3. CASE Offline
  <2>1. loop' \in SteadyLoops
    BY <1>1, <1>3, StartSteady DEF Offline
  <2>2. ~Served
    BY <1>3 DEF Offline, Served
  <2> QED BY <1>1, <1>3, <2>1, <2>2, LoopStep DEF Offline, PageIdle
<1>4. CASE Hide
  <2>1. visible' \in BOOLEAN
    BY <1>4 DEF Hide
  <2> QED BY <1>1, <1>4, <2>1, LoopStep DEF Hide, PageIdle
<1>5. CASE Show
  <2>1. visible' \in BOOLEAN /\ UNCHANGED <<login, loginBusy>> /\ PageIdle
    BY <1>5 DEF Show
  <2>2. CASE loop.reconnecting /\ runAttempt
    BY <2>1, <2>2, RunStep
  <2>3. CASE ws # "open" /\ loop' = startReconnect(loop, 0) /\ UNCHANGED <<chain, stale, conn>>
    <3>1. loop' \in SteadyLoops
      BY <1>1, <2>3, StartSteady
    <3> QED BY <1>1, <2>1, <2>3, <3>1, LoopStep DEF PageIdle, Served
  <2>4. CASE UNCHANGED <<chain, stale, conn, loop>>
    BY <1>1, <2>1, <2>4, LoopStep DEF PageIdle
  <2> QED BY <1>5, <2>2, <2>3, <2>4 DEF Show
<1>6. CASE PageRestored
  <2>1. loop' \in SteadyLoops /\ loop' \in Loops
    BY <1>1, <1>6, StartSteady DEF PageRestored, SteadyLoops
  <2>2. ws' \in {"none", "closing", "closed"}
    BY <1>6 DEF PageRestored, CloseSocket, LinkInv, TypeOK
  <2>3. TypeOK'
    BY <1>6, <2>1, <2>2 DEF PageRestored, LinkInv, TypeOK, Loops
  <2> QED BY <1>6, <2>1, <2>2, <2>3 DEF PageRestored, LinkInv, HealthyIsQuiet, Served
<1>7. CASE SubmitLogin
  <2>1. loginBusy' \in BOOLEAN
    BY <1>7 DEF SubmitLogin
  <2> QED BY <1>1, <1>7, <2>1, LoopStep DEF SubmitLogin, PageIdle
<1>8. CASE LoginAccepted
  <2>1. login' \in BOOLEAN /\ loginBusy' \in BOOLEAN /\ connect
        /\ UNCHANGED <<loop, visible>> /\ PageIdle
    BY <1>8 DEF LoginAccepted
  <2> QED BY <1>1, <2>1, ConnectStep DEF PageIdle
<1>9. CASE LoginDenied
  <2>1. loop' \in SteadyLoops /\ loop' \in Loops /\ loop'.reconnecting = loop.reconnecting
    BY <1>1, <1>9, ShowSteady DEF LoginDenied, SteadyLoops
  <2>2. loop'.wait = loop.wait /\ loop'.panel = "none"
    BY <1>1, <1>9 DEF LoginDenied, showStatus, SteadyLoops, Loops
  <2>3. login' \in BOOLEAN /\ loginBusy' \in BOOLEAN
    BY <1>9 DEF LoginDenied
  <2>4. TypeOK'
    BY <1>9, <2>1, <2>3 DEF LoginDenied, PageIdle, LinkInv, TypeOK, Loops
  <2>5. "none" \notin LoopPanels
    BY DEF LoopPanels
  <2> QED BY <1>9, <2>1, <2>2, <2>4, <2>5
          DEF LoginDenied, PageIdle, LinkInv, HealthyIsQuiet, Served
<1> QED BY <1>2, <1>3, <1>4, <1>5, <1>6, <1>7, <1>8, <1>9 DEF Page

-----------------------------------------------------------------------------
LEMMA LinkInitial == Init => LinkInv
<1> SUFFICES ASSUME Init PROVE LinkInv
  OBVIOUS
<1>1. loop \in Loops
  BY LinkAssumption DEF Init, Loops, FIRST_CONNECT_RETRY_BUDGET, Panels
<1>2. share \in BOOLEAN /\ login \in BOOLEAN /\ loginBusy \in BOOLEAN
      /\ guarded \in BOOLEAN /\ visible \in BOOLEAN
  BY DEF Init
<1>3. conn \in [opened : BOOLEAN, helloSent : BOOLEAN, authError : BOOLEAN,
                exit : BOOLEAN, welcomeDone : BOOLEAN]
  BY DEF Init, Fresh
<1>4. stale \in 0..MaxStale /\ authRetries \in 0..AUTH_RETRY_BUDGET
  BY LinkAssumption DEF Init, AUTH_RETRY_BUDGET
<1>5. /\ ws \in {"none", "connecting", "open", "closing", "closed"}
      /\ peer \in {"none", "hello", "in", "failed", "refused", "exited"}
      /\ old \subseteq {"connecting", "open", "closing"}
      /\ chain \in {"none", "fetch", "json"}
  BY DEF Init
<1>6. TypeOK
  BY <1>1, <1>2, <1>3, <1>4, <1>5 DEF TypeOK, Loops
<1> QED BY <1>1, <1>6
        DEF Init, LinkInv, SteadyLoops, Steady, LoopPanels, HealthyIsQuiet, Served

LEMMA LinkSteps == LinkInv /\ [Next]_vars => LinkInv'
<1> SUFFICES ASSUME LinkInv, [Next]_vars PROVE LinkInv'
  OBVIOUS
<1>1. CASE UNCHANGED vars
  BY <1>1 DEF vars, LinkInv, TypeOK, HealthyIsQuiet, Served
<1> QED BY <1>1, FetchStep, SocketsStep, PageStep DEF Next

\* What ends a session, step by step: a call that goes on asked first whether
\* there is one, and what dials at once needs a loop that runs.
LEMMA KeptStep ==
  ASSUME LinkInv, Next, Served, conn.welcomeDone, ~(Served /\ conn.welcomeDone)'
  PROVE  ws' = "closed" \/ peer' = "exited" \/ PageRestored \/ LoginAccepted
<1>1. ~loop.reconnecting /\ loop.wait = 0 /\ loop.panel \notin LoopPanels
  BY DEF LinkInv, HealthyIsQuiet
<1>2. ws = "open" /\ peer = "in"
  BY DEF Served
<1>3. ~(UNCHANGED <<ws, peer, conn>>)
  BY DEF Served
<1>4. ~Fetch /\ ~BodyRead /\ ~Old
  BY <1>3 DEF Fetch, FetchOk, FetchNoAuth, FetchDropped, FetchUnauthorized, FetchThrows,
              FetchRefused, FetchBusy, BodyRead, Old, StaleResolves, StaleThrows, LinkIdle,
              Superseded
<1>5. ~TimerFires
  BY <1>1 DEF TimerFires
<1>6. ASSUME Socket PROVE ws' = "closed" \/ peer' = "exited"
  <2>1. ~SocketOpens /\ ~OldSocketCloses
    BY <1>2, <1>3 DEF SocketOpens, OldSocketCloses, Ignored
  <2>2. ~RecvWelcome
    <3>1. conn \in [opened : BOOLEAN, helloSent : BOOLEAN, authError : BOOLEAN,
                    exit : BOOLEAN, welcomeDone : BOOLEAN]
      BY DEF LinkInv, TypeOK
    <3>2. ASSUME RecvWelcome PROVE conn'.welcomeDone
      BY <3>1, <3>2 DEF RecvWelcome
    <3>3. ASSUME RecvWelcome PROVE Served'
      BY <1>2, <3>3 DEF RecvWelcome, Served
    <3> QED BY <3>2, <3>3
  <2>3. ~(\E authFailed \in BOOLEAN : RecvError(authFailed))
    BY <1>2 DEF RecvError
  <2> QED BY <1>6, <2>1, <2>2, <2>3 DEF Socket, RecvExit, SocketCloses, onclose
<1>7. ASSUME Page PROVE PageRestored \/ LoginAccepted
  BY <1>1, <1>2, <1>3, <1>7
     DEF Page, ClickReconnect, Online, Offline, Hide, Show, SubmitLogin, LoginDenied, PageIdle
<1> QED BY <1>4, <1>5, <1>6, <1>7 DEF Next

LEMMA LinkInvariant == Spec => []LinkInv
  BY LinkInitial, LinkSteps, PTL DEF Spec

\* The page's variables keep their types, and a loop that does not run has
\* neither a timer nor a panel (stopReconnect of main.ts).
THEOREM LinkTypeCorrect == Spec => []TypeOK
  BY LinkInvariant, PTL DEF LinkInv

\* While a session the page knows of is open, no reconnect loop runs, whatever
\* call to connect() still awaits and whatever event of the window comes.
THEOREM QuietWhenHealthy == Spec => []HealthyIsQuiet
  BY LinkInvariant, PTL DEF LinkInv

\* A running session is never ended by the page itself, but for a restore from
\* the cache and a new login: no late answer of an older call replaces its socket.
THEOREM SessionKept == Spec => HealthyKept
<1>1. LinkInv /\ [Next]_vars =>
        [Served /\ conn.welcomeDone /\ ~(Served /\ conn.welcomeDone)' =>
           ws' = "closed" \/ peer' = "exited" \/ PageRestored \/ LoginAccepted]_vars
  BY KeptStep
<1> QED BY <1>1, LinkInvariant, PTL DEF Spec, HealthyKept

-----------------------------------------------------------------------------
(* What wakes the loop. *)

\* A loop that runs on its timer.
Timed(l) == l.reconnecting => l.wait # 0

LEMMA DelayPositive ==
  ASSUME NEW n \in Nat
  PROVE  backoffMs(n) \in Nat \ {0} /\ FirstDelay(n) \in Nat \ {0}
<1>1. IsFiniteSet(1..n) /\ Cardinality(1..n) = n
  BY FS_Interval
<1>2. IsFiniteSet(SUBSET (1..n)) /\ Cardinality(SUBSET (1..n)) = 2^n
  BY <1>1, FS_SUBSET
<1>3. SUBSET (1..n) # {}
  OBVIOUS
<1>4. Cardinality(SUBSET (1..n)) \in Nat \ {0}
  BY <1>2, <1>3, FS_CardinalityType, FS_EmptySet
<1>5. 2^n \in Nat \ {0}
  BY <1>2, <1>4
<1>6. 2 * 2^n \in Nat \ {0}
  BY <1>5
<1> QED BY <1>5, <1>6 DEF backoffMs, FirstDelay, Least, MaxBackoff

\* scheduleAttempt sets the timer or gives the loop up.
LEMMA ScheduleTimed ==
  ASSUME NEW l \in Loops, NEW floor \in Nat
  PROVE  Timed(scheduleAttempt(l, floor))
<1> DEFINE delay == Greatest(backoffMs(l.attempt), floor)
           longer == Greatest(delay, FirstDelay(l.firstRetries))
<1>1. delay \in Nat \ {0} /\ longer \in Nat \ {0}
  <2>1. l.attempt \in Nat /\ l.firstRetries \in Nat
    BY LinkAssumption DEF Loops, FIRST_CONNECT_RETRY_BUDGET
  <2> QED BY <2>1, DelayPositive DEF Greatest
<1> HIDE DEF delay, longer
<1>2. CASE l.everConnected
  <2>1. scheduleAttempt(l, floor) = [l EXCEPT !.wait = delay, !.panel = "waiting"]
    BY <1>2 DEF scheduleAttempt, delay
  <2> QED BY <1>1, <2>1 DEF Timed, Loops
<1>3. CASE ~l.everConnected /\ l.firstRetries < FIRST_CONNECT_RETRY_BUDGET
  <2>1. scheduleAttempt(l, floor) =
          [l EXCEPT !.wait = longer, !.firstRetries = @ + 1, !.panel = "waiting"]
    BY <1>3 DEF scheduleAttempt, delay, longer
  <2> QED BY <1>1, <2>1 DEF Timed, Loops
<1>4. CASE ~l.everConnected /\ ~(l.firstRetries < FIRST_CONNECT_RETRY_BUDGET)
  <2>1. scheduleAttempt(l, floor) = showStatus(stopReconnect(l), "unable")
    BY <1>4 DEF scheduleAttempt
  <2>2. stopReconnect(l) \in SteadyLoops /\ ~stopReconnect(l).reconnecting
    BY StopSteady
  <2> QED BY <2>1, <2>2, ShowSteady DEF Timed, EndPanels
<1> QED BY <1>2, <1>3, <1>4

\* startReconnect does nothing to a loop that runs.
LEMMA StartTimed ==
  ASSUME NEW l \in Loops
  PROVE  startReconnect(l, 0) = l \/ Timed(startReconnect(l, 0))
<1>1. [l EXCEPT !.reconnecting = TRUE] \in Loops
  BY DEF Loops
<1> QED BY <1>1, ScheduleTimed DEF startReconnect

LEMMA RetryTimed ==
  ASSUME NEW l \in Loops, NEW floor \in Nat
  PROVE  Timed(Retry(l, floor))
<1>1. [l EXCEPT !.reconnecting = TRUE] \in Loops
  BY DEF Loops
<1> QED BY <1>1, ScheduleTimed DEF Retry, startReconnect

LEMMA EndTimed ==
  ASSUME NEW l \in SteadyLoops, NEW p \in EndPanels \cup {"none"}
  PROVE  Timed(EndWith(l, p))
<1>1. l \in Loops
  BY DEF SteadyLoops
<1> QED BY <1>1, StopSteady, ShowSteady DEF EndWith, Timed

\* onclose leaves the loop on its timer, or off.
LEMMA DispatchTimed ==
  ASSUME loop \in SteadyLoops, NEW code
  PROVE  Timed(CloseDispatch(code))
<1> DEFINE rest == IF loop.reconnecting THEN stopReconnect(loop) ELSE loop
<1>1. loop \in Loops
  BY DEF SteadyLoops
<1>2. rest \in SteadyLoops /\ rest \in Loops /\ ~rest.reconnecting
  BY <1>1, StopSteady DEF SteadyLoops
<1>3. EndPanel(code) \in EndPanels
  BY DEF EndPanel, EndPanels
<1> HIDE DEF rest
<1>4. Timed(scheduleAttempt(loop, 0)) /\ Timed(startReconnect(rest, 0))
  <2>1. startReconnect(rest, 0) = rest => Timed(startReconnect(rest, 0))
    BY <1>2 DEF Timed
  <2> QED BY <1>1, <1>2, <2>1, ScheduleTimed, StartTimed
<1>5. Timed(showStatus(rest, EndPanel(code)))
  BY <1>2, <1>3, ShowSteady DEF Timed
<1>6. CloseDispatch(code) \in {scheduleAttempt(loop, 0), startReconnect(rest, 0),
                               showStatus(rest, EndPanel(code))}
  BY DEF CloseDispatch, rest
<1> QED BY <1>4, <1>5, <1>6

\* The driver, and what keeps it: once a session came up, nothing but the timer
\* runs the loop, until the next call to connect().
DriverInv ==
  /\ LoopHasDriverBelowBudget
  /\ conn.welcomeDone => Timed(loop)

\* A loop on its timer, or the loop of before with what drove it still there.
LEMMA DriverKept ==
  ASSUME DriverInv, authRetries' \in {authRetries, AUTH_RETRY_BUDGET},
         conn'.welcomeDone => conn.welcomeDone,
         \/ Timed(loop')
         \/ /\ loop' = loop
            /\ chain # "none" => chain' # "none" \/ ws' = "connecting" \/ conn.welcomeDone
            /\ ws \in {"connecting", "open", "closing"} =>
                 ws' \in {"connecting", "open", "closing"}
  PROVE  DriverInv'
BY DEF DriverInv, LoopHasDriverBelowBudget, LoopHasDriver, Timed, AUTH_RETRY_BUDGET

\* The catch clause schedules the loop that runs.
LEMMA CatchTimed ==
  ASSUME LinkInv, DriverInv, CatchFetch
  PROVE  Timed(loop')
<1>1. loop \in Loops /\ [loop EXCEPT !.reconnecting = TRUE] \in Loops
  BY DEF LinkInv, SteadyLoops, Loops
<1> QED BY <1>1, ScheduleTimed DEF CatchFetch, startReconnect, DriverInv, Timed

LEMMA FetchDriven ==
  ASSUME LinkInv, DriverInv, Fetch \/ BodyRead \/ Old
  PROVE  DriverInv'
<1>1. loop \in SteadyLoops /\ loop \in Loops
  BY DEF LinkInv, SteadyLoops
<1>2. CASE FetchOk \/ FetchNoAuth \/ BodyRead
  BY <1>2, DriverKept DEF FetchOk, FetchNoAuth, BodyRead, OpenSocket, LinkIdle
<1>3. CASE FetchDropped \/ StaleResolves
  BY <1>3, DriverKept DEF FetchDropped, StaleResolves, Superseded, LinkIdle
<1>4. CASE FetchUnauthorized
  <2>1. Timed(loop')
    BY <1>1, <1>4, EndTimed DEF FetchUnauthorized
  <2> QED BY <1>4, <2>1, DriverKept DEF FetchUnauthorized, LinkIdle
<1>5. CASE FetchThrows \/ StaleThrows
  <2>1. Timed(loop') /\ UNCHANGED <<conn, authRetries>>
    BY <1>5, CatchTimed DEF FetchThrows, StaleThrows, LinkIdle
  <2> QED BY <2>1, DriverKept
<1>6. ASSUME NEW p \in {"share", "origin", "rejected"}, FetchRefused(p) PROVE DriverInv'
  <2>1. Timed(loop')
    BY <1>1, <1>6, EndTimed DEF FetchRefused, EndPanels
  <2> QED BY <1>6, <2>1, DriverKept DEF FetchRefused, LinkIdle
<1>7. ASSUME NEW floor \in RetryAfter \cup {0}, FetchBusy(floor) PROVE DriverInv'
  <2>1. floor \in Nat
    BY LinkAssumption
  <2>2. Timed(loop')
    BY <1>1, <1>7, <2>1, RetryTimed DEF FetchBusy
  <2> QED BY <1>7, <2>2, DriverKept DEF FetchBusy, LinkIdle
<1> QED BY <1>2, <1>3, <1>4, <1>5, <1>6, <1>7 DEF Fetch, Old

LEMMA SocketDriven ==
  ASSUME LinkInv, DriverInv, Socket
  PROVE  DriverInv'
<1>1. /\ loop \in SteadyLoops /\ loop \in Loops
      /\ conn \in [opened : BOOLEAN, helloSent : BOOLEAN, authError : BOOLEAN,
                   exit : BOOLEAN, welcomeDone : BOOLEAN]
  BY DEF LinkInv, TypeOK, SteadyLoops
<1>2. CASE SocketOpens \/ RecvExit \/ \E authFailed \in BOOLEAN : RecvError(authFailed)
  <2>1. conn'.welcomeDone = conn.welcomeDone
    BY <1>1, <1>2 DEF SocketOpens, RecvExit, RecvError
  <2>2. ws' = "open" /\ UNCHANGED <<loop, authRetries, chain>>
    BY <1>2 DEF SocketOpens, RecvExit, RecvError, Quiet
  <2> QED BY <2>1, <2>2, DriverKept
<1>3. CASE OldSocketCloses
  BY <1>3, DriverKept DEF OldSocketCloses, Ignored
<1>4. CASE RecvWelcome
  <2> DEFINE rest == IF loop.reconnecting THEN stopReconnect(loop) ELSE loop
  <2>1. rest \in Loops /\ ~rest.reconnecting
    BY <1>1, StopSteady DEF SteadyLoops
  <2>2. loop' = [rest EXCEPT !.everConnected = TRUE]
    BY <1>4 DEF RecvWelcome
  <2> HIDE DEF rest
  <2>3. ~loop'.reconnecting
    BY <2>1, <2>2 DEF Loops
  <2> QED BY <2>3 DEF DriverInv, LoopHasDriverBelowBudget, LoopHasDriver, Timed
<1>5. ASSUME NEW code \in CloseCodes, SocketCloses(code) PROVE DriverInv'
  <2>1. CASE loop' = CloseDispatch(code) /\ UNCHANGED <<conn, authRetries>>
    BY <1>1, <2>1, DispatchTimed, DriverKept
  <2>2. CASE connect
    BY <2>2 DEF connect, Fresh, DriverInv, LoopHasDriverBelowBudget, LoopHasDriver
  <2>3. CASE /\ authRetries = AUTH_RETRY_BUDGET /\ authRetries' = authRetries
             /\ conn' = [conn EXCEPT !.authError = FALSE]
             /\ loop' = startReconnect(loop, 0)
    <3>1. conn'.welcomeDone = conn.welcomeDone
      BY <1>1, <2>3
    <3>2. conn.welcomeDone => Timed(loop')
      BY <1>1, <2>3, StartTimed DEF DriverInv
    <3>3. ~(authRetries' < AUTH_RETRY_BUDGET)
      BY <2>3 DEF AUTH_RETRY_BUDGET
    <3> QED BY <3>1, <3>2, <3>3 DEF DriverInv, LoopHasDriverBelowBudget
  <2> QED BY <1>5, <2>1, <2>2, <2>3 DEF SocketCloses, onclose
<1> QED BY <1>2, <1>3, <1>4, <1>5 DEF Socket

LEMMA PageDriven ==
  ASSUME LinkInv, DriverInv, TimerFires \/ Page
  PROVE  DriverInv'
<1>1. loop \in Loops
  BY DEF LinkInv, SteadyLoops
<1>2. CASE connect
  BY <1>2 DEF connect, Fresh, DriverInv, LoopHasDriverBelowBudget, LoopHasDriver
<1>3. CASE /\ loop' \in {loop, startReconnect(loop, 0)} /\ UNCHANGED <<chain, conn, authRetries>>
           /\ ws' \in {ws, CloseSocket(ws)}
  <2>1. Timed(loop') \/ loop' = loop
    BY <1>1, <1>3, StartTimed
  <2>2. ws \in {"connecting", "open", "closing"} => ws' \in {"connecting", "open", "closing"}
    BY <1>3 DEF CloseSocket
  <2> QED BY <1>3, <2>1, <2>2, DriverKept
<1>4. CASE LoginDenied
  <2>1. /\ loop'.reconnecting = loop.reconnecting /\ loop'.wait = loop.wait
        /\ UNCHANGED <<chain, conn, ws, authRetries>>
    BY <1>1, <1>4 DEF LoginDenied, showStatus, PageIdle, Loops
  <2> QED BY <2>1 DEF DriverInv, LoopHasDriverBelowBudget, LoopHasDriver, Timed
<1>5. \/ connect
      \/ LoginDenied
      \/ /\ loop' \in {loop, startReconnect(loop, 0)} /\ UNCHANGED <<chain, conn, authRetries>>
         /\ ws' \in {ws, CloseSocket(ws)}
  BY DEF TimerFires, Page, ClickReconnect, Online, Offline, Hide, Show, PageRestored, SubmitLogin,
         LoginAccepted, runAttempt, PageIdle
<1> QED BY <1>2, <1>3, <1>4, <1>5

LEMMA DriverSteps == LinkInv /\ DriverInv /\ [Next]_vars => DriverInv'
<1> SUFFICES ASSUME LinkInv, DriverInv, [Next]_vars PROVE DriverInv'
  OBVIOUS
<1>1. CASE UNCHANGED vars
  BY <1>1, DriverKept DEF vars
<1> QED BY <1>1, FetchDriven, SocketDriven, PageDriven DEF Next

\* A loop that runs has something that wakes it while auth_failed is still
\* answered at once (onclose, scheduleAttempt, startReconnect of main.ts).
THEOREM LoopIsDriven == Spec => []LoopHasDriverBelowBudget
<1>1. Init => DriverInv
  BY DEF Init, Fresh, DriverInv, LoopHasDriverBelowBudget, LoopHasDriver, Timed
<1>2. DriverInv => LoopHasDriverBelowBudget
  BY DEF DriverInv
<1> QED BY <1>1, <1>2, DriverSteps, LinkInvariant, PTL DEF Spec

-----------------------------------------------------------------------------
(* What the page shows.  An older call that is dropped since a session     *)
(* came up leaves everything as it is, hence the session that came up and  *)
(* is gone must have left a panel as well.                                 *)

Telling == loop.panel # "none" \/ login

Idle ==
  /\ authRetries < AUTH_RETRY_BUDGET
  /\ loop.wait = 0
  /\ ws \in {"none", "closed"}
  /\ chain = "none" \/ conn.welcomeDone

TellInv == Idle => Telling

\* scheduleAttempt shows that it waits, or that it gave up.
LEMMA ScheduleTells ==
  ASSUME NEW l \in Loops, NEW floor \in Nat
  PROVE  scheduleAttempt(l, floor).panel # "none"
<1> DEFINE delay == Greatest(backoffMs(l.attempt), floor)
           longer == Greatest(delay, FirstDelay(l.firstRetries))
<1> HIDE DEF delay, longer
<1>1. scheduleAttempt(l, floor) \in
        {[l EXCEPT !.wait = delay, !.panel = "waiting"],
         [l EXCEPT !.wait = longer, !.firstRetries = @ + 1, !.panel = "waiting"],
         showStatus(stopReconnect(l), "unable")}
  BY DEF scheduleAttempt, delay, longer
<1>2. showStatus(stopReconnect(l), "unable").panel = "unable"
  BY DEF showStatus, stopReconnect, Loops
<1> QED BY <1>1, <1>2 DEF Loops

LEMMA StartTells ==
  ASSUME NEW l \in Loops
  PROVE  startReconnect(l, 0) = l \/ startReconnect(l, 0).panel # "none"
<1>1. [l EXCEPT !.reconnecting = TRUE] \in Loops
  BY DEF Loops
<1> QED BY <1>1, ScheduleTells DEF startReconnect

LEMMA RetryTells ==
  ASSUME NEW l \in Loops, NEW floor \in Nat
  PROVE  Retry(l, floor).panel # "none"
<1>1. [l EXCEPT !.reconnecting = TRUE] \in Loops
  BY DEF Loops
<1> QED BY <1>1, ScheduleTells DEF Retry, startReconnect

\* The loop is ended first, then the panel shown.
LEMMA EndTells ==
  ASSUME NEW l \in Loops, NEW p
  PROVE  EndWith(l, p).panel = p
<1>1. stopReconnect(l) \in Loops
  BY StopSteady DEF SteadyLoops
<1> QED BY <1>1 DEF EndWith, showStatus, Loops

LEMMA DispatchTells ==
  ASSUME loop \in Loops, NEW code
  PROVE  CloseDispatch(code).panel # "none"
<1> DEFINE rest == IF loop.reconnecting THEN stopReconnect(loop) ELSE loop
<1>1. rest \in Loops /\ ~rest.reconnecting
  BY StopSteady DEF SteadyLoops
<1> HIDE DEF rest
<1>2. startReconnect(rest, 0).panel # "none"
  <2>1. [rest EXCEPT !.reconnecting = TRUE] \in Loops
    BY <1>1 DEF Loops
  <2> QED BY <1>1, <2>1, ScheduleTells DEF startReconnect
<1>3. showStatus(rest, EndPanel(code)).panel # "none"
  BY <1>1 DEF showStatus, Loops, EndPanel
<1>4. scheduleAttempt(loop, 0).panel # "none"
  BY ScheduleTells
<1>5. CloseDispatch(code) \in {scheduleAttempt(loop, 0), startReconnect(rest, 0),
                               showStatus(rest, EndPanel(code))}
  BY DEF CloseDispatch, rest
<1> QED BY <1>2, <1>3, <1>4, <1>5

\* The catch clause leaves the loop alone only if a session came up.
LEMMA CatchTells ==
  ASSUME LinkInv, TellInv, CatchFetch, UNCHANGED <<conn, ws, authRetries, login>>
  PROVE  TellInv'
<1>1. loop \in Loops /\ [loop EXCEPT !.reconnecting = TRUE] \in Loops
  BY DEF LinkInv, SteadyLoops, Loops
<1>2. loop'.panel # "none" \/ (loop' = loop /\ conn.welcomeDone)
  BY <1>1, ScheduleTells DEF CatchFetch, startReconnect
<1> QED BY <1>2 DEF TellInv, Idle, Telling

LEMMA FetchTells ==
  ASSUME LinkInv, TellInv, Fetch \/ BodyRead \/ Old
  PROVE  TellInv'
<1>1. loop \in Loops
  BY DEF LinkInv, SteadyLoops
<1>2. CASE FetchOk
  BY <1>2 DEF FetchOk, LinkIdle, Superseded, TellInv, Idle, Telling
<1>3. CASE FetchNoAuth \/ BodyRead
  BY <1>3 DEF FetchNoAuth, BodyRead, OpenSocket, TellInv, Idle
<1>4. CASE FetchDropped \/ StaleResolves
  BY <1>4 DEF FetchDropped, StaleResolves, LinkIdle, Superseded, TellInv, Idle, Telling
<1>5. CASE FetchUnauthorized
  BY <1>5 DEF FetchUnauthorized, TellInv, Telling
<1>6. CASE FetchThrows \/ StaleThrows
  BY <1>6, CatchTells DEF FetchThrows, StaleThrows, LinkIdle
<1>7. ASSUME NEW p \in {"share", "origin", "rejected"}, FetchRefused(p) PROVE TellInv'
  <2>1. loop'.panel = p
    BY <1>1, <1>7, EndTells DEF FetchRefused
  <2> QED BY <2>1 DEF TellInv, Telling
<1>8. ASSUME NEW floor \in RetryAfter \cup {0}, FetchBusy(floor) PROVE TellInv'
  <2>1. floor \in Nat
    BY LinkAssumption
  <2>2. loop'.panel # "none"
    BY <1>1, <1>8, <2>1, RetryTells DEF FetchBusy
  <2> QED BY <2>2 DEF TellInv, Telling
<1> QED BY <1>2, <1>3, <1>4, <1>5, <1>6, <1>7, <1>8 DEF Fetch, Old

LEMMA SocketTells ==
  ASSUME LinkInv, TellInv, Socket
  PROVE  TellInv'
<1>1. loop \in Loops
  BY DEF LinkInv, SteadyLoops
<1>2. CASE SocketOpens \/ RecvWelcome \/ RecvExit \/ \E authFailed \in BOOLEAN : RecvError(authFailed)
  <2>1. ws' = "open"
    BY <1>2 DEF SocketOpens, RecvWelcome, RecvExit, RecvError
  <2> QED BY <2>1 DEF TellInv, Idle
<1>3. CASE OldSocketCloses
  BY <1>3 DEF OldSocketCloses, Ignored, TellInv, Idle, Telling
<1>4. ASSUME NEW code \in CloseCodes, SocketCloses(code) PROVE TellInv'
  <2>1. CASE loop' = CloseDispatch(code)
    BY <1>1, <2>1, DispatchTells DEF TellInv, Telling
  <2>2. CASE connect
    BY <2>2 DEF connect, Fresh, TellInv, Idle
  <2>3. CASE authRetries = AUTH_RETRY_BUDGET /\ authRetries' = authRetries
    BY <2>3 DEF TellInv, Idle, AUTH_RETRY_BUDGET
  <2> QED BY <1>4, <2>1, <2>2, <2>3 DEF SocketCloses, onclose
<1> QED BY <1>2, <1>3, <1>4 DEF Socket

LEMMA PageTells ==
  ASSUME LinkInv, TellInv, TimerFires \/ Page
  PROVE  TellInv'
<1>1. loop \in Loops
  BY DEF LinkInv, SteadyLoops
<1>2. CASE connect
  BY <1>2 DEF connect, Fresh, TellInv, Idle
<1>3. CASE /\ loop' \in {loop, startReconnect(loop, 0)}
           /\ UNCHANGED <<chain, conn, authRetries, login>>
           /\ ws' \in {ws, CloseSocket(ws)}
  <2>1. loop'.panel # "none" \/ loop' = loop
    BY <1>1, <1>3, StartTells
  <2>2. ws' \in {"none", "closed"} => ws' = ws
    BY <1>3 DEF CloseSocket
  <2> QED BY <1>3, <2>1, <2>2 DEF TellInv, Idle, Telling
<1>4. CASE LoginDenied
  BY <1>4 DEF LoginDenied, TellInv, Telling
<1>5. \/ connect
      \/ LoginDenied
      \/ /\ loop' \in {loop, startReconnect(loop, 0)}
         /\ UNCHANGED <<chain, conn, authRetries, login>>
         /\ ws' \in {ws, CloseSocket(ws)}
  BY DEF TimerFires, Page, ClickReconnect, Online, Offline, Hide, Show, PageRestored, SubmitLogin,
         LoginAccepted, runAttempt, PageIdle
<1> QED BY <1>2, <1>3, <1>4, <1>5

LEMMA TellSteps == LinkInv /\ TellInv /\ [Next]_vars => TellInv'
<1> SUFFICES ASSUME LinkInv, TellInv, [Next]_vars PROVE TellInv'
  OBVIOUS
<1>1. CASE UNCHANGED vars
  BY <1>1 DEF vars, TellInv, Idle, Telling
<1> QED BY <1>1, FetchTells, SocketTells, PageTells DEF Next

\* A page on which nothing is under way any more shows a panel or the login
\* view, in whatever order sockets close, calls of connect() return or throw and
\* logins are answered; only an exhausted budget may leave it blank.
THEOREM PageNeverBlank == Spec => []NeverBlank
<1>1. Init => TellInv
  BY DEF Init, Fresh, TellInv, Idle
<1>2. TellInv => NeverBlank
  BY DEF TellInv, Idle, Telling, NeverBlank, NothingUnderWay
<1> QED BY <1>1, <1>2, TellSteps, LinkInvariant, PTL DEF Spec
=============================================================================

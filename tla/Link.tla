-------------------------------- MODULE Link --------------------------------
(***************************************************************************)
(* The connection of the browser page, web/src/main.ts: the attempts to    *)
(* attach (fetch a ticket, open a WebSocket, greet), the reconnect loop    *)
(* with its timer and its budgets, the status panel, the login view, and   *)
(* the page events that interfere: online, offline, visibility, a restore  *)
(* from the back/forward cache, a click on "Reconnect now", a login.       *)
(*                                                                         *)
(* JavaScript runs a handler to completion, so an action is one handler;   *)
(* what interleaves is what awaits.  connect() awaits twice (the fetch,    *)
(* then the body of its answer): "chain" is where the newest call stands,  *)
(* "stale" counts the older calls that still await.  An old call is known  *)
(* by its generation; only "is it the newest" is ever asked of that.       *)
(*                                                                         *)
(* The socket that ws refers to has its readyState in "ws", and how far    *)
(* the server got with it in "peer".  Of the sockets it replaced only the  *)
(* states are kept ("old"): their handlers find sock !== ws and do nothing.*)
(***************************************************************************)
EXTENDS Naturals

CONSTANTS
  RetryAfter,     \* seconds a 429 may ask to wait
  MaxStale,       \* bound: older calls of connect() awaiting at one time
  MaxAttempt      \* bound: attempts told apart; from 5 on all delays are equal

ASSUME LinkAssumption ==
  /\ RetryAfter \subseteq Nat \ {0}
  /\ MaxStale \in Nat
  /\ MaxAttempt \in Nat

AUTH_RETRY_BUDGET == 3
FIRST_CONNECT_RETRY_BUDGET == 3

Least(a, b) == IF a < b THEN a ELSE b
Greatest(a, b) == IF a < b THEN b ELSE a

\* Delays are in seconds.
MaxBackoff == 30
backoffMs(n) == Least(2^n, MaxBackoff)
FirstDelay(n) == Least(2 * 2^n, MaxBackoff)

\* What ws.close() leaves of a socket.
CloseSocket(s) == IF s \in {"connecting", "open"} THEN "closing" ELSE s

\* Codes after which the page reconnects by itself; 1013 only when visible.
shouldReconnect(code) == code \in {1001, 1006, 1011}

\* Fault: a kicked page never comes back by itself.
reconnectNever(code, isVisible) == FALSE
reconnectOnKick(code, isVisible) == code = 1013 /\ isVisible

VARIABLES
  share,          \* the page was opened through a share link, /s/{token}/
  ws,             \* readyState of the socket ws refers to, "none" for null
  peer,           \* what the server did on it: "none", "hello" received, "in"
                  \* (welcomed), "failed" (auth_failed), "refused", "exited"
  old,            \* states of the replaced sockets whose close is yet to come
  chain,          \* newest connect(): "none", "fetch" or "json" awaited
  stale,          \* older calls of connect() still awaiting
  conn,           \* state reset by every connect()
  loop,           \* reconnect loop, the delay its timer runs (0: no timer), the panel
  authRetries,    \* auth_failed answered by an immediate retry, since a WELCOME
  login,          \* #login shown
  loginBusy,      \* a login request is awaited
  guarded,        \* onBeforeUnload is listening
  visible         \* document.visibilityState

vars == <<share, ws, peer, old, chain, stale, conn, loop, authRetries, login,
          loginBusy, guarded, visible>>

LoopPanels == {"waiting", "trying"}
EndPanels == {"unable", "share", "origin", "rejected", "ended", "refused",
              "tooLarge", "kicked", "lost"}
Panels == {"none"} \cup LoopPanels \cup EndPanels

TypeOK ==
  /\ share \in BOOLEAN
  /\ ws \in {"none", "connecting", "open", "closing", "closed"}
  /\ peer \in {"none", "hello", "in", "failed", "refused", "exited"}
  /\ old \subseteq {"connecting", "open", "closing"}
  /\ chain \in {"none", "fetch", "json"}
  /\ stale \in 0..MaxStale
  /\ conn \in [opened : BOOLEAN, helloSent : BOOLEAN, authError : BOOLEAN,
               exit : BOOLEAN, welcomeDone : BOOLEAN]
  /\ loop \in [reconnecting : BOOLEAN, attempt : 0..MaxAttempt,
               wait : Nat, everConnected : BOOLEAN,
               firstRetries : 0..FIRST_CONNECT_RETRY_BUDGET, panel : Panels]
  /\ authRetries \in 0..AUTH_RETRY_BUDGET
  /\ login \in BOOLEAN
  /\ loginBusy \in BOOLEAN
  /\ guarded \in BOOLEAN
  /\ visible \in BOOLEAN

-----------------------------------------------------------------------------
(* The functions of the loop, on its state. *)

showStatus(l, p) == [l EXCEPT !.panel = p]

stopReconnect(l) == [l EXCEPT !.reconnecting = FALSE, !.attempt = 0, !.wait = 0,
                              !.panel = "none"]

\* Fault: the budget of the first connection is not spent.
scheduleUnspent(l, floor) ==
  [l EXCEPT !.wait = Greatest(backoffMs(l.attempt), floor), !.panel = "waiting"]

\* Only a page that never connected has a budget: it then gives up.
scheduleAttempt(l, floor) ==
  LET delay == Greatest(backoffMs(l.attempt), floor)
  IN IF l.everConnected
     THEN [l EXCEPT !.wait = delay, !.panel = "waiting"]
     ELSE IF l.firstRetries < FIRST_CONNECT_RETRY_BUDGET
     THEN [l EXCEPT !.wait = Greatest(delay, FirstDelay(l.firstRetries)),
                    !.firstRetries = @ + 1, !.panel = "waiting"]
     ELSE showStatus(stopReconnect(l), "unable")

startReconnect(l, floor) ==
  IF l.reconnecting THEN l
  ELSE scheduleAttempt([l EXCEPT !.reconnecting = TRUE], floor)

\* Fault: a busy answer goes through the idempotent entrance of the loop.
RetryByStart(l, floor) == startReconnect(l, floor)

\* What stays in the loop schedules again; elsewhere the loop starts.
Retry(l, floor) ==
  IF l.reconnecting THEN scheduleAttempt(l, floor) ELSE startReconnect(l, floor)

\* Fault: the panel is shown and the loop left running.
EndWithout(l, p) == showStatus(l, p)

\* Fault: the loop ends after the panel is shown, and hides it.
EndHidden(l, p) == IF l.reconnecting THEN stopReconnect(showStatus(l, p)) ELSE showStatus(l, p)

\* The loop ends before a panel that is not its own.
EndWith(l, p) == showStatus(IF l.reconnecting THEN stopReconnect(l) ELSE l, p)

-----------------------------------------------------------------------------
Fresh == [opened |-> FALSE, helloSent |-> FALSE, authError |-> FALSE,
          exit |-> FALSE, welcomeDone |-> FALSE]

Init ==
  /\ share \in BOOLEAN
  /\ ws = "none"
  /\ peer = "none"
  /\ old = {}
  /\ chain = "fetch"              \* the module ends with void connect()
  /\ stale = 0
  /\ conn = Fresh
  /\ loop = [reconnecting |-> FALSE, attempt |-> 0, wait |-> 0,
             everConnected |-> FALSE, firstRetries |-> 0, panel |-> "none"]
  /\ authRetries = 0
  /\ login = FALSE
  /\ loginBusy = FALSE
  /\ guarded = FALSE
  /\ visible \in BOOLEAN

\* connect() up to its first await.  A call it supersedes goes on awaiting.
connect ==
  /\ stale' = stale + (IF chain = "none" THEN 0 ELSE 1)
  /\ stale' \leq MaxStale
  /\ chain' = "fetch"
  /\ conn' = Fresh

\* A click, the timer, online or visibilitychange: try now.
runAttempt ==
  /\ loop' = [loop EXCEPT !.wait = 0, !.attempt = Least(@ + 1, MaxAttempt),
                          !.panel = "trying"]
  /\ connect

\* Fault: an answer that comes after a session came up is acted on.
SupersededNever == FALSE

\* The checks after each await: the newest call goes on unless a session is up.
Superseded == conn.welcomeDone

\* The catch clause of connect() looks at no generation.
CatchFetch ==
  loop' = IF loop.reconnecting THEN scheduleAttempt(loop, 0)
          ELSE IF conn.welcomeDone THEN loop
          ELSE startReconnect(loop, 0)

-----------------------------------------------------------------------------
(* connect() after its awaits. *)

\* Tail of connect(): the socket held until now is closed and replaced.
OpenSocket ==
  /\ old' = old \cup ({CloseSocket(ws)} \ {"none", "closed"})
  /\ ws' = "connecting"
  /\ peer' = "none"
  /\ chain' = "none"
  /\ UNCHANGED <<share, stale, conn, loop, authRetries, login, loginBusy, guarded,
                 visible>>

LinkIdle == UNCHANGED <<share, ws, peer, old, authRetries, loginBusy, guarded, visible>>

\* 200 with a ticket: its body is awaited next.  404: no authentication.
FetchOk ==
  /\ chain = "fetch"
  /\ ~Superseded
  /\ chain' = "json"
  /\ UNCHANGED <<stale, conn, loop, login>> /\ LinkIdle

FetchNoAuth ==
  /\ chain = "fetch"
  /\ ~Superseded
  /\ ~share
  /\ OpenSocket

BodyRead ==
  /\ chain = "json"
  /\ ~Superseded
  /\ OpenSocket

\* A session came up on the socket meanwhile: the call returns.
FetchDropped ==
  /\ chain \in {"fetch", "json"}
  /\ Superseded
  /\ chain' = "none"
  /\ UNCHANGED <<stale, conn, loop, login>> /\ LinkIdle

FetchRefused(p) ==
  /\ chain = "fetch"
  /\ ~Superseded
  /\ p = "share" => share
  /\ chain' = "none"
  /\ loop' = EndWith(loop, p)
  /\ UNCHANGED <<stale, conn, login>> /\ LinkIdle

\* 401 without a share token: the login view replaces the panel.
FetchUnauthorized ==
  /\ chain = "fetch"
  /\ ~Superseded
  /\ ~share
  /\ chain' = "none"
  /\ loop' = EndWith(loop, "none")
  /\ login' = TRUE
  /\ UNCHANGED <<stale, conn>> /\ LinkIdle

\* 429 with a Retry-After, or 503 (floor 0): both stay in the loop.
FetchBusy(floor) ==
  /\ chain = "fetch"
  /\ ~Superseded
  /\ chain' = "none"
  /\ loop' = Retry(loop, floor)
  /\ UNCHANGED <<stale, conn, login>> /\ LinkIdle

FetchThrows ==
  /\ chain \in {"fetch", "json"}
  /\ chain' = "none"
  /\ CatchFetch
  /\ UNCHANGED <<stale, conn, login>> /\ LinkIdle

\* A superseded call is dropped when its await resolves, not when it throws.
StaleResolves ==
  /\ stale > 0
  /\ stale' = stale - 1
  /\ UNCHANGED <<chain, conn, loop, login>> /\ LinkIdle

StaleThrows ==
  /\ stale > 0
  /\ stale' = stale - 1
  /\ CatchFetch
  /\ UNCHANGED <<chain, conn, login>> /\ LinkIdle

-----------------------------------------------------------------------------
(* The socket. *)

Quiet == UNCHANGED <<share, old, chain, stale, login, loginBusy, visible>>

\* onopen: Hello is sent.
SocketOpens ==
  /\ ws = "connecting"
  /\ ws' = "open"
  /\ peer' = "hello"
  /\ conn' = [conn EXCEPT !.opened = TRUE, !.helloSent = TRUE]
  /\ UNCHANGED <<loop, authRetries, guarded>> /\ Quiet

\* WELCOME, the first of a session or a later push.
RecvWelcome ==
  /\ ws = "open"
  /\ peer \in {"hello", "in"}
  /\ peer' = "in"
  /\ loop' = [(IF loop.reconnecting THEN stopReconnect(loop) ELSE loop)
                EXCEPT !.everConnected = TRUE]
  /\ conn' = [conn EXCEPT !.welcomeDone = TRUE]
  /\ authRetries' = 0
  /\ guarded' = TRUE
  /\ UNCHANGED ws /\ Quiet

\* ERROR precedes the close of a refused Hello.
RecvError(authFailed) ==
  /\ ws = "open"
  /\ peer = "hello"
  /\ peer' = IF authFailed THEN "failed" ELSE "refused"
  /\ conn' = [conn EXCEPT !.authError = authFailed]
  /\ UNCHANGED <<ws, loop, authRetries, guarded>> /\ Quiet

RecvExit ==
  /\ ws = "open"
  /\ peer = "in"
  /\ peer' = "exited"
  /\ conn' = [conn EXCEPT !.exit = TRUE]
  /\ UNCHANGED <<ws, loop, authRetries, guarded>> /\ Quiet

\* Codes the server closes with, by how far it got.
ServerCodes(stage) ==
  CASE stage = "hello"   -> {1001, 1002, 1008, 1011}
    [] stage = "in"      -> {1000, 1001, 1002, 1009, 1011, 1013}
    [] stage \in {"failed", "refused"} -> {1008}
    [] stage = "exited"  -> {1000}
    [] OTHER             -> {}

\* Codes a browser can report: 1006 is its own, 1005 answers a close() of ours.
\* The server's close may cross ours, from further on than the page has heard.
CloseCodes ==
  CASE ws = "connecting" \/ (ws = "closing" /\ peer = "none") -> {1006}
    [] ws = "closing" /\ peer # "none" ->
         {1005, 1006} \cup ServerCodes("hello") \cup ServerCodes("in")
    [] ws = "open" -> {1006} \cup ServerCodes(peer)
    [] OTHER -> {}

EndPanel(code) ==
  CASE code = 1000 -> "ended"
    [] code = 1008 -> "refused"
    [] code = 1009 -> "tooLarge"
    [] code = 1013 -> "kicked"
    [] OTHER -> "lost"

\* onclose when no auth_failed is pending.
CloseDispatch(code) ==
  LET again == shouldReconnect(code) \/ reconnectOnKick(code, visible)
      rest == IF loop.reconnecting THEN stopReconnect(loop) ELSE loop
  IN IF loop.reconnecting /\ again THEN scheduleAttempt(loop, 0)
     ELSE IF again \/ ~conn.opened THEN startReconnect(rest, 0)
     ELSE showStatus(rest, EndPanel(code))

\* onclose of the socket that ws refers to.
onclose(code) ==
  /\ ws' = "closed"
  /\ peer' = "none"
  /\ guarded' = FALSE
  /\ \/ /\ ~conn.authError
        /\ loop' = CloseDispatch(code)
        /\ UNCHANGED <<chain, stale, conn, authRetries>>
     \/ /\ conn.authError
        /\ authRetries < AUTH_RETRY_BUDGET
        /\ authRetries' = authRetries + 1
        /\ connect
        /\ UNCHANGED loop
     \/ /\ conn.authError
        /\ authRetries = AUTH_RETRY_BUDGET
        /\ conn' = [conn EXCEPT !.authError = FALSE]
        /\ loop' = startReconnect(loop, 0)
        /\ UNCHANGED <<chain, stale, authRetries>>
  /\ UNCHANGED <<share, old, login, loginBusy, visible>>

SocketCloses(code) ==
  /\ code \in CloseCodes
  /\ onclose(code)

\* A replaced socket closes: sock !== ws, its handler returns at once.
Ignored == UNCHANGED <<share, ws, peer, chain, stale, conn, loop, authRetries, login,
                       loginBusy, guarded, visible>>

\* Fault: a replaced socket's close is taken for that of the current one.
OldSocketHeard ==
  \E s \in old :
    /\ old' = old \ {s}
    /\ loop' = startReconnect(loop, 0)
    /\ guarded' = FALSE
    /\ UNCHANGED <<share, ws, peer, chain, stale, conn, authRetries, login,
                   loginBusy, visible>>

OldSocketCloses ==
  \E s \in old : \E rest \in {old, old \ {s}} :
    /\ old' = rest
    /\ Ignored

-----------------------------------------------------------------------------
(* The page. *)

PageIdle == UNCHANGED <<share, ws, peer, old, authRetries, guarded>>

TimerFires ==
  /\ loop.wait # 0
  /\ runAttempt
  /\ UNCHANGED <<login, loginBusy, visible>> /\ PageIdle

ClickReconnect ==
  /\ loop.panel \in LoopPanels
  /\ runAttempt
  /\ UNCHANGED <<login, loginBusy, visible>> /\ PageIdle

Online ==
  /\ loop.reconnecting
  /\ runAttempt
  /\ UNCHANGED <<login, loginBusy, visible>> /\ PageIdle

Offline ==
  /\ ~loop.reconnecting
  /\ conn.welcomeDone
  /\ ws # "open"
  /\ loop' = startReconnect(loop, 0)
  /\ UNCHANGED <<chain, stale, conn, login, loginBusy, visible>> /\ PageIdle

Hide ==
  /\ visible
  /\ visible' = FALSE
  /\ UNCHANGED <<chain, stale, conn, loop, login, loginBusy>> /\ PageIdle

Show ==
  /\ ~visible
  /\ visible' = TRUE
  /\ \/ /\ conn.welcomeDone /\ loop.reconnecting
        /\ runAttempt
     \/ /\ conn.welcomeDone /\ ~loop.reconnecting /\ ws # "open"
        /\ loop' = startReconnect(loop, 0)
        /\ UNCHANGED <<chain, stale, conn>>
     \/ /\ ~conn.welcomeDone \/ (~loop.reconnecting /\ ws = "open")
        /\ UNCHANGED <<chain, stale, conn, loop>>
  /\ UNCHANGED <<login, loginBusy>> /\ PageIdle

\* pageshow with persisted: the page was restored from the cache.
PageRestored ==
  /\ ws' = CloseSocket(ws)
  /\ loop' = startReconnect(loop, 0)
  /\ UNCHANGED <<share, peer, old, chain, stale, conn, authRetries, login, loginBusy,
                 guarded, visible>>

SubmitLogin ==
  /\ login
  /\ ~loginBusy
  /\ loginBusy' = TRUE
  /\ UNCHANGED <<chain, stale, conn, loop, login, visible>> /\ PageIdle

LoginAccepted ==
  /\ loginBusy
  /\ loginBusy' = FALSE
  /\ login' = FALSE
  /\ connect
  /\ UNCHANGED <<loop, visible>> /\ PageIdle

\* showLogin(message) hides whatever panel is shown.
LoginDenied ==
  /\ loginBusy
  /\ loginBusy' = FALSE
  /\ login' = TRUE
  /\ loop' = showStatus(loop, "none")
  /\ UNCHANGED <<chain, stale, conn, visible>> /\ PageIdle

-----------------------------------------------------------------------------
Fetch ==
  \/ FetchOk \/ FetchNoAuth \/ FetchDropped \/ FetchUnauthorized \/ FetchThrows
  \/ \E p \in {"share", "origin", "rejected"} : FetchRefused(p)
  \/ \E floor \in RetryAfter \cup {0} : FetchBusy(floor)
Old == StaleResolves \/ StaleThrows
Socket ==
  \/ SocketOpens \/ RecvWelcome \/ RecvExit \/ OldSocketCloses
  \/ \E authFailed \in BOOLEAN : RecvError(authFailed)
  \/ \E code \in CloseCodes : SocketCloses(code)
Page ==
  \/ ClickReconnect \/ Online \/ Offline \/ Hide \/ Show \/ PageRestored
  \/ SubmitLogin \/ LoginAccepted \/ LoginDenied

Next == Fetch \/ BodyRead \/ Old \/ Socket \/ TimerFires \/ Page

Spec == Init /\ [][Next]_vars

\* What runs by itself: the timer, the answers that are awaited, the events of
\* a socket on its way (a server answers Hello or drops it within its timeout).
Fairness ==
  /\ WF_vars(TimerFires)
  /\ WF_vars(Fetch \/ BodyRead)
  /\ WF_vars(Old)
  /\ WF_vars(OldSocketCloses)
  /\ WF_vars(ws \in {"connecting", "closing"} /\ Socket)
  /\ WF_vars(ws = "open" /\ peer # "in" /\ Socket)

FairSpec == Spec /\ Fairness

-----------------------------------------------------------------------------
(* Properties. *)

Served == ws = "open" /\ peer = "in"

\* While a session that the page knows of runs on an open socket, the loop is
\* off: no timer will dial over it and no panel says "Reconnecting" (the
\* generation checks of connect(), the sock !== ws guards, the catch clause).
HealthyIsQuiet ==
  Served /\ conn.welcomeDone =>
    ~loop.reconnecting /\ loop.wait = 0 /\ loop.panel \notin LoopPanels

\* A page that has stopped says so, and offers a way on: with no call awaited,
\* no timer set and no socket on its way, a panel or the login view is shown.
\* (onclose, the answers of connect(), the login and the loop hide one view
\* and show another in separate calls, and old calls interfere.)  The
\* exhausted budget is excepted: a login over the loop can leave it blank.
NothingUnderWay == chain = "none" /\ loop.wait = 0 /\ ws \in {"none", "closed"}
NeverBlank ==
  authRetries < AUTH_RETRY_BUDGET /\ NothingUnderWay => loop.panel # "none" \/ login

\* A running loop has something that will wake it: its timer, a call that
\* awaits, or a socket whose close comes back to it.  The comment on
\* authRetries says that, once the budget is spent, the loop takes over.
LoopHasDriver ==
  loop.reconnecting => \/ loop.wait # 0
                       \/ chain # "none"
                       \/ ws \in {"connecting", "open", "closing"}

\* The same, but for the one way the code is known to lose the driver: the
\* auth_failed that exhausts the budget while the loop already runs.
LoopHasDriverBelowBudget == authRetries < AUTH_RETRY_BUDGET => LoopHasDriver

\* The page itself ends a session it knows of only on a restore from the
\* cache or on a new login; everything else that ends it is the other side.
HealthyKept ==
  [][Served /\ conn.welcomeDone /\ ~(Served /\ conn.welcomeDone)' =>
       ws' = "closed" \/ peer' = "exited" \/ PageRestored \/ LoginAccepted]_vars

\* The user or the window steps in.  A click or "online" while the timer runs
\* only makes it fire early.
Disturbed ==
  \/ (ClickReconnect \/ Online) /\ loop.wait = 0
  \/ Offline \/ Hide \/ Show \/ PageRestored
  \/ SubmitLogin \/ LoginAccepted \/ LoginDenied

\* A page that never had a session, and that is left alone, stops dialling.
GivesUp ==
  [](~loop.everConnected) /\ <>[][~Disturbed]_vars =>
    <>[](chain = "none" /\ loop.wait = 0 /\ ws # "connecting")

\* When calls and sockets stop failing, an outage ends: the loop is left for a
\* session, a panel or the login view.
Failing ==
  \/ FetchThrows \/ StaleThrows
  \/ \E floor \in RetryAfter \cup {0} : FetchBusy(floor)
  \/ \E authFailed \in BOOLEAN : RecvError(authFailed)
  \/ \E code \in CloseCodes : SocketCloses(code)
Recovers ==
  <>[][~Failing /\ ~Disturbed]_vars =>
    (loop.reconnecting ~> ~loop.reconnecting \/ authRetries = AUTH_RETRY_BUDGET)

=============================================================================

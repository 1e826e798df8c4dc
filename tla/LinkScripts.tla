---------------------------- MODULE LinkScripts ----------------------------
(***************************************************************************)
(* The browser acceptance scripts of web/uat, played on Link.  While a     *)
(* script waits, the page and a well-behaved server go on in any order.    *)
(*                                                                         *)
(* A behaviour plays one script, or, with the script Free, is one of Link. *)
(***************************************************************************)
EXTENDS Link, Scripts

CONSTANT MaxDials   \* bound: sockets a script may see constructed
ASSUME ScriptsAssumption == MaxDials \in Nat

VARIABLES
  dials,          \* sockets constructed so far, "constructed" of the harness
  net             \* the forwarder between page and server is up

allVars == <<vars, script, pos, dials, net>>

\* A script is set up with a server: without authentication ("open": attach
\* answers 404), one that gives tickets, a full one, one that rejects the share
\* link; "deaf" when the WebSocket of the page runs into a black hole.
Free == Script("free", <<>>)
Close(code) == Do("close", code)

Live     == [served |-> TRUE, panel |-> "none"]
Panel(p) == [panel |-> p]
Dials(n) == [dials |-> n]

-----------------------------------------------------------------------------
(* web/uat/phase06-dom.mjs *)

d1FullReconnectChain == Script("open", <<
  Await(Live), Check([dials |-> 1, guarded |-> TRUE]),
  Close(1006), Await([panel |-> "waiting", attempt |-> 0]), Check([guarded |-> FALSE]),
  Await(Dials(2)), Await(Live), Check([guarded |-> TRUE]) >>)

d2ProtocolErrorNoReconnect == Script("open", <<
  Await(Live), Close(1002), Await(Panel("lost")), Hold(Dials(1)) >>)

d3KickedNoReconnect == Script("open", <<
  Await(Live), Close(1013), Await(Panel("waiting")), Await(Dials(2)) >>)

d3RefusedNoReconnect == Script("open", <<
  Await(Live), Close(1008), Await(Panel("refused")), Hold(Dials(1)) >>)

d4DoubleTriggerIdempotent == Script("open", <<
  Await(Live), Close(1006), Do("offline", 0),
  Await(Panel("waiting")), Check([attempt |-> 0]),
  Await(Dials(2)), Await(Live), Hold(Dials(2)) >>)

d5ReconnectNowManual == Script("open", <<
  Await(Live), Close(1006), Await(Panel("waiting")), Do("click", 0),
  Check([wait |-> 0]), Await(Dials(2)), Await(Live) >>)

d6StaleGenerationGuard == Script("open", <<
  Await(Live), Close(1006), Await(Dials(2)), Await(Live), Do("staleClose", 0),
  Hold([panel |-> "none", dials |-> 2, guarded |-> TRUE]) >>)

d7ExitFrameChain == Script("open", <<
  Await([guarded |-> TRUE]), Do("exit", 0), Close(1000),
  Await(Panel("ended")), Hold(Dials(1)) >>)

d8OnlineFastPath == Script("open", <<
  Await(Live), Close(1006), Await(Panel("waiting")), Do("online", 0),
  Check([wait |-> 0]), Await(Dials(2)), Await(Live) >>)

d10StaleLateSuccessNoClobber == Script("open", <<
  Await(Live), Close(1006), Await(Panel("trying")), Do("click", 0),
  Await(Dials(2)), Await(Live), Do("releaseFetch", 0),
  Hold([dials |-> 2, panel |-> "none", served |-> TRUE]) >>)

d11Shutdown1001NoReconnect == Script("open", <<
  Await(Live), Close(1001), Await(Panel("waiting")), Await(Dials(2)) >>)

d11Again1001 == Script("open", <<
  Await(Live), Close(1006), Await(Panel("waiting")), Close(1001),
  Check(Panel("waiting")), Await(Dials(2)) >>)

d13PreOnOpen1001Dispatch == Script("deaf", <<
  Await(Dials(1)), Close(1001), Await(Panel("waiting")), Await(Dials(2)) >>)

d14FirstConnectRetryBudget == Script("deaf", <<
  Await(Dials(1)), Close(1006),
  Await([panel |-> "waiting", everConnected |-> FALSE]),
  Await(Dials(2)), Close(1006), Await(Dials(3)), Close(1006),
  Await(Dials(4)), Close(1006), Await(Panel("unable")) >>)

-----------------------------------------------------------------------------
(* web/uat/phase04-dom.mjs, phase05-dom.mjs, pw/phase06-pw.mjs *)

\* T9: the page objects to being left in a session, no more once it ended.
t9 == Script("open", <<
  Await(Live), Check([guarded |-> TRUE]), Do("exit", 0), Close(1000),
  Await(Panel("ended")), Check([guarded |-> FALSE]) >>)

\* No socket is built towards a full server.  The script also wants a panel
\* titled "Server is full", which main.ts no longer has: it waits in the loop.
d3ServerFullPanel == Script("full", <<
  Await(Panel("waiting")), Check([dials |-> 0, served |-> FALSE]) >>)

d4InvalidShareLink == Script("badShare", <<
  Await(Panel("share")), Hold(Dials(0)) >>)

t1 == Script("ticket", <<
  Await(Live), Do("netDown", 0),
  Await([panel |-> "waiting", attempt |-> 0, wait |-> 1]),
  Await([panel |-> "waiting", attempt |-> 1, wait |-> 2]),
  Await([panel |-> "waiting", attempt |-> 2, wait |-> 4]),
  Do("netUp", 0), Do("online", 0), Await(Live) >>)

t3 == Script("ticket", <<
  Await(Live), Do("netDown", 0), Await([panel |-> "waiting", wait |-> 4]),
  Do("netUp", 0), Do("click", 0), Check([wait |-> 0]), Await(Live), Hold(Live) >>)

t4 == Script("ticket", <<
  Await(Live), Do("exit", 0), Close(1000), Await(Panel("ended")), Hold(Panel("ended")) >>)

Scripts == {
  d1FullReconnectChain, d2ProtocolErrorNoReconnect, d3KickedNoReconnect,
  d3RefusedNoReconnect, d4DoubleTriggerIdempotent, d5ReconnectNowManual,
  d6StaleGenerationGuard, d7ExitFrameChain, d8OnlineFastPath,
  d10StaleLateSuccessNoClobber, d11Shutdown1001NoReconnect, d11Again1001,
  d13PreOnOpen1001Dispatch, d14FirstConnectRetryBudget, t9,
  d3ServerFullPanel, d4InvalidShareLink, t1, t3, t4}

-----------------------------------------------------------------------------
(* The harness. *)

Seen == [panel |-> loop.panel, served |-> Served, guarded |-> guarded,
         attempt |-> loop.attempt, wait |-> loop.wait,
         everConnected |-> loop.everConnected, dials |-> dials]

AllInit ==
  /\ Init
  /\ pos = 1
  /\ dials = 0
  /\ net = TRUE
  /\ script \in Scripts \cup {Free}
  /\ share = (script.setup = "badShare")   \* a share page has fewer answers: no login
  /\ script # Free => visible

\* What the page and its surroundings do while a script waits.
Dials1 == (IF script.setup = "ticket" THEN BodyRead ELSE FetchNoAuth)
Answered ==
  /\ net
  /\ \/ script.setup = "ticket" /\ FetchOk
     \/ script.setup = "full" /\ FetchBusy(0)
     \/ script.setup = "badShare" /\ FetchRefused("share")
     \/ script.setup # "deaf" /\ (SocketOpens \/ (peer = "hello" /\ RecvWelcome))
     \/ OldSocketCloses
Unreachable ==
  /\ ~net
  /\ FetchThrows \/ SocketCloses(1006)
OnItsOwn ==
  \/ /\ dials < MaxDials /\ net /\ script.setup \in {"open", "deaf", "ticket"}
     /\ Dials1
     /\ dials' = dials + 1
  \/ /\ TimerFires \/ Answered \/ Unreachable
     /\ UNCHANGED dials

\* An event whose handler finds nothing to do.
Event(A) == IF ENABLED A THEN A ELSE UNCHANGED vars

Act ==
  /\ Is({"do"})
  /\ CASE step.event = "close"        -> onclose(step.arg)
       [] step.event = "staleClose"   -> Ignored /\ UNCHANGED old
       [] step.event = "exit"         -> RecvExit
       [] step.event = "click"        -> ClickReconnect
       [] step.event = "online"       -> Event(Online)
       [] step.event = "offline"      -> Event(Offline)
       [] step.event = "releaseFetch" -> StaleResolves
       [] OTHER                       -> UNCHANGED vars
  /\ net' = IF step.event \in {"netDown", "netUp"} THEN step.event = "netUp" ELSE net
  /\ pos' = pos + 1
  /\ UNCHANGED <<script, dials>>

Observe ==
  /\ Is({"await", "check", "hold"})
  /\ Matches(Seen, step.obs)
  /\ pos' = pos + 1
  /\ UNCHANGED <<vars, script, dials, net>>

\* A quiet window goes wrong as soon as it shows something else.
Pass ==
  /\ Is({"await", "hold"})
  /\ Matches(Seen, step.obs) <=> step.kind = "hold"
  /\ OnItsOwn
  /\ UNCHANGED <<script, pos, net>>

AllNext ==
  \/ script = Free /\ Next /\ UNCHANGED <<script, pos, dials, net>>
  \/ Act \/ Observe \/ Pass

AllSpec ==
  /\ AllInit /\ [][AllNext]_allVars
  /\ script = Free => Fairness
  /\ WF_allVars(Act) /\ WF_allVars(Observe) /\ WF_allVars(Pass)

\* Every script comes to its end, whatever the order in which the page's timer,
\* the answers and the sockets interleave with its steps.
ScriptsEnd == script # Free => <>~Playing

\* The liveness properties of Link, of the behaviours that no script drives: a
\* page that never had a session and that nobody touches stops dialling; when
\* nothing fails any more, an outage ends.
PageGivesUp == script = Free => GivesUp
PageRecovers == script = Free => Recovers
=============================================================================

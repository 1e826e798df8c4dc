-------------------------- MODULE ServiceScripts --------------------------
(***************************************************************************)
(* The acceptance scripts of web/uat that drive the server without a       *)
(* browser, played on Service.  The server goes on at any time between two *)
(* steps of a script.  A timer fires when the script says that it has      *)
(* waited long enough for it.                                              *)
(*                                                                         *)
(* A script without steps is a behaviour of Service that nobody drives.    *)
(***************************************************************************)
EXTENDS Service, Scripts

allVars == <<vars, script, pos>>

-----------------------------------------------------------------------------
(* Command lines. *)

Writable   == [Cmd EXCEPT !.writable = TRUE]
Guarded    == [Writable EXCEPT !.credential = TRUE]
Once       == [Cmd EXCEPT !.max = 1, !.empty = "now"]
Own        == [Writable EXCEPT !.session = "per-client"]
OwnRO      == [Cmd EXCEPT !.session = "per-client"]
Immune     == [OwnRO EXCEPT !.traps = TRUE]
WithEmpty(cmd, how) == [cmd EXCEPT !.empty = how]
WithMax(cmd, n) == [cmd EXCEPT !.max = n]

-----------------------------------------------------------------------------
(* Steps. *)

Of(c, obs)      == [x \in {c} \X DOMAIN obs |-> obs[x[2]]]
Server(obs)     == Of(NoConn, obs)
By(c, event)    == Do(event, [who |-> c, arg |-> "none"])
With(c, event, x) == Do(event, [who |-> c, arg |-> x])

Posts(c, cred, answer) ==
  <<With(c, "post", <<cred, FALSE>>), Check(Of(c, [answer |-> answer]))>>
Dials(c, asks, answer) ==
  <<With(c, "dial", asks), Await(Of(c, [answer |-> answer]))>>
Says(c, t, d) == Dials(c, "ok", 101) \o <<With(c, "hello", <<t, d>>)>>
\* dialHello: resolved by the WELCOME.
Enters(c, t, d, obs) == Says(c, t, d) \o <<Await(Of(c, [phase |-> "in"])), Check(Of(c, obs))>>
Comes(c, mode) == Enters(c, NoConn, <<80, 24>>, [mode |-> mode])
ComesWith(c, cred, mode) ==
  Posts(c, cred, 200) \o Enters(c, c, <<80, 24>>, [mode |-> mode])
\* dialExpectReject: an ERROR frame and a close.
Rejected(c, error) ==
  Says(c, NoConn, <<80, 24>>) \o <<Await(Of(c, [error |-> error, code |-> 1011]))>>
Goes(c) == <<By(c, "close"), Await(Of(c, [phase |-> "out"]))>>
\* echoMark: what the client types is answered.
Echoes(c, m, heard) == <<With(c, "input", m), Await(Of(c, [out |-> heard]))>>
Exits(s) == <<Await(Server([status |-> s]))>>
Told2(code) == [exit |-> code, code |-> 1000]

-----------------------------------------------------------------------------
(* phase02.mjs *)

scenarioRO == Script(Cmd,
  Comes(1, "ro") \o
  <<With(1, "input", "mark"), Hold(Of(1, [out |-> {}])),
    With(1, "resize", <<100, 40>>), Hold(Of(1, [code |-> 0]))>>)

scenarioRW == Script(Writable, Comes(1, "rw") \o Echoes(1, "mark", {"mark"}))

scenarioExit == Script(Cmd,
  Comes(1, "ro") \o <<With(NoConn, "ends", "0"), Await(Of(1, [code |-> 1000]))>>)

scenarioVersionMismatch == Script(Cmd,
  Dials(1, "ok", 101) \o <<With(1, "badHello", 1008), Await(Of(1, [code |-> 1008, phase |-> "out"]))>>)

scenarioHelloTimeout == Script(Cmd,
  Dials(1, "ok", 101) \o
  <<Hold(Of(1, [code |-> 0])), By(1, "helloTimeout"), Await(Of(1, [code |-> 1008, phase |-> "out"]))>>)

scenarioMultiClient == Script(Cmd,
  Comes(1, "ro") \o Comes(2, "ro") \o Goes(1) \o Goes(2) \o Comes(3, "ro"))

(* phase03.mjs *)

scenarioAuthFlow == Script(Guarded,
  Posts(1, "none", 401) \o Posts(1, "wrong", 401) \o <<By(1, "unblock")>> \o ComesWith(1, "right", "rw"))

authFlowForgedTicket == Script(Guarded,
  Says(1, 2, <<80, 24>>) \o <<Await(Of(1, [code |-> 1008, phase |-> "out"]))>>)

scenarioThrottle == Script(Guarded, Posts(1, "wrong", 401) \o Posts(1, "wrong", 429))

scenarioOrigin == Script([Guarded EXCEPT !.writable = FALSE],
  <<With(1, "post", <<"right", TRUE>>), Check(Of(1, [answer |-> 403]))>> \o
  Posts(1, "right", 200) \o Dials(1, "evil", 403) \o Dials(1, "plain", 400))

scenarioNoAuth == Script(Cmd, Posts(1, "none", 404) \o Comes(1, "ro"))

-----------------------------------------------------------------------------
(* phase05.mjs *)

s1DualClientConsistency == Script(Writable,
  Comes(1, "rw") \o Comes(2, "ro") \o Echoes(1, "seq", {"seq"}) \o
  <<Await(Of(2, [out |-> {"seq"}]))>> \o Goes(1) \o Goes(2))

s2s3ShareLinkChains == Script(Guarded,
  ComesWith(1, "ro", "ro") \o Goes(1) \o ComesWith(2, "rw", "rw") \o Goes(2))

noWritingLink == Script(Cmd, Posts(1, "rw", 401) \o ComesWith(2, "ro", "ro"))

s4WrongToken == Script(Guarded, Posts(1, "bad", 401) \o Posts(1, "none", 401))

wrongTokenUnguarded == Script(Writable, Posts(1, "bad", 401) \o Posts(1, "none", 404))

s5FullCapacity503 == Script(WithMax(Guarded, 1),
  ComesWith(1, "right", "rw") \o Posts(2, "right", 503) \o Dials(2, "ok", 503) \o Goes(1))

s6SlowConsumerKick == Script(Cmd,
  Comes(1, "ro") \o Comes(2, "ro") \o
  <<By(2, "stall"), Await(Server([clients |-> 1])), By(2, "resume"),
    Check(Of(2, [code |-> 1013])), Hold(Of(1, [code |-> 0, phase |-> "in"]))>>)

s8SigwinchRedrawOnAttach == Script(Writable,
  Comes(1, "rw") \o <<Hold(Server([redraws |-> 1]))>> \o Comes(2, "ro") \o
  <<Await(Server([redraws |-> 2]))>>)

s9PromotionChain == Script(Writable,
  Comes(1, "rw") \o Enters(2, NoConn, <<100, 40>>, [mode |-> "ro"]) \o
  <<With(2, "input", "never"), By(1, "close"), Await(Of(2, [mode |-> "rw"])),
    With(2, "resize", <<100, 40>>)>> \o Echoes(2, "stty", {"stty"}) \o
  <<Await(Of(2, [tty |-> <<100, 40>>]))>> \o Goes(2))

s10SessionDims == Script(Writable,
  Enters(1, NoConn, <<40, 10>>, [mode |-> "rw", dims |-> <<40, 10>>]) \o
  Enters(2, NoConn, <<120, 40>>, [mode |-> "ro", dims |-> <<40, 10>>]) \o
  <<With(1, "resize", <<60, 15>>), Await(Of(2, [mode |-> "ro", dims |-> <<60, 15>>])),
    Check(Of(1, [mode |-> "rw", dims |-> <<60, 15>>])),
    By(1, "close"), Await(Of(2, [mode |-> "rw", dims |-> <<120, 40>>]))>> \o Goes(2))

(* phase06.mjs *)

s1ExitDualBroadcast == Script(Guarded,
  ComesWith(1, "right", "rw") \o ComesWith(2, "ro", "ro") \o
  <<With(1, "input", "exit 42"), Await(Of(1, Told2("42"))), Await(Of(2, Told2("42")))>> \o Exits("42"))

s2ExitSignalDeath == Script(Cmd,
  Comes(1, "ro") \o <<With(NoConn, "ends", "-1"), Await(Of(1, Told2("-1")))>>)

s3OnceFullChain == Script([Once EXCEPT !.credential = TRUE],
  ComesWith(1, "right", "ro") \o Posts(2, "right", 503) \o Dials(2, "ok", 503) \o
  <<By(1, "close")>> \o Exits("255"))

s4ExitWhenEmptyImmediate == Script(WithEmpty(Cmd, "now"),
  <<Hold(Server([status |-> "up"]))>> \o Comes(1, "ro") \o <<By(1, "close")>> \o Exits("255"))

s5ExitWhenEmptyGrace == Script(WithEmpty(Writable, "grace"),
  Comes(1, "rw") \o Goes(1) \o Comes(2, "rw") \o Echoes(2, "alive", {"alive"}) \o
  <<Hold(Server([grace |-> FALSE]))>> \o Goes(2) \o <<By(2, "grace")>> \o Exits("255"))

graceExpires == Script(WithEmpty(Cmd, "grace"),
  Comes(1, "ro") \o Goes(1) \o <<By(1, "grace")>> \o Exits("255"))

s6ReconnectSamePty == Script(Writable,
  Comes(1, "rw") \o Echoes(1, "X=", {"X="}) \o Goes(1) \o
  <<Check(Of(1, [exit |-> "none"])), Hold(Server([child |-> "running"]))>> \o
  Comes(2, "rw") \o Echoes(2, "$X", {"$X"}) \o Goes(2))

-----------------------------------------------------------------------------
(* phase11.mjs *)

s1DualPidIsolation == Script(Own,
  <<Check(Server([sessions |-> 0]))>> \o Comes(1, "rw") \o Comes(2, "rw") \o
  <<Check(Server([sessions |-> 2]))>> \o Echoes(1, "mark", {"mark"}) \o <<Hold(Of(2, [out |-> {}]))>>)

s2FirstFrameWinsize == Script(Own,
  Enters(1, NoConn, <<111, 44>>, [dims |-> <<111, 44>>, tty |-> <<111, 44>>]))

s3RuntimeDeletedCommand == Script(Own,
  Comes(1, "rw") \o Echoes(1, "before", {"before"}) \o <<By(1, "unlink")>> \o
  Rejected(2, "failed to start process") \o Echoes(1, "after", {"before", "after"}))

s4DisconnectESRCH == Script(Own,
  Comes(1, "rw") \o <<By(1, "close"), Await(Of(1, [child |-> "ended"]))>>)

s5ExitPrivate == Script(Own,
  Comes(1, "rw") \o Comes(2, "rw") \o
  <<With(1, "input", "exit 42"), Await(Of(1, Told2("42"))),
    Hold(Of(2, [code |-> 0, exit |-> "none", out |-> {}]))>> \o Echoes(2, "alive", {"alive"}) \o
  Comes(3, "rw") \o <<With(3, "input", "kill"), Await(Of(3, Told2("-1")))>>)

s6CapacityRegate == Script(WithMax(Immune, 1),
  Comes(1, "ro") \o Goes(1) \o Rejected(2, "server is at capacity") \o
  <<Check(Of(1, [child |-> "running"]))>>)

s7ReconnectNewPid == Script(Own,
  Comes(1, "rw") \o <<By(1, "close"), Await(Of(1, [child |-> "ended"]))>> \o Comes(2, "rw") \o
  <<Check(Of(2, [child |-> "running"])), Check(Of(1, [child |-> "ended"]))>>)

s8KillFallback == Script(Immune,
  Comes(1, "ro") \o Goes(1) \o
  <<Hold(Of(1, [child |-> "running"])), By(1, "kill"), Await(Of(1, [child |-> "ended"]))>>)

(* phase12.mjs *)

s1WelcomeSession == Script(Own, Comes(1, "rw") \o <<Check(Of(1, [dims |-> <<80, 24>>]))>>)
welcomeShared    == Script(Writable, Comes(1, "rw") \o <<Check(Of(1, [dims |-> <<80, 24>>]))>>)

s2ResizePassthroughIsolation == Script(Own,
  Enters(1, NoConn, <<100, 30>>, [mode |-> "rw"]) \o Enters(2, NoConn, <<90, 28>>, [mode |-> "rw"]) \o
  <<With(1, "resize", <<120, 50>>), Await(Of(1, [tty |-> <<120, 50>>])),
    Check(Of(2, [tty |-> <<90, 28>>])),
    Hold(Of(1, [dims |-> <<100, 30>>]) ), Hold(Of(2, [dims |-> <<90, 28>>]))>>)

s3ROResizePassthrough == Script(OwnRO,
  Comes(1, "ro") \o <<With(1, "resize", <<133, 55>>), Await(Of(1, [tty |-> <<133, 55>>]))>>)

readerResizeShared == Script(Cmd,
  Comes(1, "ro") \o <<With(1, "resize", <<133, 55>>), Hold(Of(1, [tty |-> <<80, 24>>]))>>)

s4ROInputDropRateLimit == Script(OwnRO,
  Comes(1, "ro") \o <<With(1, "input", "mark"), Hold(Of(1, [out |-> {}, code |-> 0]))>>)

rateLimitKeepsClient == Script(Own,
  Comes(1, "rw") \o <<By(1, "flood"), With(1, "input", "#"), Hold(Of(1, [out |-> {}, code |-> 0])),
    By(1, "refill")>> \o Echoes(1, "mark", {"mark"}))

s5StallResumeNoLoss == Script(Own,
  Comes(2, "rw") \o Comes(1, "rw") \o <<By(1, "stall")>> \o Echoes(2, "during", {"during"}) \o
  <<By(1, "resume"), Await(Of(1, [out |-> {"flood"}, code |-> 0]))>> \o
  Echoes(1, "post", {"flood", "post"}) \o Echoes(2, "after", {"during", "after"}))

s6DwellKick1013 == Script(Own,
  Comes(1, "rw") \o
  <<Check(Server([clients |-> 1])), By(1, "stall"), Hold(Of(1, [code |-> 0])), By(1, "dwell"),
    Await(Server([clients |-> 0])), By(1, "resume"), Check(Of(1, [code |-> 1013])),
    Await(Of(1, [child |-> "ended"]))>>)

(* phase13.mjs *)

s1ChurnThrottleXff == Script([Own EXCEPT !.tokens = 2],
  Comes(1, "rw") \o Goes(1) \o Comes(2, "rw") \o Goes(2) \o Rejected(3, "server is at capacity"))

s2KillBackstopDefault5s == Script(Immune,
  Comes(1, "ro") \o Goes(1) \o
  <<Hold(Of(1, [child |-> "running"])), By(1, "kill"), Await(Of(1, [child |-> "ended"]))>>)

noBackstop == Script([Immune EXCEPT !.kill = FALSE],
  Comes(1, "ro") \o Goes(1) \o <<Hold(Of(1, [child |-> "running"]))>>)

s3ExitFormsPerClient == Script([WithEmpty(Own, "now") EXCEPT !.max = 1],
  Comes(1, "rw") \o <<By(1, "close")>> \o Exits("255"))

emptyNowPerClient == Script(WithEmpty(Own, "now"), Comes(1, "rw") \o <<By(1, "close")>> \o Exits("255"))

gracePerClient == Script(WithEmpty(Own, "grace"),
  Comes(1, "rw") \o Goes(1) \o <<By(1, "grace")>> \o Exits("255"))

graceCancelledPerClient == Script(WithEmpty(Own, "grace"),
  Comes(1, "rw") \o Goes(1) \o Comes(2, "rw") \o Echoes(2, "alive", {"alive"}) \o
  <<Hold(Server([grace |-> FALSE, status |-> "up"]))>> \o Goes(2) \o <<By(2, "grace")>> \o Exits("255"))

s4ShutdownTwoGroups == Script(Own,
  Comes(1, "rw") \o Comes(2, "rw") \o
  <<By(1, "sigterm"), Await(Of(1, [code |-> 1001])), Await(Of(2, [code |-> 1001]))>> \o Exits("255") \o
  <<Check(Of(1, [child |-> "ended"])), Check(Of(2, [child |-> "ended"]))>>)

-----------------------------------------------------------------------------
AllScripts == {
  scenarioRO, scenarioRW, scenarioExit, scenarioVersionMismatch, scenarioHelloTimeout,
  scenarioMultiClient, scenarioAuthFlow, authFlowForgedTicket, scenarioThrottle, scenarioOrigin,
  scenarioNoAuth, s1DualClientConsistency, s2s3ShareLinkChains, noWritingLink, s4WrongToken,
  wrongTokenUnguarded, s5FullCapacity503, s6SlowConsumerKick, s8SigwinchRedrawOnAttach,
  s9PromotionChain, s10SessionDims, s1ExitDualBroadcast, s2ExitSignalDeath, s3OnceFullChain,
  s4ExitWhenEmptyImmediate, s5ExitWhenEmptyGrace, graceExpires, s6ReconnectSamePty,
  s1DualPidIsolation, s2FirstFrameWinsize, s3RuntimeDeletedCommand, s4DisconnectESRCH,
  s5ExitPrivate, s6CapacityRegate, s7ReconnectNewPid, s8KillFallback, s1WelcomeSession,
  welcomeShared, s2ResizePassthroughIsolation, s3ROResizePassthrough, readerResizeShared,
  s4ROInputDropRateLimit, rateLimitKeepsClient, s5StallResumeNoLoss, s6DwellKick1013,
  s1ChurnThrottleXff, s2KillBackstopDefault5s, noBackstop, s3ExitFormsPerClient,
  emptyNowPerClient, gracePerClient, graceCancelledPerClient, s4ShutdownTwoGroups}

FreeScript == Script(WithMax(Guarded, 1), <<>>)
Free == script.steps = <<>>

\* The command lines of all these.
AllSetups == {s.setup : s \in AllScripts \cup {FreeScript}}

-----------------------------------------------------------------------------
(* The harness. *)

SeenOf(c) ==
  [answer |-> seen[c].answer, code |-> seen[c].code, exit |-> seen[c].exit,
   error |-> seen[c].error, out |-> seen[c].out, phase |-> phase[c], mode |-> Mode(c),
   dims |-> IF PerClient THEN hello[c] ELSE tty[NoConn], tty |-> tty[Proc(c)],
   child |-> proc[Proc(c)]]
SeenOfServer ==
  [status |-> status, clients |-> Cardinality(In), sessions |-> Cardinality(Running),
   redraws |-> redraws, grace |-> grace, child |-> proc[NoConn]]
Shown == [x \in (Conns \X DOMAIN SeenOf(1)) \cup ({NoConn} \X DOMAIN SeenOfServer) |->
            IF x[1] = NoConn THEN SeenOfServer[x[2]] ELSE SeenOf(x[1])[x[2]]]

AllInit ==
  /\ script \in AllScripts \cup {FreeScript}
  /\ pos = 1
  /\ Init
  /\ conf = script.setup

Acts(event, c, x) ==
  CASE event = "post"         -> Post(c, x[1], x[2])
    [] event = "dial"         -> Dial(c, x)
    [] event = "hello"        -> HelloPasses(c, x[1], x[2]) \/ HelloFails(c, x[1])
    [] event = "badHello"     -> BadHello(c, x)
    [] event = "helloTimeout" -> HelloTimeout(c)
    [] event = "unblock"      -> BlockEnds
    [] event = "input"        -> Input(c, x)
    [] event = "flood"        -> Flood(c)
    [] event = "refill"       -> RateRecovers(c)
    [] event = "resize"       -> Resize(c, x)
    [] event = "stall"        -> Stall(c)
    [] event = "resume"       -> Resume(c)
    [] event = "dwell"        -> Kick(c)
    [] event = "close"        -> Hangup(c)
    [] event = "unlink"       -> Unlink
    [] event = "grace"        -> GraceLapses
    [] event = "kill"         -> KillLapses(c)
    [] event = "ends"         -> ChildEndsBy(c, x)
    [] event = "sigterm"      -> Shutdown

\* Bounds a behaviour that nobody drives: the first client has a ticket of the
\* credential, the second of the link for reading, the third presents one of theirs.
\* Requests that fail before a handshake begins are left to the scripts.
Cast ==
  /\ grant[1] # "ro" /\ grant[2] # "rw" /\ grant[3] = "none"
  /\ \A c \in Conns : seen[c].answer \notin {401, 403}

Act ==
  /\ Is({"do"})
  /\ Acts(step.event, step.arg.who, step.arg.arg)
  /\ pos' = pos + 1
  /\ UNCHANGED script

Observe ==
  /\ Is({"await", "check", "hold"})
  /\ Matches(Shown, step.obs)
  /\ pos' = pos + 1
  /\ UNCHANGED <<vars, script>>

\* A quiet window goes wrong as soon as it shows something else.
Pass ==
  /\ Is({"do", "await", "hold"})
  /\ step.kind = "hold" => Matches(Shown, step.obs)
  /\ Serve \/ Settle
  /\ UNCHANGED <<script, pos>>

AllNext ==
  \/ Free /\ Next /\ Cast' /\ UNCHANGED <<script, pos>>
  \/ Act \/ Observe \/ Pass

AllSpec ==
  /\ AllInit /\ [][AllNext]_allVars
  /\ Free => WF_vars(Timely)
  /\ WF_allVars(Act) /\ WF_allVars(Observe) /\ WF_allVars(Pass)

\* Every script comes to its end, whatever the order in which the handlers, the
\* children and the steps of the script interleave: what the scripts expect of the
\* running program is what the model does.
ServiceScriptsEnd == ~Free => <>~Playing

\* In a behaviour that nobody drives a silent client does not keep its place.
SilentGiveWay == Free => PlaceComesBack
=============================================================================

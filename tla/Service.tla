------------------------------ MODULE Service ------------------------------
(***************************************************************************)
(* The server as its clients see it: the attach endpoint and the handshake *)
(* of internal/server with their guards, and what a client of either       *)
(* session mode is promised afterwards.  The handshake is modelled step by *)
(* step: half-open places, the Hello timer, tickets of the credential and  *)
(* of the share links, the block of a source after a failure.  Behind it   *)
(* the sessions are abstract: Hub and PerClient follow what happens inside.*)
(*                                                                         *)
(* All clients come from one source address.  A ticket has the name of the *)
(* client it was issued to; any client may present it.                     *)
(***************************************************************************)
EXTENDS Integers, Sequences, FiniteSets

CONSTANTS
  Conns,        \* clients
  NoConn,       \* nil; the ticket of a client that has none; the shared child
  Setups,       \* the command lines the server may have been started with
  MaxHalfOpen   \* maxHalfOpenPerIP

ASSUME ServiceAssumption ==
  /\ IsFiniteSet(Conns)
  /\ NoConn \notin Conns
  /\ MaxHalfOpen \in Nat \ {0}

Modes == {"ro", "rw"}
Procs == Conns \cup {NoConn}

VARIABLES
  conf,         \* the command line
  phase,        \* "new", "dialled", "upgraded", "checked", "released", "in", or "ending", "out"
  grant,        \* the mode of the ticket issued to a client, or "none"
  live,         \* tickets that can be redeemed
  by,           \* the ticket that admitted a client
  places,       \* halfOpen: the places taken by handshakes
  blocked,      \* throttle: the source has to wait after a failure
  seen,         \* what a client got: status, close code, EXIT, error, output
  line,         \* the clients of the registry, in the order of attaching
  hello,        \* the size a client gave in Hello, then in RESIZE
  size,
  tty,          \* the size of a child's terminal
  due,          \* a debounced resize is pending
  full,         \* clients that do not read and whose outbox is full
  drained,      \* clients that have used up their input rate
  proc,         \* the children: "none", "running", "ended"
  fate,         \* the status a child is going to end with, or "none"
  signalled,    \* children that were sent the stop signal
  last,         \* the status of the child that ended last
  tokens,       \* spawn tokens the source has left
  unlinked,     \* the command was deleted
  redraws,      \* SIGWINCHs sent to the shared child's foreground group
  grace,        \* the grace timer of exit when empty runs
  asked,        \* exit when empty was decided
  exiting,
  status        \* of the server: "up", or its exit status

admVars  == <<phase, grant, live, by, places, blocked>>
lineVars == <<line, hello, size>>
ttyVars  == <<tty, due>>
flowVars == <<full, drained>>
procVars == <<proc, fate, signalled, last>>
spawnVars == <<tokens, unlinked, redraws>>
endVars  == <<grace, asked, exiting, status>>
sessVars == <<lineVars, ttyVars, flowVars, procVars, spawnVars, endVars>>
vars == <<conf, admVars, seen, sessVars>>

-----------------------------------------------------------------------------
\* A command line; max is --max-clients, kill says that --stop-timeout is given,
\* traps that the children ignore the stop signal.
Cmd == [session |-> "shared", writable |-> FALSE, credential |-> FALSE, max |-> 3,
        empty |-> "never", kill |-> TRUE, traps |-> FALSE, tokens |-> 3]

PerClient == conf.session = "per-client"
In == {c \in Conns : phase[c] = "in"}
Open(c) == seen[c].code = 0
Full == Cardinality(In) >= conf.max          \* registry.n

\* Handshakes under way.
HalfOpen == {c \in Conns : phase[c] \in {"dialled", "upgraded", "checked", "ending"}}

Up == status = "up" /\ UNCHANGED conf

\* The client sees its connection closed with code k, unless it was before.
Closed(s, c, k) == IF s[c].code = 0 THEN [s EXCEPT ![c].code = k] ELSE s

FullMode == IF conf.writable THEN "rw" ELSE "ro"
Bound(c) == IF by[c] = NoConn THEN FullMode ELSE grant[by[c]]
Eligible(c) == conf.writable /\ Bound(c) = "rw"

\* The shared session has one writer, the first eligible client in line.
First(q, c) == \E i \in DOMAIN q : q[i] = c /\ \A j \in 1..(i - 1) : ~Eligible(q[j])
ModeIn(q, c) == IF Eligible(c) /\ (PerClient \/ First(q, c)) THEN "rw" ELSE "ro"
Mode(c) == ModeIn(line, c)

Proc(c) == IF PerClient THEN c ELSE NoConn
Running == {p \in Procs : proc[p] = "running"}

-----------------------------------------------------------------------------
(* POST /api/attach. *)

ShareHit(cred) == cred = "ro" \/ (cred = "rw" /\ conf.writable)
Issued == IF Full THEN 503 ELSE 200

AttachAnswer(cred, evil) ==
  CASE ShareHit(cred)                               -> Issued
    [] ~ShareHit(cred) /\ ~conf.credential          -> IF cred = "none" THEN 404 ELSE 401
    [] ~ShareHit(cred) /\ conf.credential /\ evil   -> 403
    [] OTHER -> CASE cred \notin {"right", "wrong"} -> 401
                  [] cred = "right" /\ ~blocked     -> Issued
                  [] cred = "wrong" /\ ~blocked     -> 401
                  [] OTHER                          -> 429

GrantOf(cred) == IF ShareHit(cred) THEN cred ELSE FullMode

\* cred: the credential, right or wrong, or the token of a share link.
Post(c, cred, evil) ==
  /\ Up
  /\ grant[c] = "none"
  /\ LET a == AttachAnswer(cred, evil) IN
       /\ seen' = [seen EXCEPT ![c].answer = a]
       /\ grant' = [grant EXCEPT ![c] = IF a = 200 THEN GrantOf(cred) ELSE @]
       /\ live' = IF a = 200 THEN live \cup {c} ELSE live
       /\ blocked' = (blocked \/ (cred = "wrong" /\ a = 401 /\ conf.credential))
  /\ UNCHANGED <<phase, by, places, sessVars>>

-----------------------------------------------------------------------------
(* The handshake. *)

\* The guards in front of the place; 0 is no answer yet.
UpgradeAnswer(asks) ==
  CASE asks = "evil"  -> 403
    [] asks = "plain" -> 400
    [] OTHER          -> IF places >= MaxHalfOpen THEN 429 ELSE 0

Dial(c, asks) ==
  /\ Up
  /\ phase[c] = "new"
  /\ LET a == UpgradeAnswer(asks) IN
       /\ seen' = [seen EXCEPT ![c].answer = a]
       /\ phase' = [phase EXCEPT ![c] = IF a = 0 THEN "dialled" ELSE @]
       /\ places' = IF a = 0 THEN places + 1 ELSE places
  /\ UNCHANGED <<grant, live, by, blocked, sessVars>>

\* Fault: the deferred release gives back a place that was given back already.
ReleaseTwice == places' = places - 2

ReleasePlace == places' = places - 1

\* The capacity gate, which gives the place back when it refuses, and Accept.
Admit(c) ==
  /\ Up
  /\ phase[c] = "dialled"
  /\ \/ /\ Full
        /\ seen' = [seen EXCEPT ![c].answer = 503]
        /\ phase' = [phase EXCEPT ![c] = "new"]
        /\ ReleasePlace
     \/ /\ ~Full
        /\ seen' = [seen EXCEPT ![c].answer = 101]
        /\ phase' = [phase EXCEPT ![c] = "upgraded"]
        /\ UNCHANGED places
  /\ UNCHANGED <<grant, live, by, blocked, sessVars>>

\* The connection broke: the handler returns.
AcceptFails(c) ==
  /\ Up
  /\ phase[c] = "dialled"
  /\ ~Full
  /\ phase' = [phase EXCEPT ![c] = "out"]
  /\ ReleasePlace
  /\ UNCHANGED <<grant, live, by, blocked, seen, sessVars>>

Awaited(c) == Up /\ phase[c] = "upgraded" /\ Open(c)

\* The first frame is none, or speaks another version.
BadHello(c, k) ==
  /\ Awaited(c)
  /\ phase' = [phase EXCEPT ![c] = "ending"]
  /\ seen' = Closed(seen, c, k)
  /\ UNCHANGED <<grant, live, by, places, blocked, sessVars>>

\* Fault: a ticket that was redeemed stays.
SpendNothing(t) == live' = live

Spend(t) == live' = live \ {t}

\* checkTicket lets the client through without a ticket, or redeems one.
HelloPasses(c, t, d) ==
  /\ Awaited(c)
  /\ \/ t = NoConn /\ ~conf.credential /\ UNCHANGED live
     \/ t \in live /\ ~(conf.credential /\ blocked) /\ Spend(t)
  /\ by' = [by EXCEPT ![c] = t]
  /\ hello' = [hello EXCEPT ![c] = d]
  /\ size' = [size EXCEPT ![c] = d]
  /\ phase' = [phase EXCEPT ![c] = "checked"]
  /\ UNCHANGED <<grant, places, blocked, seen, line, ttyVars, flowVars, procVars, spawnVars, endVars>>

\* It refuses: a blocked source spends no ticket, and is not counted again.
HelloFails(c, t) ==
  /\ Awaited(c)
  /\ conf.credential \/ t # NoConn
  /\ t \notin live \/ (conf.credential /\ blocked)
  /\ blocked' = (blocked \/ conf.credential)
  /\ phase' = [phase EXCEPT ![c] = "ending"]
  /\ seen' = Closed(seen, c, 1008)
  /\ UNCHANGED <<grant, live, by, places, sessVars>>

\* Fault: the timer is armed when the first frame has come.
HelloTimeoutLate(c) ==
  /\ Up
  /\ phase[c] = "checked"
  /\ Open(c)
  /\ seen' = Closed(seen, c, 1008)
  /\ UNCHANGED <<admVars, sessVars>>

\* The Hello timer finds helloDone open; a Hello that is being checked goes on.
HelloTimeout(c) ==
  /\ Up
  /\ phase[c] \in {"upgraded", "checked"}
  /\ Open(c)
  /\ seen' = Closed(seen, c, 1008)
  /\ UNCHANGED <<admVars, sessVars>>

\* The handler of a handshake that failed returns.
HandlerEnds(c) ==
  /\ Up
  /\ phase[c] = "ending" \/ (phase[c] = "upgraded" /\ ~Open(c))
  /\ phase' = [phase EXCEPT ![c] = "out"]
  /\ ReleasePlace
  /\ UNCHANGED <<grant, live, by, blocked, seen, sessVars>>

\* helloDone is closed, the place is given back; then comes the registration.
Release(c) ==
  /\ Up
  /\ phase[c] = "checked"
  /\ phase' = [phase EXCEPT ![c] = "released"]
  /\ ReleasePlace
  /\ UNCHANGED <<grant, live, by, blocked, seen, sessVars>>

TicketExpires(t) ==
  /\ Up
  /\ t \in live
  /\ Spend(t)
  /\ UNCHANGED <<phase, grant, by, places, blocked, seen, sessVars>>

BlockEnds ==
  /\ Up
  /\ blocked
  /\ blocked' = FALSE
  /\ UNCHANGED <<phase, grant, live, by, places, seen, sessVars>>

-----------------------------------------------------------------------------
(* Attach. *)

InLine(q) == {q[i] : i \in DOMAIN q}
Participants(q) == {c \in InLine(q) : ModeIn(q, c) = "rw" \/ ~conf.writable}

\* The common rectangle of those that count, of the sizes sz.
Arbitrate(q, sz) ==
  LET Least(i) == CHOOSE x \in {sz[c][i] : c \in Participants(q)} :
                    \A c \in Participants(q) : x <= sz[c][i]
  IN IF Participants(q) = {} THEN tty[NoConn] ELSE <<Least(1), Least(2)>>

\* A pending resize is overtaken by the recalculation.
Recalculate(q, sz) ==
  /\ tty' = [tty EXCEPT ![NoConn] = Arbitrate(q, sz)]
  /\ UNCHANGED due

\* A client of the shared session; the foreground group is told to redraw.
JoinShared(c) ==
  /\ Up
  /\ ~PerClient
  /\ phase[c] = "released"
  /\ phase' = [phase EXCEPT ![c] = "in"]
  /\ line' = Append(line, c)
  /\ IF c \in Participants(line') THEN Recalculate(line', size) ELSE UNCHANGED ttyVars
  /\ grace' = FALSE
  /\ redraws' = redraws + 1
  /\ UNCHANGED <<grant, live, by, places, blocked, seen, hello, size, flowVars, procVars,
                 tokens, unlinked, asked, exiting, status>>

Spawnable == tokens > 0 /\ Cardinality(Running) < conf.max /\ ~unlinked

\* A client of its own child, which starts with the size of its Hello.
JoinOwn(c) ==
  /\ Up
  /\ PerClient
  /\ phase[c] = "released"
  /\ Spawnable
  /\ phase' = [phase EXCEPT ![c] = "in"]
  /\ line' = Append(line, c)
  /\ tty' = [tty EXCEPT ![c] = hello[c]]
  /\ proc' = [proc EXCEPT ![c] = "running"]
  /\ tokens' = tokens - 1
  /\ grace' = FALSE
  /\ UNCHANGED <<grant, live, by, places, blocked, seen, hello, size, due, flowVars, fate,
                 signalled, last, unlinked, redraws, asked, exiting, status>>

\* No token, no place or no child: an ERROR frame, and 1011.
RefuseOwn(c) ==
  /\ Up
  /\ PerClient
  /\ phase[c] = "released"
  /\ ~Spawnable
  /\ phase' = [phase EXCEPT ![c] = "out"]
  /\ tokens' = IF tokens > 0 THEN tokens - 1 ELSE 0
  /\ LET why == IF tokens > 0 /\ Cardinality(Running) < conf.max
                  THEN "failed to start process" ELSE "server is at capacity"
     IN seen' = Closed([seen EXCEPT ![c].error = why], c, 1011)
  /\ UNCHANGED <<grant, live, by, places, blocked, lineVars, ttyVars, flowVars, procVars,
                 unlinked, redraws, endVars>>

-----------------------------------------------------------------------------
(* Traffic. *)

\* INPUT, of a client that may write and within its rate: the child's answer
\* goes to everybody attached to it.
Input(c, m) ==
  /\ Up
  /\ c \in In /\ Open(c)
  /\ LET heard == Mode(c) = "rw" /\ c \notin drained IN
       /\ seen' = IF ~heard THEN seen ELSE
            [d \in Conns |->
               IF d \in In /\ Proc(d) = Proc(c) THEN [seen[d] EXCEPT !.out = @ \cup {m}] ELSE seen[d]]
       /\ fate' = [fate EXCEPT ![Proc(c)] =
            IF heard /\ @ = "none" THEN CASE m = "exit 42" -> "42" [] m = "kill" -> "-1" [] OTHER -> @
            ELSE @]
  /\ UNCHANGED <<admVars, lineVars, ttyVars, flowVars, proc, signalled, last, spawnVars, endVars>>

Flood(c) ==
  /\ Up
  /\ c \in In
  /\ drained' = drained \cup {c}
  /\ UNCHANGED <<admVars, seen, lineVars, ttyVars, full, procVars, spawnVars, endVars>>

RateRecovers(c) ==
  /\ Up
  /\ c \in drained
  /\ drained' = drained \ {c}
  /\ UNCHANGED <<admVars, seen, lineVars, ttyVars, full, procVars, spawnVars, endVars>>

\* RESIZE: of a reader of the shared session it is dropped.
Resize(c, d) ==
  /\ Up
  /\ c \in In /\ Open(c)
  /\ IF PerClient \/ Mode(c) = "rw"
       THEN size' = [size EXCEPT ![c] = d] /\ due' = TRUE
       ELSE UNCHANGED <<size, due>>
  /\ UNCHANGED <<admVars, seen, line, hello, tty, flowVars, procVars, spawnVars, endVars>>

\* The debounce timer.
Settle ==
  /\ Up
  /\ due
  /\ due' = FALSE
  /\ tty' = [p \in Procs |->
       CASE p = NoConn /\ ~PerClient -> Arbitrate(line, size)
         [] p \in In /\ PerClient    -> size[p]
         [] OTHER                    -> tty[p]]
  /\ UNCHANGED <<admVars, seen, lineVars, flowVars, procVars, spawnVars, endVars>>

\* A child writes more than an outbox holds, and c does not read.
Stall(c) ==
  /\ Up
  /\ c \in In
  /\ full' = full \cup {c}
  /\ UNCHANGED <<admVars, seen, lineVars, ttyVars, drained, procVars, spawnVars, endVars>>

\* It reads again: a client of its own child lost nothing.
Resume(c) ==
  /\ Up
  /\ c \in full
  /\ full' = full \ {c}
  /\ seen' = IF PerClient /\ c \in In THEN [seen EXCEPT ![c].out = @ \cup {"flood"}] ELSE seen
  /\ UNCHANGED <<admVars, lineVars, ttyVars, drained, procVars, spawnVars, endVars>>

Hangup(c) ==
  /\ Up
  /\ phase[c] \notin {"new", "dialled"}
  /\ seen' = Closed(seen, c, 1000)
  /\ UNCHANGED <<admVars, sessVars>>

Unlink ==
  /\ Up
  /\ unlinked' = TRUE
  /\ UNCHANGED <<admVars, seen, lineVars, ttyVars, flowVars, procVars, tokens, redraws, endVars>>

-----------------------------------------------------------------------------
(* Departure, and the ends of children and of the server. *)

\* The stop signal to the children S; a child may ignore it.
Signal(S) ==
  /\ signalled' = signalled \cup (S \cap Running)
  /\ fate' = [p \in Procs |->
       IF p \in S \cap Running /\ ~conf.traps /\ fate[p] = "none" THEN "-1" ELSE fate[p]]
  /\ UNCHANGED <<proc, last>>

\* Out of the registry; its own child is stopped, and when nobody is left the
\* program may be, at once or after a grace.
Leave(c) ==
  /\ phase' = [phase EXCEPT ![c] = "out"]
  /\ line' = SelectSeq(line, LAMBDA d : d # c)
  /\ IF PerClient THEN UNCHANGED ttyVars ELSE Recalculate(line', size)
  /\ LET empties == line' = <<>> /\ ~exiting IN
       /\ asked' = (asked \/ (empties /\ conf.empty = "now"))
       /\ grace' = (grace \/ (empties /\ conf.empty = "grace"))
  /\ Signal(IF PerClient THEN {c} ELSE IF asked' /\ ~asked THEN {NoConn} ELSE {})
  /\ UNCHANGED <<grant, live, by, places, blocked, hello, size, flowVars, spawnVars, exiting, status>>

Detach(c) ==
  /\ Up
  /\ c \in In
  /\ ~Open(c)
  /\ Leave(c)
  /\ UNCHANGED seen

\* A slow reader of the shared session goes at once, a client of its own child
\* after its dwell.
Kick(c) ==
  /\ Up
  /\ c \in In \cap full
  /\ PerClient \/ Mode(c) = "ro"
  /\ seen' = Closed(seen, c, 1013)
  /\ Leave(c)

GraceLapses ==
  /\ Up
  /\ grace
  /\ grace' = FALSE
  /\ asked' = TRUE
  /\ Signal(IF PerClient THEN {} ELSE {NoConn})
  /\ UNCHANGED <<admVars, seen, lineVars, ttyVars, flowVars, spawnVars, exiting, status>>

\* --stop-timeout: SIGKILL.
KillLapses(p) ==
  /\ Up
  /\ p \in signalled
  /\ conf.kill
  /\ fate' = [fate EXCEPT ![p] = IF @ = "none" THEN "-1" ELSE @]
  /\ UNCHANGED <<admVars, seen, lineVars, ttyVars, flowVars, proc, signalled, last, spawnVars, endVars>>

ChildEndsBy(p, how) ==
  /\ Up
  /\ p \in Running
  /\ fate[p] = "none"
  /\ fate' = [fate EXCEPT ![p] = how]
  /\ UNCHANGED <<admVars, seen, lineVars, ttyVars, flowVars, proc, signalled, last, spawnVars, endVars>>

\* Fault: everybody is told, whoever's child it was.
ToldAll(p) == In

Told(p) == {c \in In : Proc(c) = p}

\* Wait returns: those attached to the child get EXIT, then the close with 1000.
ChildEnds(p) ==
  /\ Up
  /\ p \in Running
  /\ fate[p] # "none"
  /\ proc' = [proc EXCEPT ![p] = "ended"]
  /\ last' = fate[p]
  /\ exiting' = (exiting \/ ~PerClient)
  /\ seen' = [c \in Conns |->
       IF c \in Told(p) /\ Open(c) THEN [seen[c] EXCEPT !.exit = fate[p], !.code = 1000] ELSE seen[c]]
  /\ UNCHANGED <<admVars, lineVars, ttyVars, flowVars, fate, signalled, spawnVars, grace, asked, status>>

\* SIGTERM.
Shutdown ==
  /\ Up
  /\ exiting' = TRUE
  /\ seen' = [c \in Conns |-> IF c \in In THEN Closed(seen, c, 1001)[c] ELSE seen[c]]
  /\ Signal(Procs)
  /\ UNCHANGED <<admVars, lineVars, ttyVars, flowVars, spawnVars, grace, asked, status>>

\* lifecycle, or pcSupervisor: os.Exit(-1) is 255.
Terminate ==
  /\ Up
  /\ Running = {}
  /\ exiting \/ (PerClient /\ asked)
  /\ status' = IF last = "-1" THEN "255" ELSE last
  /\ UNCHANGED <<admVars, seen, lineVars, ttyVars, flowVars, procVars, spawnVars, grace, asked, exiting>>

-----------------------------------------------------------------------------
Blank == [answer |-> 0, code |-> 0, exit |-> "none", error |-> "none", out |-> {}]

Init ==
  /\ conf \in Setups
  /\ phase = [c \in Conns |-> "new"]
  /\ grant = [c \in Conns |-> "none"]
  /\ live = {}
  /\ by = [c \in Conns |-> NoConn]
  /\ places = 0
  /\ blocked = FALSE
  /\ seen = [c \in Conns |-> Blank]
  /\ line = <<>>
  /\ hello = [c \in Conns |-> <<80, 24>>]
  /\ size = hello
  /\ tty = [p \in Procs |-> <<80, 24>>]
  /\ due = FALSE
  /\ full = {}
  /\ drained = {}
  /\ proc = [p \in Procs |-> IF p = NoConn /\ ~PerClient THEN "running" ELSE "none"]
  /\ fate = [p \in Procs |-> "none"]
  /\ signalled = {}
  /\ last = "0"
  /\ tokens = conf.tokens
  /\ unlinked = FALSE
  /\ redraws = 0
  /\ grace = FALSE
  /\ asked = FALSE
  /\ exiting = FALSE
  /\ status = "up"

\* What the server does of itself, without a timer.
Work ==
  \/ \E c \in Conns : \/ HandlerEnds(c) \/ Release(c)
                      \/ JoinShared(c) \/ JoinOwn(c) \/ RefuseOwn(c)
                      \/ Detach(c)
                      \/ ~PerClient /\ Kick(c)
  \/ \E p \in Procs : ChildEnds(p)
  \/ Terminate

\* And the answers to those who dial.
Serve == Work \/ \E c \in Conns : Admit(c)

\* What clients may do to be admitted, and the timers they meet.
Sizes == {<<80, 24>>}
Knock ==
  \E c \in Conns :
    \/ \E cred \in {"right", "wrong", "ro"} : Post(c, cred, FALSE)
    \/ Dial(c, "ok")
    \/ AcceptFails(c)
    \/ BadHello(c, 1008)
    \/ \E t \in Procs : (\E d \in Sizes : HelloPasses(c, t, d)) \/ HelloFails(c, t)
    \/ HelloTimeout(c)
    \/ Hangup(c)
    \/ TicketExpires(c)

Next == Serve \/ Knock \/ BlockEnds

Spec == Init /\ [][Next]_vars

\* Handlers run, and the Hello timer of a client that says nothing fires.  Admit
\* is left out: who is refused may dial again for ever.
Timely == Work \/ \E c \in Conns : phase[c] = "upgraded" /\ HelloTimeout(c)

FairSpec == Spec /\ WF_vars(Timely)

-----------------------------------------------------------------------------
(* Properties. *)

\* Every variable of the handshake has its type.
TypeOK ==
  /\ phase \in [Conns -> {"new", "dialled", "upgraded", "checked", "released", "in", "ending", "out"}]
  /\ grant \in [Conns -> Modes \cup {"none"}]
  /\ live \subseteq Conns
  /\ by \in [Conns -> Conns \cup {NoConn}]
  /\ places \in Nat
  /\ blocked \in BOOLEAN

\* The counter of half-open places, which is changed from a dozen ways out of the
\* handler, is the number of handshakes under way: nothing leaks, and nothing is
\* given back twice (the invariant stated at server.go:994).
HalfOpenExact == places = Cardinality(HalfOpen) /\ places <= MaxHalfOpen

\* With a credential nobody is past the handshake without a ticket of his own, and
\* whoever may write presented one that gives writing, also when he was promoted
\* later: succession does not make a writer of a reader's ticket.
TicketsHonoured ==
  conf.credential =>
    \A c \in Conns : phase[c] \in {"checked", "released", "in"} =>
      /\ by[c] # NoConn
      /\ grant[by[c]] # "none"
      /\ \A d \in Conns \ {c} : by[d] # by[c]
      /\ c \in In /\ Mode(c) = "rw" => grant[by[c]] = "rw"

\* A client that says nothing after the upgrade does not keep its place.
PlaceComesBack ==
  \A c \in Conns : (phase[c] = "upgraded") ~> (c \notin HalfOpen \/ status # "up")
=============================================================================

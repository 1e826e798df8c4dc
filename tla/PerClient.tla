----------------------------- MODULE PerClient -----------------------------
(***************************************************************************)
(* The per-client session mode of internal/server: each client has a child *)
(* process of its own, spawned when it attaches and torn down when either  *)
(* of them goes.  The module follows a session from the gates before the   *)
(* fork to its removal from pcSessions, and the ways the program ends: the *)
(* exit when the last client has left, with its grace timer, the           *)
(* supervisor that waits for the sessions to end, and Shutdown with its    *)
(* bounded wait.                                                           *)
(*                                                                         *)
(* Each element of Clients is one attach.  A critical section of hubMu is  *)
(* one step: none of them waits or nests here.  hubCond has two waiters,   *)
(* the supervisor and Shutdown.                                            *)
(***************************************************************************)
EXTENDS Naturals, FiniteSets

CONSTANTS
  Clients,        \* attach instances
  NoClient,       \* nil
  MaxClients,     \* --max-clients
  ExitWhenEmpty,  \* --exit-when-empty is given
  Grace,          \* ... with a grace > 0
  StopTimeout,    \* --stop-timeout > 0: SIGKILL follows the stop signal
  Killable        \* children that SIGKILL ends (others hang in the kernel)

ASSUME PerClientAssumption ==
  /\ NoClient \notin Clients
  /\ MaxClients \in Nat \ {0}
  /\ ExitWhenEmpty \in BOOLEAN
  /\ Grace \in BOOLEAN
  /\ StopTimeout \in BOOLEAN
  /\ Killable \subseteq Clients

VARIABLES
  phase,     \* upgrade: "new", "gated", "spawned", then "in" or "refused", "gone"
  child,     \* the process: "none", "running", "exited", "reaped"
  watcher,   \* where the only caller of Wait is, see Recorded and WaitDone
  teardown,  \* teardownPCLocked: "no", "slow" (its slow half), "done"
  kills,     \* SIGKILL timers armed, <<client, who armed it>>
  killed,    \* children that were sent SIGKILL
  sessions,  \* pcSessions
  last,      \* pcLastExitCode: the child whose code it is, NoClient if none
  exitReq,   \* pcExitReq
  latch,     \* exitEmptySignaled
  timer,     \* exitEmptyTimer, named by the client whose leaving armed it
  ticking,   \* grace timers that run
  fired,     \* grace callbacks that wait for hubMu
  epoch,     \* history: clients that had attached when a timer was armed
  exiting,   \* exiting
  shut,      \* Shutdown: "no", "close", "signal", "join", "sleep", "force", "done"
  todo,      \* sessions of Shutdown's snapshot not signalled yet
  late,      \* the deadline of Shutdown's join has passed
  wake,      \* the timer that ends the sleep of the join runs
  sup,       \* pcSupervisor: "check", "sleep", "end"
  ended      \* exitf: "no", or who called it

upVars   == <<phase, sessions>>
procVars == <<child, watcher, last>>
tearVars == <<teardown, kills>>
graceVars == <<latch, timer, ticking, fired, epoch>>
shutVars == <<exiting, shut, todo, late, wake>>
vars == <<upVars, procVars, tearVars, killed, graceVars, exitReq, shutVars, sup, ended>>

-----------------------------------------------------------------------------
Registered == {c \in Clients : phase[c] = "in"}

Attached == {c \in Clients : phase[c] \in {"in", "gone"}}

\* pc.reaped: set by the watcher under hubMu.
Recorded(c) == watcher[c] \in {"recorded", "await", "told", "closed"}

\* Fault: waitDone is closed as soon as Wait returns; the slow half does not wait
\* for it; it is never closed.
WaitDoneEarly(c) == watcher[c] \in {"returned", "recorded", "await", "told", "closed"}
WaitDoneIgnored(c) == TRUE
WaitDoneForgotten(c) == FALSE

\* waitDone is closed: after the record.
WaitDone(c) == watcher[c] \in {"await", "told", "closed"}

\* Fault: the supervisor is not woken, or nobody is.
WakeForgotten == UNCHANGED sup
BroadcastForgotten == UNCHANGED <<sup, shut>>

WakeSupervisor == sup' = IF sup = "sleep" THEN "check" ELSE sup

\* hubCond.Broadcast.
Broadcast ==
  /\ WakeSupervisor
  /\ shut' = IF shut = "sleep" THEN "join" ELSE shut

\* Fault: the timer is bound to another session than the one that stops.
ArmAnother(c, who) == kills \cup {<<last, who>>}

\* The stop signal is sent: it obliges the child to nothing, SIGKILL does later.
Arm(c, who) == IF StopTimeout THEN kills \cup {<<c, who>>} ELSE kills

\* Nothing happens after exitf, which is os.Exit.
Alive == ended = "no" /\ UNCHANGED ended

-----------------------------------------------------------------------------
(* Attach.                                                                 *)

Full == Cardinality(sessions) >= MaxClients

\* The gate before the fork: capacity, or a spawn budget that is spent.
Gate(c) ==
  /\ Alive
  /\ phase[c] = "new"
  /\ \/ ~Full /\ phase' = [phase EXCEPT ![c] = "gated"]
     \/ phase' = [phase EXCEPT ![c] = "refused"]
  /\ UNCHANGED <<sessions, procVars, tearVars, killed, graceVars, exitReq, shutVars, sup>>

\* The fork, outside hubMu.
Spawn(c) ==
  /\ Alive
  /\ phase[c] = "gated"
  /\ \/ /\ phase' = [phase EXCEPT ![c] = "spawned"]
        /\ child' = [child EXCEPT ![c] = "running"]
     \/ phase' = [phase EXCEPT ![c] = "refused"] /\ child' = child
  /\ UNCHANGED <<sessions, watcher, last, tearVars, killed, graceVars, exitReq, shutVars, sup>>

\* Fault: the capacity is not looked at again.
RecheckForgotten == TRUE

Recheck == ~Full

\* Fault: the emptying that was noticed last stays the only one.
NewEpochForgotten == latch' = latch

NewEpoch == latch' = FALSE

\* The client and its session are entered, the grace timer is cancelled and a
\* new epoch begins.
Register(c) ==
  /\ Alive
  /\ phase[c] = "spawned"
  /\ Recheck
  /\ phase' = [phase EXCEPT ![c] = "in"]
  /\ sessions' = sessions \cup {c}
  /\ watcher' = [watcher EXCEPT ![c] = "wait"]
  /\ ticking' = ticking \ {timer}
  /\ timer' = NoClient
  /\ NewEpoch
  /\ UNCHANGED <<child, last, tearVars, killed, fired, epoch, exitReq, shutVars, sup>>

\* reapOrphanSession: the place is gone; the child is told to stop and reaped by
\* a goroutine of its own.
Refuse(c) ==
  /\ Alive
  /\ phase[c] = "spawned"
  /\ ~Recheck
  /\ phase' = [phase EXCEPT ![c] = "refused"]
  /\ watcher' = [watcher EXCEPT ![c] = "orphan"]
  /\ kills' = Arm(c, "orphan")
  /\ UNCHANGED <<sessions, child, last, teardown, killed, graceVars, exitReq, shutVars, sup>>

-----------------------------------------------------------------------------
(* The end of a session.                                                   *)

\* The child ends, of its own or by a signal.
ChildExits(c) ==
  /\ Alive
  /\ child[c] = "running"
  /\ child' = [child EXCEPT ![c] = "exited"]
  /\ UNCHANGED <<upVars, watcher, last, tearVars, killed, graceVars, exitReq, shutVars, sup>>

\* Wait reaps the child and returns; session_end is logged before anything else.
WaitReturns(c) ==
  /\ Alive
  /\ child[c] = "exited"
  /\ watcher[c] \in {"wait", "orphan"}
  /\ child' = [child EXCEPT ![c] = "reaped"]
  /\ watcher' = [watcher EXCEPT ![c] = IF @ = "wait" THEN "returned" ELSE "orphan_returned"]
  /\ UNCHANGED <<upVars, last, tearVars, killed, graceVars, exitReq, shutVars, sup>>

\* reaped.Store(true) of an orphan.
OrphanRecorded(c) ==
  /\ Alive
  /\ watcher[c] = "orphan_returned"
  /\ watcher' = [watcher EXCEPT ![c] = "orphan_recorded"]
  /\ UNCHANGED <<upVars, child, last, tearVars, killed, graceVars, exitReq, shutVars, sup>>

\* The watcher's critical section: exit code, reaped, and the teardown, which
\* sends no signal any more.
Record(c) ==
  /\ Alive
  /\ watcher[c] = "returned"
  /\ watcher' = [watcher EXCEPT ![c] = "recorded"]
  /\ last' = c
  /\ teardown' = [teardown EXCEPT ![c] = IF @ = "no" THEN "slow" ELSE @]
  /\ UNCHANGED <<upVars, child, kills, killed, graceVars, exitReq, shutVars, sup>>

CloseWaitDone(c) ==
  /\ Alive
  /\ watcher[c] = "recorded"
  /\ watcher' = [watcher EXCEPT ![c] = "await"]
  /\ UNCHANGED <<upVars, child, last, tearVars, killed, graceVars, exitReq, shutVars, sup>>

\* Fault: a child that ignores the stop signal is not killed.
TriggerMild(c) ==
  /\ teardown' = [teardown EXCEPT ![c] = IF @ = "no" THEN "slow" ELSE @]
  /\ kills' = kills

\* teardownPCLocked's fast half, unless it ran already.
Trigger(c) ==
  IF teardown[c] # "no"
    THEN UNCHANGED tearVars
    ELSE /\ teardown' = [teardown EXCEPT ![c] = "slow"]
         /\ kills' = IF Recorded(c) \/ WaitDone(c) THEN kills ELSE Arm(c, "teardown")

\* The slow half, once Drain and Close are over and the child is reaped.
SlowHalf(c) ==
  /\ Alive
  /\ teardown[c] = "slow"
  /\ WaitDone(c)
  /\ sessions' = sessions \ {c}
  /\ teardown' = [teardown EXCEPT ![c] = "done"]
  /\ Broadcast
  /\ UNCHANGED <<phase, procVars, kills, killed, graceVars, exitReq, exiting, todo, late, wake>>

\* A SIGKILL timer fires.
KillFires(c, who) ==
  /\ Alive
  /\ <<c, who>> \in kills
  /\ kills' = kills \ {<<c, who>>}
  /\ IF Recorded(c) \/ WaitDone(c) \/ watcher[c] = "orphan_recorded"
       THEN killed' = killed
       ELSE killed' = killed \cup {c}
  /\ UNCHANGED <<upVars, procVars, teardown, graceVars, exitReq, shutVars, sup>>

\* The watcher writes EXIT once the teardown is done, then closes with 1000.
WriteExit(c) ==
  /\ Alive
  /\ watcher[c] = "await"
  /\ teardown[c] = "done"
  /\ watcher' = [watcher EXCEPT ![c] = "told"]
  /\ UNCHANGED <<upVars, child, last, tearVars, killed, graceVars, exitReq, shutVars, sup>>

CloseConn(c) ==
  /\ Alive
  /\ watcher[c] = "told"
  /\ watcher' = [watcher EXCEPT ![c] = "closed"]
  /\ UNCHANGED <<upVars, child, last, tearVars, killed, graceVars, exitReq, shutVars, sup>>

-----------------------------------------------------------------------------
(* A client leaves; exit when empty.                                       *)

\* maybeExitWhenEmptyLocked, after c has left the registry.
MaybeExit(c) ==
  IF ~ExitWhenEmpty \/ exiting \/ Registered # {c} \/ latch
    THEN UNCHANGED <<graceVars, exitReq>>
    ELSE /\ latch' = TRUE
         /\ IF Grace
              THEN /\ timer' = c
                   /\ ticking' = (ticking \ {timer}) \cup {c}
                   /\ epoch' = [epoch EXCEPT ![c] = Attached]
                   /\ UNCHANGED <<exitReq, fired>>
              ELSE exitReq' = TRUE /\ UNCHANGED <<timer, ticking, epoch, fired>>

\* detach, whatever ended the reader, or a kick by the dwell timer.
Leave(c) ==
  /\ Alive
  /\ phase[c] = "in"
  /\ phase' = [phase EXCEPT ![c] = "gone"]
  /\ Trigger(c)
  /\ MaybeExit(c)
  /\ Broadcast
  /\ UNCHANGED <<sessions, procVars, killed, exiting, todo, late, wake>>

GraceExpires(c) ==
  /\ Alive
  /\ c \in ticking
  /\ ticking' = ticking \ {c}
  /\ fired' = fired \cup {c}
  /\ UNCHANGED <<upVars, procVars, tearVars, killed, latch, timer, epoch, exitReq, shutVars, sup>>

\* Fault: the callback does not look whether it was replaced.
CurrentAlways(t) == TRUE

\* Stop came too late for this callback, but it is no longer the timer.
Current(t) == timer = t

\* The callback of a grace timer, with hubMu.
GraceCallback(t) ==
  /\ Alive
  /\ t \in fired
  /\ fired' = fired \ {t}
  /\ IF Current(t) /\ ~exiting /\ Registered = {}
       THEN exitReq' = TRUE /\ Broadcast
       ELSE UNCHANGED <<exitReq, sup, shut>>
  /\ UNCHANGED <<upVars, procVars, tearVars, killed, latch, timer, ticking, epoch,
                 exiting, todo, late, wake>>

-----------------------------------------------------------------------------
(* The supervisor and Shutdown.                                            *)

Due == (exitReq \/ exiting) /\ sessions = {}

\* The loop of pcSupervisor on hubCond.Wait.
Supervise ==
  /\ Alive
  /\ sup = "check"
  /\ sup' = IF Due THEN "end" ELSE "sleep"
  /\ UNCHANGED <<upVars, procVars, tearVars, killed, graceVars, exitReq, shutVars>>

\* Shutdown, entry: the clients of a snapshot are closed with 1001.
ShutBegin ==
  /\ Alive
  /\ shut = "no"
  /\ exiting' = TRUE
  /\ shut' = "close"
  /\ UNCHANGED <<upVars, procVars, tearVars, killed, graceVars, exitReq, todo, late, wake, sup>>

\* All closes returned (a Close ends within 10 s); snapshot of the sessions.
ShutSnapshot ==
  /\ Alive
  /\ shut = "close"
  /\ todo' = sessions
  /\ shut' = "signal"
  /\ UNCHANGED <<upVars, procVars, tearVars, killed, graceVars, exitReq, exiting, late, wake, sup>>

ShutSignal(c) ==
  /\ Alive
  /\ shut = "signal"
  /\ c \in todo
  /\ todo' = todo \ {c}
  /\ kills' = Arm(c, "shutdown")
  /\ UNCHANGED <<upVars, procVars, teardown, killed, graceVars, exitReq, exiting, shut, late, wake, sup>>

ShutJoin ==
  /\ Alive
  /\ shut = "signal"
  /\ todo = {}
  /\ shut' = "join"
  /\ wake' = TRUE
  /\ UNCHANGED <<upVars, procVars, tearVars, killed, graceVars, exitReq, exiting, todo, late, sup>>

DeadlinePasses ==
  /\ Alive
  /\ shut \in {"join", "sleep"}
  /\ ~late
  /\ late' = TRUE
  /\ UNCHANGED <<upVars, procVars, tearVars, killed, graceVars, exitReq, exiting, shut, todo, wake, sup>>

\* Fault: the timer of the wake-up was started before the deadline was taken.
WakeDueAnyTime == TRUE

\* The timer of the wake-up was started after the deadline was taken.
WakeDue == late

\* One evaluation of the join's loop.  At the end the supervisor is woken and the
\* timer stopped, unless it fired already and waits for hubMu.
Join ==
  /\ Alive
  /\ shut = "join"
  /\ IF sessions # {} /\ ~late
       THEN shut' = "sleep" /\ UNCHANGED <<sup, wake>>
       ELSE /\ shut' = IF sessions = {} THEN "done" ELSE "force"
            /\ wake' \in {FALSE, wake}
            /\ WakeSupervisor
  /\ UNCHANGED <<upVars, procVars, tearVars, killed, graceVars, exitReq, exiting, todo, late>>

WakeFires ==
  /\ Alive
  /\ wake
  /\ WakeDue
  /\ wake' = FALSE
  /\ Broadcast
  /\ UNCHANGED <<upVars, procVars, tearVars, killed, graceVars, exitReq, exiting, todo, late>>

\* terminate, by the supervisor or by a Shutdown that waits no longer; termOnce
\* and os.Exit let only the first one through.
Terminate ==
  /\ ended = "no"
  /\ \/ sup = "end" /\ ended' = "supervisor"
     \/ shut = "force" /\ ended' = "shutdown"
  /\ UNCHANGED <<upVars, procVars, tearVars, killed, graceVars, exitReq, shutVars, sup>>

-----------------------------------------------------------------------------
Makers == {"orphan", "teardown", "shutdown"}

Init ==
  /\ phase = [c \in Clients |-> "new"]
  /\ child = [c \in Clients |-> "none"]
  /\ watcher = [c \in Clients |-> "none"]
  /\ teardown = [c \in Clients |-> "no"]
  /\ kills = {}
  /\ killed = {}
  /\ sessions = {}
  /\ last = NoClient
  /\ exitReq = FALSE
  /\ latch = FALSE
  /\ timer = NoClient
  /\ ticking = {}
  /\ fired = {}
  /\ epoch = [c \in Clients |-> {}]
  /\ exiting = FALSE
  /\ shut = "no"
  /\ todo = {}
  /\ late = FALSE
  /\ wake = FALSE
  /\ sup = "check"
  /\ ended = "no"

\* The goroutine that serves the attach c, and the one that watches its session.
Upgrade(c) == Gate(c) \/ Spawn(c) \/ Register(c) \/ Refuse(c)

Watch(c) == WaitReturns(c) \/ OrphanRecorded(c) \/ Record(c) \/ CloseWaitDone(c)
              \/ WriteExit(c) \/ CloseConn(c)

Shutdown == ShutSnapshot \/ (\E c \in Clients : ShutSignal(c)) \/ ShutJoin \/ Join

Next ==
  \/ \E c \in Clients :
       \/ Upgrade(c)
       \/ ChildExits(c)
       \/ Watch(c)
       \/ SlowHalf(c)
       \/ \E who \in Makers : KillFires(c, who)
       \/ Leave(c)
       \/ GraceExpires(c)
       \/ GraceCallback(c)
  \/ Supervise
  \/ ShutBegin
  \/ Shutdown
  \/ DeadlinePasses
  \/ WakeFires
  \/ Terminate

Spec == Init /\ [][Next]_vars

\* What happens by itself: goroutines run and timers fire; a child that was sent
\* SIGKILL ends, unless it hangs in the kernel; a client whose connection the
\* watcher closed leaves.  Clients need not come nor leave, children need not end,
\* nor need Shutdown be called.
Scheduled ==
  \/ \E c \in Clients :
       \/ phase[c] # "new" /\ Upgrade(c)
       \/ Watch(c)
       \/ SlowHalf(c)
       \/ \E who \in Makers : KillFires(c, who)
       \/ c \in killed \cap Killable /\ ChildExits(c)
       \/ watcher[c] = "closed" /\ Leave(c)
       \/ GraceExpires(c)
       \/ GraceCallback(c)
  \/ Supervise
  \/ Shutdown
  \/ DeadlinePasses
  \/ WakeFires
  \/ Terminate

\* Each of these actions advances a goroutine or spends a timer, so none can be
\* put off for ever by others: fairness of the whole is fairness of each.
Fairness == WF_vars(Scheduled)

FairSpec == Spec /\ Fairness

-----------------------------------------------------------------------------
(* Properties.                                                             *)

\* Every variable has its type.
TypeOK ==
  /\ phase \in [Clients -> {"new", "gated", "spawned", "in", "refused", "gone"}]
  /\ child \in [Clients -> {"none", "running", "exited", "reaped"}]
  /\ watcher \in [Clients -> {"none", "wait", "returned", "recorded", "await", "told",
                              "closed", "orphan", "orphan_returned", "orphan_recorded"}]
  /\ teardown \in [Clients -> {"no", "slow", "done"}]
  /\ kills \subseteq Clients \X Makers
  /\ killed \subseteq Clients
  /\ sessions \subseteq Clients
  /\ last \in Clients \cup {NoClient}
  /\ exitReq \in BOOLEAN
  /\ latch \in BOOLEAN
  /\ timer \in Clients \cup {NoClient}
  /\ ticking \subseteq Clients
  /\ fired \subseteq Clients
  /\ epoch \in [Clients -> SUBSET Clients]
  /\ exiting \in BOOLEAN
  /\ shut \in {"no", "close", "signal", "join", "sleep", "force", "done"}
  /\ todo \subseteq Clients
  /\ late \in BOOLEAN
  /\ wake \in BOOLEAN
  /\ sup \in {"check", "sleep", "end"}
  /\ ended \in {"no", "supervisor", "shutdown"}

\* However many upgrades fork at once, the sessions registered stay within
\* --max-clients (the gate before the fork and the one at registration).  Their
\* children do not: a child that lost the second look is killed, and may still
\* run when the refusal has long been sent.
CapacityHeld == Cardinality(sessions) <= MaxClients

\* No process is forgotten: a child that is not reaped belongs to an upgrade
\* under way, to a session that supervisor and Shutdown see, or to the goroutine
\* that reaps orphans.  A client that left has its session torn down.
NoForgottenChild ==
  \A c \in Clients :
    /\ child[c] \in {"running", "exited"} =>
         phase[c] = "spawned" \/ c \in sessions \/ watcher[c] = "orphan"
    /\ phase[c] = "gone" => teardown[c] # "no"

\* A session leaves pcSessions after its exit code was recorded: whoever finds
\* the set empty has the code of the last child to exit the program with.
CodeKnown ==
  \A c \in Attached \ sessions : Recorded(c) /\ last # NoClient

\* The supervisor does not sleep over an exit that is due, unless Shutdown, which
\* wakes it when it has waited, is still at work.
SupervisorAwake ==
  sup = "sleep" /\ Due => shut \in {"close", "signal", "join", "sleep"}

\* Each emptying is noticed: when the last client has left, the exit is asked for
\* or a current grace timer will ask for it.
EmptyNoticed ==
  ExitWhenEmpty /\ Attached # {} /\ Registered = {} =>
    exiting \/ exitReq \/ timer \in ticking \cup fired

\* Exit when empty is asked for by a grace period in which no client attached:
\* the late callback of a timer that was replaced does not count.
FreshGrace ==
  [][exitReq' /\ ~exitReq =>
       /\ Registered' = {}
       /\ Grace => \E t \in fired \ fired' : epoch[t] = Attached]_vars

\* A client that stays connected after its child ended is sent the EXIT frame,
\* unless the program ends first.
ExitDelivered ==
  \A c \in Clients :
    (phase[c] = "in" /\ child[c] = "exited")
      ~> (watcher[c] \in {"told", "closed"} \/ phase[c] # "in" \/ ended # "no")

\* The session of a client that left is given up in the end, and its place is
\* free again, when SIGKILL follows the stop signal and ends the child.
PlaceFreed ==
  \A c \in Killable :
    (phase[c] = "gone") ~> (c \notin sessions \/ ended # "no" \/ ~StopTimeout)

\* Shutdown returns although a child cannot be killed: its wait is bounded.
ShutdownReturns == exiting ~> (shut = "done" \/ ended # "no")

\* When Shutdown has found all sessions gone the program ends, unless an attach
\* that was under way enters a new one.
DrainedEnds == (shut = "done") ~> (ended # "no" \/ sessions # {})

\* Exit when empty: once the last client has left the program ends, unless another
\* comes first or a child cannot be killed.
EmptyEnds ==
  (ExitWhenEmpty /\ Attached # {} /\ Registered = {})
    ~> (ended # "no" \/ Registered # {} \/ ~StopTimeout \/ sessions \ Killable # {})

\* Shutdown ends the program: by the supervisor once the sessions are gone, or by
\* itself when its wait is over (the comment on terminate).
ShutdownEnds == exiting ~> ended # "no"
=============================================================================

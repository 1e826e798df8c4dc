--------------------------- MODULE PerClientProofs ---------------------------
(***************************************************************************)
(* Proofs about PerClient, for every set of clients, every --max-clients   *)
(* and every configuration.                                                *)
(***************************************************************************)
EXTENDS PerClient, FiniteSetTheorems, TLAPS

-----------------------------------------------------------------------------
(* Types.                                                                  *)

LEMMA TypeInit == Init => TypeOK
BY DEF Init, TypeOK

\* A SIGKILL timer is armed for a client, by one of the three places.
LEMMA ArmType ==
  ASSUME TypeOK, NEW c \in Clients, NEW who \in Makers
  PROVE  Arm(c, who) \subseteq Clients \X Makers
BY DEF Arm, TypeOK

LEMMA TriggerType ==
  ASSUME TypeOK, NEW c \in Clients, Trigger(c)
  PROVE  /\ teardown' \in [Clients -> {"no", "slow", "done"}]
         /\ kills' \subseteq Clients \X Makers
<1>1. Arm(c, "teardown") \subseteq Clients \X Makers
  BY ArmType DEF Makers
<1>2. CASE teardown[c] # "no"
  BY <1>2 DEF Trigger, tearVars, TypeOK
<1>3. CASE teardown[c] = "no"
  <2>1. kills' \subseteq Clients \X Makers
    BY <1>1, <1>3 DEF Trigger, TypeOK
  <2> QED BY <1>3, <2>1 DEF Trigger, TypeOK
<1> QED BY <1>2, <1>3

LEMMA MaybeExitType ==
  ASSUME TypeOK, NEW c \in Clients, MaybeExit(c)
  PROVE  /\ latch' \in BOOLEAN /\ exitReq' \in BOOLEAN
         /\ timer' \in Clients \cup {NoClient}
         /\ ticking' \subseteq Clients /\ fired' \subseteq Clients
         /\ epoch' \in [Clients -> SUBSET Clients]
<1>1. CASE ~ExitWhenEmpty \/ exiting \/ Registered # {c} \/ latch
  BY <1>1 DEF MaybeExit, graceVars, TypeOK
<1>2. CASE ~(~ExitWhenEmpty \/ exiting \/ Registered # {c} \/ latch)
  <2>1. Attached \subseteq Clients
    BY DEF Attached
  <2>2. CASE Grace
    BY <1>2, <2>1, <2>2 DEF MaybeExit, TypeOK
  <2>3. CASE ~Grace
    BY <1>2, <2>3 DEF MaybeExit, TypeOK
  <2> QED BY <2>2, <2>3
<1> QED BY <1>1, <1>2

LEMMA BroadcastType ==
  ASSUME TypeOK, Broadcast
  PROVE  /\ sup' \in {"check", "sleep", "end"}
         /\ shut' \in {"no", "close", "signal", "join", "sleep", "force", "done"}
BY DEF TypeOK, Broadcast, WakeSupervisor

LEMMA TypeStep == TypeOK /\ [Next]_vars => TypeOK'
<1> SUFFICES ASSUME TypeOK, [Next]_vars PROVE TypeOK'
  OBVIOUS
<1> USE DEF Alive, upVars, procVars, tearVars, graceVars, shutVars
<1>1. ASSUME NEW c \in Clients, Upgrade(c)
      PROVE  TypeOK'
  <2>1. CASE Gate(c)
    BY <2>1 DEF Gate, TypeOK
  <2>2. CASE Spawn(c)
    BY <2>2 DEF Spawn, TypeOK
  <2>3. CASE Register(c)
    BY <2>3 DEF Register, NewEpoch, TypeOK
  <2>4. CASE Refuse(c)
    <3>1. kills' \subseteq Clients \X Makers
      BY <2>4, ArmType DEF Refuse, Makers
    <3> QED BY <2>4, <3>1 DEF Refuse, TypeOK
  <2> QED BY <1>1, <2>1, <2>2, <2>3, <2>4 DEF Upgrade
<1>2. ASSUME NEW c \in Clients, ChildExits(c)
      PROVE  TypeOK'
  BY <1>2 DEF ChildExits, TypeOK
<1>3. ASSUME NEW c \in Clients, Watch(c)
      PROVE  TypeOK'
  <2>1. CASE WaitReturns(c)
    BY <2>1 DEF WaitReturns, TypeOK
  <2>2. CASE Record(c)
    BY <2>2 DEF Record, TypeOK
  <2>3. CASE OrphanRecorded(c) \/ CloseWaitDone(c) \/ WriteExit(c) \/ CloseConn(c)
    BY <2>3 DEF OrphanRecorded, CloseWaitDone, WriteExit, CloseConn, TypeOK
  <2> QED BY <1>3, <2>1, <2>2, <2>3 DEF Watch
<1>4. ASSUME NEW c \in Clients, SlowHalf(c)
      PROVE  TypeOK'
  <2>1. sessions' \subseteq Clients
    BY <1>4 DEF SlowHalf, TypeOK
  <2> QED BY <1>4, <2>1, BroadcastType DEF SlowHalf, TypeOK
<1>5. ASSUME NEW c \in Clients, NEW who \in Makers, KillFires(c, who)
      PROVE  TypeOK'
  <2>1. kills' \subseteq Clients \X Makers /\ killed' \subseteq Clients
    BY <1>5 DEF KillFires, TypeOK
  <2> QED BY <1>5, <2>1 DEF KillFires, TypeOK
<1>6. ASSUME NEW c \in Clients, Leave(c)
      PROVE  TypeOK'
  BY <1>6, TriggerType, MaybeExitType, BroadcastType DEF Leave, TypeOK
<1>7. ASSUME NEW c \in Clients, GraceExpires(c)
      PROVE  TypeOK'
  BY <1>7 DEF GraceExpires, TypeOK
<1>8. ASSUME NEW c \in Clients, GraceCallback(c)
      PROVE  TypeOK'
  <2>1. /\ exitReq' \in BOOLEAN
        /\ sup' \in {"check", "sleep", "end"}
        /\ shut' \in {"no", "close", "signal", "join", "sleep", "force", "done"}
    BY <1>8, BroadcastType DEF GraceCallback, TypeOK
  <2> QED BY <1>8, <2>1 DEF GraceCallback, TypeOK
<1>9. CASE Supervise \/ Terminate
  BY <1>9 DEF Supervise, Terminate, TypeOK
<1>10. CASE ShutBegin \/ DeadlinePasses
  BY <1>10 DEF ShutBegin, DeadlinePasses, TypeOK
<1>11. CASE Shutdown
  <2>1. CASE ShutSnapshot
    BY <2>1 DEF ShutSnapshot, TypeOK
  <2>2. ASSUME NEW c \in Clients, ShutSignal(c)
        PROVE  TypeOK'
    <3>1. kills' \subseteq Clients \X Makers
      BY <2>2, ArmType DEF ShutSignal, Makers
    <3> QED BY <2>2, <3>1 DEF ShutSignal, TypeOK
  <2>3. CASE ShutJoin
    BY <2>3 DEF ShutJoin, TypeOK
  <2>4. CASE Join
    BY <2>4 DEF Join, WakeSupervisor, TypeOK
  <2> QED BY <1>11, <2>1, <2>2, <2>3, <2>4 DEF Shutdown
<1>12. CASE WakeFires
  BY <1>12, BroadcastType DEF WakeFires, TypeOK
<1>13. CASE UNCHANGED vars
  BY <1>13 DEF vars, TypeOK
<1> QED
  BY <1>1, <1>2, <1>3, <1>4, <1>5, <1>6, <1>7, <1>8, <1>9, <1>10, <1>11, <1>12, <1>13
     DEF Next

\* Every variable keeps its type.
THEOREM PerClientTyped == Spec => []TypeOK
BY TypeInit, TypeStep, PTL DEF Spec

-----------------------------------------------------------------------------
(* Capacity.                                                               *)

\* Only a registration and the slow half change pcSessions.
LEMMA SessionsStep ==
  ASSUME [Next]_vars
  PROVE  \/ sessions' = sessions
         \/ \E c \in Clients : Register(c)
         \/ \E c \in Clients : SlowHalf(c)
<1> USE DEF upVars
<1>1. ASSUME NEW c \in Clients,
             \/ Gate(c) \/ Spawn(c) \/ Refuse(c) \/ ChildExits(c) \/ Watch(c) \/ Leave(c)
             \/ GraceExpires(c) \/ GraceCallback(c) \/ ShutSignal(c)
             \/ \E who \in Makers : KillFires(c, who)
      PROVE  sessions' = sessions
  BY <1>1 DEF Gate, Spawn, Refuse, ChildExits, Watch, WaitReturns, OrphanRecorded, Record,
              CloseWaitDone, WriteExit, CloseConn, Leave, GraceExpires, GraceCallback,
              ShutSignal, KillFires
<1>2. CASE Supervise \/ ShutBegin \/ ShutSnapshot \/ ShutJoin \/ Join \/ DeadlinePasses
           \/ WakeFires \/ Terminate
  BY <1>2 DEF Supervise, ShutBegin, ShutSnapshot, ShutJoin, Join, DeadlinePasses,
              WakeFires, Terminate
<1>3. CASE UNCHANGED vars
  BY <1>3 DEF vars
<1> QED BY <1>1, <1>2, <1>3 DEF Next, Upgrade, Shutdown

\* The set is finite, though Clients need not be.
CapacityInv == IsFiniteSet(sessions) /\ CapacityHeld

LEMMA CapacityStep == CapacityInv /\ [Next]_vars => CapacityInv'
<1> SUFFICES ASSUME CapacityInv, [Next]_vars PROVE CapacityInv'
  OBVIOUS
<1>1. Cardinality(sessions) \in Nat
  BY FS_CardinalityType DEF CapacityInv
<1>2. CASE sessions' = sessions
  BY <1>2 DEF CapacityInv, CapacityHeld
<1>3. ASSUME NEW c \in Clients, Register(c)
      PROVE  CapacityInv'
  <2>1. sessions' = sessions \cup {c} /\ Cardinality(sessions) < MaxClients
    BY <1>1, <1>3, PerClientAssumption DEF Register, Recheck, Full
  <2>2. IsFiniteSet(sessions') /\ Cardinality(sessions') <= Cardinality(sessions) + 1
    BY <1>1, <2>1, FS_AddElement DEF CapacityInv
  <2>3. Cardinality(sessions') \in Nat
    BY <2>2, FS_CardinalityType
  <2> QED BY <1>1, <2>1, <2>2, <2>3, PerClientAssumption DEF CapacityInv, CapacityHeld
<1>4. ASSUME NEW c \in Clients, SlowHalf(c)
      PROVE  CapacityInv'
  <2>1. sessions' = sessions \ {c}
    BY <1>4 DEF SlowHalf
  <2>2. IsFiniteSet(sessions') /\ Cardinality(sessions') <= Cardinality(sessions)
    BY <2>1, FS_Subset DEF CapacityInv
  <2>3. Cardinality(sessions') \in Nat
    BY <2>2, FS_CardinalityType
  <2> QED BY <1>1, <2>2, <2>3, PerClientAssumption DEF CapacityInv, CapacityHeld
<1> QED BY <1>2, <1>3, <1>4, SessionsStep

\* The sessions registered never exceed --max-clients, however many upgrades fork
\* at the same time.
THEOREM SessionsBounded == Spec => []CapacityHeld
<1>1. Init => CapacityInv
  BY FS_EmptySet, PerClientAssumption DEF Init, CapacityInv, CapacityHeld
<1>2. CapacityInv => CapacityHeld
  BY DEF CapacityInv
<1> QED BY <1>1, <1>2, CapacityStep, PTL DEF Spec

-----------------------------------------------------------------------------
(* Children and their sessions.                                            *)

Before == {"new", "gated", "spawned"}

AfterWait == {"returned", "recorded", "await", "told", "closed",
              "orphan_returned", "orphan_recorded"}

\* The strengthening of NoForgottenChild and CodeKnown: nobody waits before the
\* upgrade is decided, who waited has reaped, and the code recorded is a child's.
ChildInv ==
  /\ \A c \in Clients :
       /\ phase[c] \in Before => watcher[c] = "none"
       /\ watcher[c] \in AfterWait => child[c] = "reaped"
       /\ Recorded(c) => last \in Clients
  /\ NoForgottenChild
  /\ CodeKnown

\* What a step of one session leaves alone.
ChildVars == <<phase, child, watcher, teardown, sessions, last>>

LEMMA ChildStutter == ChildInv /\ UNCHANGED ChildVars => ChildInv'
BY DEF ChildInv, ChildVars, NoForgottenChild, CodeKnown, Recorded, Attached

LEMMA ChildStep == TypeOK /\ ChildInv /\ [Next]_vars => ChildInv'
<1> SUFFICES ASSUME TypeOK, ChildInv, [Next]_vars PROVE ChildInv'
  OBVIOUS
<1> USE DEF upVars, procVars, tearVars
<1> DEFINE Tied == /\ phase \in [Clients -> {"new", "gated", "spawned", "in", "refused", "gone"}]
                   /\ child \in [Clients -> {"none", "running", "exited", "reaped"}]
                   /\ DOMAIN watcher = Clients
                   /\ DOMAIN teardown = Clients
<1>0. Tied
  BY DEF TypeOK
<1>1. ASSUME NEW c \in Clients, Upgrade(c)
      PROVE  ChildInv'
  <2>1. CASE Gate(c)
    BY <1>0, <2>1 DEF Gate, ChildInv, NoForgottenChild, CodeKnown, Recorded, Attached, Before, AfterWait
  <2>2. CASE Spawn(c)
    BY <1>0, <2>2 DEF Spawn, ChildInv, NoForgottenChild, CodeKnown, Recorded, Attached, Before, AfterWait
  <2>3. CASE Register(c)
    BY <1>0, <2>3 DEF Register, ChildInv, NoForgottenChild, CodeKnown, Recorded, Attached, Before, AfterWait
  <2>4. CASE Refuse(c)
    BY <1>0, <2>4 DEF Refuse, ChildInv, NoForgottenChild, CodeKnown, Recorded, Attached, Before, AfterWait
  <2> QED BY <1>1, <2>1, <2>2, <2>3, <2>4 DEF Upgrade
<1>2. ASSUME NEW c \in Clients, ChildExits(c)
      PROVE  ChildInv'
  BY <1>0, <1>2 DEF ChildExits, ChildInv, NoForgottenChild, CodeKnown, Recorded, Attached, Before, AfterWait
<1>3. ASSUME NEW c \in Clients, Watch(c)
      PROVE  ChildInv'
  <2>1. CASE WaitReturns(c)
    BY <1>0, <2>1 DEF WaitReturns, ChildInv, NoForgottenChild, CodeKnown, Recorded, Attached, Before, AfterWait
  <2>2. CASE OrphanRecorded(c)
    BY <1>0, <2>2 DEF OrphanRecorded, ChildInv, NoForgottenChild, CodeKnown, Recorded, Attached, Before, AfterWait
  <2>3. CASE Record(c)
    <3>1. last' \in Clients /\ last' # NoClient
      BY <2>3, PerClientAssumption DEF Record
    <3> QED BY <1>0, <2>3, <3>1
          DEF Record, ChildInv, NoForgottenChild, CodeKnown, Recorded, Attached, Before, AfterWait
  <2>4. CASE CloseWaitDone(c) \/ WriteExit(c) \/ CloseConn(c)
    BY <1>0, <2>4 DEF CloseWaitDone, WriteExit, CloseConn,
       ChildInv, NoForgottenChild, CodeKnown, Recorded, Attached, Before, AfterWait
  <2> QED BY <1>3, <2>1, <2>2, <2>3, <2>4 DEF Watch
<1>4. ASSUME NEW c \in Clients, SlowHalf(c)
      PROVE  ChildInv'
  <2>1. Recorded(c) /\ child[c] = "reaped" /\ last # NoClient
    BY <1>4, PerClientAssumption DEF SlowHalf, WaitDone, Recorded, ChildInv, AfterWait
  <2> QED BY <1>0, <1>4, <2>1
        DEF SlowHalf, ChildInv, NoForgottenChild, CodeKnown, Recorded, Attached, Before, AfterWait
<1>5. ASSUME NEW c \in Clients, Leave(c)
      PROVE  ChildInv'
  <2>1. teardown'[c] # "no" /\ \A k \in Clients : teardown[k] # "no" => teardown'[k] # "no"
    BY <1>0, <1>5 DEF Leave, Trigger
  <2> QED BY <1>0, <1>5, <2>1
        DEF Leave, ChildInv, NoForgottenChild, CodeKnown, Recorded, Attached, Before, AfterWait
<1>6. ASSUME NEW c \in Clients,
             \/ GraceExpires(c) \/ GraceCallback(c) \/ ShutSignal(c)
             \/ \E who \in Makers : KillFires(c, who)
      PROVE  ChildInv'
  BY <1>6, ChildStutter DEF GraceExpires, GraceCallback, ShutSignal, KillFires, ChildVars
<1>7. CASE Supervise \/ ShutBegin \/ ShutSnapshot \/ ShutJoin \/ Join \/ DeadlinePasses
           \/ WakeFires \/ Terminate
  BY <1>7, ChildStutter DEF Supervise, ShutBegin, ShutSnapshot, ShutJoin, Join, DeadlinePasses,
                            WakeFires, Terminate, ChildVars
<1>8. CASE UNCHANGED vars
  BY <1>8, ChildStutter DEF vars, ChildVars
<1> QED BY <1>1, <1>2, <1>3, <1>4, <1>5, <1>6, <1>7, <1>8 DEF Next, Shutdown

LEMMA ChildInit == Init => ChildInv
BY DEF Init, ChildInv, NoForgottenChild, CodeKnown, Recorded, Attached, Before, AfterWait

\* A child that is not reaped always has someone who answers for it, and a client
\* that left has its session torn down.
THEOREM EveryChildIsOwned == Spec => []NoForgottenChild
<1>1. ChildInv => NoForgottenChild
  BY DEF ChildInv
<1> QED BY <1>1, TypeInit, TypeStep, ChildInit, ChildStep, PTL DEF Spec

\* A session is forgotten only after its exit code was recorded.
THEOREM ExitCodeIsRecorded == Spec => []CodeKnown
<1>1. ChildInv => CodeKnown
  BY DEF ChildInv
<1> QED BY <1>1, TypeInit, TypeStep, ChildInit, ChildStep, PTL DEF Spec

-----------------------------------------------------------------------------
(* Supervisor and exit when empty.                                         *)

\* A broadcast leaves no sleeper.
LEMMA BroadcastWakes ==
  ASSUME Broadcast
  PROVE  sup' # "sleep" /\ shut' # "sleep"
BY DEF Broadcast, WakeSupervisor

LEMMA AwakeStep == SupervisorAwake /\ [Next]_vars => SupervisorAwake'
<1> SUFFICES ASSUME SupervisorAwake, [Next]_vars PROVE SupervisorAwake'
  OBVIOUS
<1> USE DEF upVars, procVars, tearVars, graceVars, shutVars
<1>1. ASSUME NEW c \in Clients,
             \/ Gate(c) \/ Spawn(c) \/ Refuse(c) \/ ChildExits(c) \/ Watch(c)
             \/ GraceExpires(c) \/ \E who \in Makers : KillFires(c, who)
      PROVE  SupervisorAwake'
  <2>1. UNCHANGED <<sessions, exitReq, exiting, shut, sup>>
    BY <1>1 DEF Gate, Spawn, Refuse, ChildExits, Watch, WaitReturns, OrphanRecorded, Record,
                CloseWaitDone, WriteExit, CloseConn, GraceExpires, KillFires
  <2> QED BY <2>1 DEF SupervisorAwake, Due
<1>2. ASSUME NEW c \in Clients, Register(c)
      PROVE  SupervisorAwake'
  BY <1>2 DEF Register, SupervisorAwake, Due
<1>3. ASSUME NEW c \in Clients, SlowHalf(c) \/ Leave(c)
      PROVE  SupervisorAwake'
  BY <1>3, BroadcastWakes DEF SlowHalf, Leave, SupervisorAwake
<1>4. ASSUME NEW c \in Clients, GraceCallback(c)
      PROVE  SupervisorAwake'
  <2>1. \/ sup' # "sleep"
        \/ UNCHANGED <<sessions, exitReq, exiting, shut, sup>>
    BY <1>4, BroadcastWakes DEF GraceCallback
  <2> QED BY <2>1 DEF SupervisorAwake, Due
<1>5. CASE Supervise
  BY <1>5 DEF Supervise, SupervisorAwake, Due
<1>6. CASE ShutBegin
  BY <1>6 DEF ShutBegin, SupervisorAwake
<1>7. CASE Shutdown
  <2>1. CASE ShutSnapshot \/ ShutJoin
    BY <2>1 DEF ShutSnapshot, ShutJoin, SupervisorAwake
  <2>2. ASSUME NEW c \in Clients, ShutSignal(c)
        PROVE  SupervisorAwake'
    BY <2>2 DEF ShutSignal, SupervisorAwake
  <2>3. CASE Join
    BY <2>3 DEF Join, WakeSupervisor, SupervisorAwake
  <2> QED BY <1>7, <2>1, <2>2, <2>3 DEF Shutdown
<1>8. CASE DeadlinePasses \/ Terminate
  BY <1>8 DEF DeadlinePasses, Terminate, SupervisorAwake, Due
<1>9. CASE WakeFires
  BY <1>9, BroadcastWakes DEF WakeFires, SupervisorAwake
<1>10. CASE UNCHANGED vars
  BY <1>10 DEF vars, SupervisorAwake, Due
<1> QED
  BY <1>1, <1>2, <1>3, <1>4, <1>5, <1>6, <1>7, <1>8, <1>9, <1>10 DEF Next, Upgrade

\* The supervisor never sleeps over an exit that is due while nobody is left to
\* wake it.
THEOREM SupervisorNeverMissesTheEnd == Spec => []SupervisorAwake
<1>1. Init => SupervisorAwake
  BY DEF Init, SupervisorAwake
<1> QED BY <1>1, AwakeStep, PTL DEF Spec

\* The strengthening of EmptyNoticed and the reason of FreshGrace: while a client
\* is registered the latch is open, and a timer that counts was armed after the
\* last attach.
GraceInv ==
  /\ Registered # {} => ~latch
  /\ timer \in Clients => epoch[timer] = Attached
  /\ EmptyNoticed

GraceSeen == <<phase, graceVars, exitReq, exiting>>

LEMMA GraceStutter == GraceInv /\ UNCHANGED GraceSeen => GraceInv'
BY DEF GraceInv, GraceSeen, graceVars, EmptyNoticed, Registered, Attached

\* Who has attached stays attached, and only an attach adds to them.
LEMMA LeaveSets ==
  ASSUME TypeOK, NEW c \in Clients, Leave(c)
  PROVE  /\ c \in Registered
         /\ Registered' = Registered \ {c}
         /\ Attached' = Attached
BY DEF TypeOK, Leave, Registered, Attached

LEMMA GraceStep == TypeOK /\ GraceInv /\ [Next]_vars => GraceInv'
<1> SUFFICES ASSUME TypeOK, GraceInv, [Next]_vars PROVE GraceInv'
  OBVIOUS
<1> USE DEF upVars, procVars, tearVars, shutVars
<1>1. ASSUME NEW c \in Clients, Gate(c) \/ Spawn(c) \/ Refuse(c)
      PROVE  GraceInv'
  <2>1. Registered' = Registered /\ Attached' = Attached
    BY <1>1 DEF TypeOK, Gate, Spawn, Refuse, Registered, Attached
  <2>2. UNCHANGED <<graceVars, exitReq, exiting>>
    BY <1>1 DEF Gate, Spawn, Refuse
  <2> QED BY <2>1, <2>2 DEF graceVars, GraceInv, EmptyNoticed
<1>2. ASSUME NEW c \in Clients, Register(c)
      PROVE  GraceInv'
  <2>1. c \in Registered'
    BY <1>2 DEF TypeOK, Register, Registered
  <2>2. ~latch' /\ timer' \notin Clients
    BY <1>2, PerClientAssumption DEF Register, NewEpoch
  <2> QED BY <2>1, <2>2 DEF GraceInv, EmptyNoticed
<1>3. ASSUME NEW c \in Clients, Leave(c)
      PROVE  GraceInv'
  <2>1. c \in Registered /\ Registered' = Registered \ {c} /\ Attached' = Attached
    BY <1>3, LeaveSets
  <2>2. MaybeExit(c) /\ exiting' = exiting /\ ~latch
    BY <1>3, <2>1 DEF Leave, GraceInv
  <2>3. CASE ~ExitWhenEmpty \/ exiting \/ Registered # {c}
    <3>1. UNCHANGED <<graceVars, exitReq>>
      BY <2>2, <2>3 DEF MaybeExit
    <3>2. Registered # {c} => Registered' # {}
      BY <2>1
    <3> QED BY <2>1, <2>2, <2>3, <3>1, <3>2 DEF GraceInv, EmptyNoticed, graceVars
  <2>4. CASE ExitWhenEmpty /\ ~exiting /\ Registered = {c}
    <3>1. Registered' = {}
      BY <2>1, <2>4
    <3>2. CASE Grace
      <4>1. timer' = c /\ c \in ticking' /\ epoch' = [epoch EXCEPT ![c] = Attached]
        BY <2>2, <2>4, <3>2 DEF MaybeExit
      <4>2. epoch'[timer'] = Attached'
        BY <2>1, <4>1 DEF TypeOK
      <4> QED BY <3>1, <4>1, <4>2 DEF GraceInv, EmptyNoticed
    <3>3. CASE ~Grace
      <4>1. exitReq' = TRUE /\ UNCHANGED <<timer, epoch>>
        BY <2>2, <2>4, <3>3 DEF MaybeExit
      <4> QED BY <2>1, <3>1, <4>1 DEF GraceInv, EmptyNoticed
    <3> QED BY <3>2, <3>3
  <2> QED BY <2>3, <2>4
<1>4. ASSUME NEW c \in Clients, GraceExpires(c)
      PROVE  GraceInv'
  BY <1>4 DEF GraceExpires, GraceInv, EmptyNoticed, Registered, Attached
<1>5. ASSUME NEW c \in Clients, GraceCallback(c)
      PROVE  GraceInv'
  <2>1. UNCHANGED <<Registered, Attached, latch, timer, ticking, epoch, exiting>>
    BY <1>5 DEF GraceCallback, Registered, Attached
  <2>2. \/ exitReq' = TRUE
        \/ exiting \/ Registered # {}
        \/ timer # c /\ exitReq' = exitReq
    BY <1>5 DEF GraceCallback, Current
  <2>3. timer # c /\ timer \in fired => timer \in fired'
    BY <1>5 DEF GraceCallback
  <2> QED BY <2>1, <2>2, <2>3 DEF GraceInv, EmptyNoticed
<1>6. CASE ShutBegin
  BY <1>6 DEF ShutBegin, graceVars, GraceInv, EmptyNoticed, Registered, Attached
<1>7. ASSUME NEW c \in Clients,
             \/ ChildExits(c) \/ Watch(c) \/ SlowHalf(c) \/ ShutSignal(c)
             \/ \E who \in Makers : KillFires(c, who)
      PROVE  GraceInv'
  <2>1. UNCHANGED GraceSeen
    BY <1>7 DEF GraceSeen, graceVars, ChildExits, Watch, WaitReturns, OrphanRecorded, Record,
                CloseWaitDone, WriteExit, CloseConn, SlowHalf, ShutSignal, KillFires
  <2> QED BY <2>1, GraceStutter
<1>8. CASE Supervise \/ ShutSnapshot \/ ShutJoin \/ Join \/ DeadlinePasses \/ WakeFires
           \/ Terminate
  <2>1. UNCHANGED GraceSeen
    BY <1>8 DEF GraceSeen, graceVars, Supervise, ShutSnapshot, ShutJoin, Join, DeadlinePasses,
                WakeFires, Terminate
  <2> QED BY <2>1, GraceStutter
<1>9. CASE UNCHANGED vars
  BY <1>9, GraceStutter DEF vars, GraceSeen
<1> QED
  BY <1>1, <1>2, <1>3, <1>4, <1>5, <1>6, <1>7, <1>8, <1>9 DEF Next, Upgrade, Shutdown

LEMMA GraceInit == Init => GraceInv
BY PerClientAssumption DEF Init, GraceInv, EmptyNoticed, Registered, Attached

\* No emptying goes unnoticed: the exit is asked for, or a timer that counts runs.
THEOREM EmptyingIsNoticed == Spec => []EmptyNoticed
<1>1. GraceInv => EmptyNoticed
  BY DEF GraceInv
<1> QED BY <1>1, TypeInit, TypeStep, GraceInit, GraceStep, PTL DEF Spec

FreshStep ==
  exitReq' /\ ~exitReq =>
    /\ Registered' = {}
    /\ Grace => \E t \in fired \ fired' : epoch[t] = Attached

LEMMA GraceIsFresh == TypeOK /\ GraceInv /\ [Next]_vars => FreshStep
<1> SUFFICES ASSUME TypeOK, GraceInv, [Next]_vars, exitReq', ~exitReq PROVE FreshStep
  BY DEF FreshStep
<1> USE DEF upVars, procVars, tearVars, shutVars
<1>1. \/ \E c \in Clients : Leave(c)
      \/ \E c \in Clients : GraceCallback(c)
  <2>1. ASSUME NEW c \in Clients,
               \/ Upgrade(c) \/ ChildExits(c) \/ Watch(c) \/ SlowHalf(c) \/ GraceExpires(c)
               \/ ShutSignal(c) \/ \E who \in Makers : KillFires(c, who)
        PROVE  exitReq' = exitReq
    BY <2>1 DEF Upgrade, Gate, Spawn, Register, Refuse, ChildExits, Watch, WaitReturns,
                OrphanRecorded, Record, CloseWaitDone, WriteExit, CloseConn, SlowHalf,
                GraceExpires, ShutSignal, KillFires
  <2>2. CASE Supervise \/ ShutBegin \/ ShutSnapshot \/ ShutJoin \/ Join \/ DeadlinePasses
             \/ WakeFires \/ Terminate
    BY <2>2 DEF Supervise, ShutBegin, ShutSnapshot, ShutJoin, Join, DeadlinePasses,
                WakeFires, Terminate
  <2> QED BY <2>1, <2>2 DEF Next, Shutdown, vars
<1>2. ASSUME NEW c \in Clients, Leave(c)
      PROVE  FreshStep
  <2>1. Registered = {c} /\ ~Grace
    BY <1>2 DEF Leave, MaybeExit
  <2> QED BY <1>2, <2>1, LeaveSets DEF FreshStep
<1>3. ASSUME NEW c \in Clients, GraceCallback(c)
      PROVE  FreshStep
  <2>1. timer = c /\ Registered = {} /\ c \in fired \ fired' /\ UNCHANGED phase
    BY <1>3 DEF GraceCallback, Current
  <2>2. Registered' = {} /\ epoch[c] = Attached
    BY <2>1 DEF GraceInv, Registered
  <2> QED BY <2>1, <2>2 DEF FreshStep
<1> QED BY <1>1, <1>2, <1>3

\* The exit is only asked for by a grace period in which nobody attached.
THEOREM GraceAlwaysFresh == Spec => FreshGrace
<1>1. TypeOK /\ GraceInv /\ [Next]_vars => [FreshStep]_vars
  BY GraceIsFresh
<1> QED BY <1>1, TypeInit, TypeStep, GraceInit, GraceStep, PTL DEF Spec, FreshGrace, FreshStep
=============================================================================

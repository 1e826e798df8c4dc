------------------------- MODULE HubRegistryProofs -------------------------
(***************************************************************************)
(* Proofs about the registry of Hub: write permission - the owner, its     *)
(* succession and the kicks of writers, through the nested critical        *)
(* sections - and the arbiter of the session dimensions - who weighs on    *)
(* them, and that the PTY has the common rectangle.                        *)
(***************************************************************************)
EXTENDS HubProofs

-----------------------------------------------------------------------------
(* The stack of a critical section holds pushes on top of one operation at *)
(* the bottom.                                                             *)

OnlyPushesAbove(s) == \A i \in 1..Len(s) : i < Len(s) => s[i].op = "push"

NoDuty == [op |-> "none"]

\* What the critical section still owes to permission: a promotion or the
\* registration of a newcomer.
Duty(s) ==
  IF s # <<>> /\ s[Len(s)].op \in {"promote", "register"} THEN s[Len(s)] ELSE NoDuty

LEMMA EmptyDuty == OnlyPushesAbove(<<>>) /\ Duty(<<>>) = NoDuty
BY DEF OnlyPushesAbove, Duty

LEMMA SingleDuty ==
  ASSUME NEW job \in Call
  PROVE  /\ OnlyPushesAbove(<<job>>)
         /\ job.op \in {"promote", "register"} => Duty(<<job>>) = job
         /\ job.op \notin {"promote", "register"} => Duty(<<job>>) = NoDuty
BY DEF OnlyPushesAbove, Duty

LEMMA PushDuty ==
  ASSUME NEW job \in Call, job.op = "push", NEW s \in Seq(Call), OnlyPushesAbove(s)
  PROVE  OnlyPushesAbove(Loop(job, s)) /\ Duty(Loop(job, s)) = Duty(s)
<1>1. CASE job.todo = {}
  BY <1>1 DEF Loop
<1>2. CASE job.todo # {}
  <2> DEFINE t == <<job>> \o s
  <2>1. /\ Len(t) = Len(s) + 1 /\ Len(s) \in Nat
        /\ t[1] = job /\ \A i \in 1..Len(s) : t[i + 1] = s[i]
        /\ t # <<>>
    OBVIOUS
  <2>2. OnlyPushesAbove(t)
    <3> SUFFICES ASSUME NEW i \in 1..Len(t), i < Len(t) PROVE t[i].op = "push"
      BY DEF OnlyPushesAbove
    <3> HIDE DEF t
    <3>1. CASE i = 1
      BY <3>1, <2>1
    <3>2. CASE i # 1
      <4>1. i - 1 \in 1..Len(s) /\ i - 1 < Len(s)
        BY <3>2, <2>1
      <4>2. s[i - 1].op = "push"
        BY <4>1 DEF OnlyPushesAbove
      <4>3. t[(i - 1) + 1] = s[i - 1]
        BY <4>1, <2>1
      <4>4. (i - 1) + 1 = i
        OBVIOUS
      <4> QED BY <4>2, <4>3, <4>4
    <3> QED BY <3>1, <3>2
  <2>3. Duty(t) = Duty(s)
    <3>1. CASE s = <<>>
      BY <3>1, SingleDuty, EmptyDuty
    <3>2. CASE s # <<>>
      <4>1. t[Len(t)] = s[Len(s)]
        BY <3>2, <2>1
      <4> HIDE DEF t
      <4> QED BY <4>1, <3>2, <2>1 DEF Duty
    <3> QED BY <3>1, <3>2
  <2> QED BY <1>2, <2>2, <2>3 DEF Loop
<1> QED BY <1>1, <1>2

\* When a loop is left, what was owed still is.
LEMMA TailDuty ==
  ASSUME NEW s \in Seq(Call), s # <<>>, OnlyPushesAbove(s), Head(s).op \in {"push", "fan"}
  PROVE  OnlyPushesAbove(Tail(s)) /\ Duty(Tail(s)) = Duty(s)
<1> DEFINE t == Tail(s)
<1>1. Len(t) = Len(s) - 1 /\ Len(s) \in Nat \ {0} /\ \A i \in 1..Len(t) : t[i] = s[i + 1]
  OBVIOUS
<1>2. OnlyPushesAbove(t)
  <2> SUFFICES ASSUME NEW i \in 1..Len(t), i < Len(t) PROVE t[i].op = "push"
    BY DEF OnlyPushesAbove
  <2> HIDE DEF t
  <2>1. i + 1 \in 1..Len(s) /\ i + 1 < Len(s)
    BY <1>1
  <2>2. s[i + 1].op = "push"
    BY <2>1 DEF OnlyPushesAbove
  <2> QED BY <2>2, <1>1
<1>3. Duty(t) = Duty(s)
  <2>1. CASE Len(s) = 1
    <3>0. t \in Seq(Call) /\ Len(t) = 0
      BY <1>1, <2>1
    <3>1. t = <<>>
      <4> HIDE DEF t
      <4> QED BY <3>0, EmptySeq
    <3>2. s[Len(s)] = Head(s)
      BY <2>1
    <3> HIDE DEF t
    <3> QED BY <3>1, <3>2 DEF Duty
  <2>2. CASE Len(s) # 1
    <3>1. t # <<>> /\ Len(t) \in 1..Len(t)
      <4>1. Len(t) \in Nat \ {0}
        BY <1>1, <2>2
      <4> HIDE DEF t
      <4> QED BY <4>1, EmptySeq
    <3> HIDE DEF t
    <3>2. t[Len(t)] = s[Len(s)]
      BY <3>1, <1>1
    <3> QED BY <3>1, <3>2 DEF Duty
  <2> QED BY <2>1, <2>2
<1> QED BY <1>2, <1>3

\* A promotion, a registration or a fan-out is alone when it runs.
LEMMA AloneAtBottom ==
  ASSUME NEW s \in Seq(Call), s # <<>>, OnlyPushesAbove(s), Head(s).op # "push"
  PROVE  s = <<Head(s)>> /\ Tail(s) = <<>>
<1>1. Len(s) \in Nat \ {0} /\ s[1] = Head(s)
  OBVIOUS
<1>2. Len(s) = 1
  <2> SUFFICES ASSUME Len(s) # 1 PROVE FALSE
    OBVIOUS
  <2>1. 1 \in 1..Len(s) /\ 1 < Len(s)
    BY <1>1
  <2> QED BY <1>1, <2>1 DEF OnlyPushesAbove
<1>3. Tail(s) = <<>>
  <2>1. Tail(s) \in Seq(Call) /\ Len(Tail(s)) = 0
    BY <1>2, HeadTailProperties
  <2> QED BY <2>1, EmptySeq
<1>4. s = <<Head(s)>>
  <2>1. <<Head(s)>> \in Seq(Call) /\ Len(<<Head(s)>>) = 1 /\ <<Head(s)>>[1] = Head(s)
    BY HeadTailProperties
  <2> DEFINE h == <<Head(s)>>
  <2>2. \A i \in 1..Len(s) : s[i] = h[i]
    BY <1>1, <1>2, <2>1
  <2>3. Len(s) = Len(h) /\ h \in Seq(Call)
    BY <1>2, <2>1
  <2> HIDE DEF h
  <2>4. s = h
    BY <2>2, <2>3, SeqEqual
  <2> QED BY <2>4 DEF h
<1> QED BY <1>3, <1>4

LEMMA RecalcDuty ==
  ASSUME TypeInv, NEW sz \in Sizes, NEW reg \in SUBSET Clients, NEW rest \in Seq(Call),
         OnlyPushesAbove(rest), Recalc(sz, reg, rest)
  PROVE  OnlyPushesAbove(calls') /\ Duty(calls') = Duty(rest)
<1>1. CASE Arbitrate(sz) \in {ZeroDims, last}
  BY <1>1 DEF Recalc
<1>2. CASE Arbitrate(sz) \notin {ZeroDims, last}
  <2>1. Push(Arbitrate(sz), reg) \in Call
    BY <1>2, ArbitrateType, JobTypes
  <2>2. Push(Arbitrate(sz), reg).op = "push"
    BY DEF Push
  <2>3. calls' = Loop(Push(Arbitrate(sz), reg), rest)
    BY <1>2 DEF Recalc
  <2> QED BY <2>1, <2>2, <2>3, PushDuty
<1> QED BY <1>1, <1>2

-----------------------------------------------------------------------------
(* The invariant.                                                          *)

Policy == Writable /\ ~AllWrite

\* With policy owner nobody but the owner writes, and the owner is there unless
\* its succession is under way; without one nobody waits for the right.  A
\* newcomer about to register has got the right exactly if nobody else has.
OwnerInv ==
  /\ \A c \in Writers : c = owner
  /\ owner = NoClient => \A c \in Registered : ~rwEligible[c]
  /\ Duty(calls) = Promote => owner # NoClient /\ owner \notin Registered
  /\ Duty(calls) # Promote /\ owner # NoClient => owner \in Writers
  /\ \A c \in Clients :
       Duty(calls) = Register(c) =>
         phase[c] = "new" /\ (mode[c] = "rw" <=> rwEligible[c] /\ owner = NoClient)

NoOwnerInv == owner = NoClient /\ \A c \in Clients : ~rwEligible[c]

PermissionInv ==
  /\ OnlyPushesAbove(calls)
  /\ Policy => OwnerInv
  /\ ~Policy => NoOwnerInv

LEMMA PermissionInit == Init => PermissionInv
BY EmptyDuty, HubAssumption
   DEF Init, PermissionInv, OwnerInv, NoOwnerInv, Writers, Registered, Promote, NoDuty, Register

\* Steps that leave registry, modes and duties alone.
LEMMA PermissionKept ==
  ASSUME PermissionInv, UNCHANGED <<phase, mode, rwEligible, owner>>,
         OnlyPushesAbove(calls'), Duty(calls') = Duty(calls)
  PROVE  PermissionInv'
BY DEF PermissionInv, OwnerInv, NoOwnerInv, Writers, Registered

\* A client other than the owner is removed.
LEMMA RemoveOther ==
  ASSUME TypeInv, PermissionInv, NEW c \in Registered, c # owner,
         NEW fate \in {"detached", "kicked"}, NEW rest \in Seq(Call),
         OnlyPushesAbove(rest), Duty(rest) = Duty(calls), Remove(c, fate, rest)
  PROVE  PermissionInv'
<1>1. c \in Clients
  BY DEF Registered
<1>2. Recalc(Without(sizes, c), Registered \ {c}, rest)
  BY DEF Remove
<1>3. Without(sizes, c) \in Sizes /\ Registered \ {c} \in SUBSET Clients
  BY <1>1, WithoutType, TypeParts DEF HubTypes, Registered
<1>4. OnlyPushesAbove(calls') /\ Duty(calls') = Duty(calls)
  BY <1>2, <1>3, RecalcDuty
<1>5. /\ UNCHANGED <<mode, rwEligible, owner>>
      /\ phase' = [phase EXCEPT ![c] = fate]
  BY DEF Remove
<1>6. Registered' = Registered \ {c} /\ Writers' = Writers \ {c}
  BY <1>5 DEF TypeInv, TypeOK, Registered, Writers
<1>7. \A k \in Clients : phase[k] = "new" => phase'[k] = "new"
  BY <1>5 DEF TypeInv, TypeOK, Registered
<1> QED BY <1>4, <1>5, <1>6, <1>7 DEF PermissionInv, OwnerInv, NoOwnerInv

\* The owner leaves: only a detach does that, and its succession is owed.
LEMMA RemoveOwner ==
  ASSUME TypeInv, PermissionInv, NEW c \in Registered, c = owner, Remove(c, "detached", <<>>)
  PROVE  PermissionInv'
<1>1. c \in Clients /\ Policy
  BY HubAssumption DEF Registered, PermissionInv, NoOwnerInv
<1>2. Recalc(Without(sizes, c), Registered \ {c}, <<Promote>>)
  BY DEF Remove
<1>3. Without(sizes, c) \in Sizes /\ Registered \ {c} \in SUBSET Clients
  BY <1>1, WithoutType, TypeParts DEF HubTypes, Registered
<1>4. /\ Promote \in Call /\ Promote.op = "promote"
      /\ <<Promote>> \in Seq(Call)
  BY JobTypes DEF Promote
<1>5. OnlyPushesAbove(<<Promote>>) /\ Duty(<<Promote>>) = Promote
  BY <1>4, SingleDuty
<1>6. OnlyPushesAbove(calls') /\ Duty(calls') = Promote
  BY <1>2, <1>3, <1>4, <1>5, RecalcDuty
<1>7. /\ UNCHANGED <<mode, rwEligible, owner>>
      /\ phase' = [phase EXCEPT ![c] = "detached"]
  BY DEF Remove
<1>8. Registered' = Registered \ {c} /\ Writers' = Writers \ {c}
  BY <1>7 DEF TypeInv, TypeOK, Registered, Writers
<1>9. \A k \in Clients : Promote # Register(k)
  BY DEF Promote, Register
<1> QED BY <1>1, <1>6, <1>7, <1>8, <1>9, HubAssumption DEF PermissionInv, OwnerInv

\* A kick for a full outbox takes neither the owner nor the last writer.
LEMMA ExpendableIsNotOwner ==
  ASSUME PermissionInv, NEW c \in Registered, Expendable(c)
  PROVE  c # owner
<1> SUFFICES ASSUME c = owner PROVE FALSE
  OBVIOUS
<1>1. c \in Clients /\ c # NoClient
  BY HubAssumption DEF Registered
<1>2. Policy
  BY <1>1 DEF PermissionInv, NoOwnerInv
<1>3. c \in Writers
  BY <1>1, <1>2 DEF PermissionInv, OwnerInv
<1> QED BY <1>2, <1>3 DEF Expendable, Writers, PermissionInv, OwnerInv

LEMMA OfferKeepsPermission ==
  ASSUME TypeInv, PermissionInv, NEW c \in Registered, NEW f, NEW rest \in Seq(Call),
         OnlyPushesAbove(rest), Duty(rest) = Duty(calls), Offer(c, f, rest)
  PROVE  PermissionInv'
<1>1. CASE Expendable(c) /\ Remove(c, "kicked", rest)
  BY <1>1, ExpendableIsNotOwner, RemoveOther
<1>2. CASE calls' = rest /\ UNCHANGED <<phase, mode, rwEligible, owner>>
  BY <1>2, PermissionKept
<1> QED BY <1>1, <1>2 DEF Offer, KickOrCredit, regVars

-----------------------------------------------------------------------------
(* Its preservation.                                                       *)

\* The scan of promoteNextLocked finds nobody only if nobody waits.
LEMMA NoCandidates ==
  ASSUME TypeInv, Candidates(Registered) = {}
  PROVE  \A c \in Registered : ~rwEligible[c]
<1> SUFFICES ASSUME NEW c \in Registered, rwEligible[c] PROVE FALSE
  OBVIOUS
<1> DEFINE T == {attachSeq[k] : k \in {o \in Registered : rwEligible[o]}}
<1>1. T \subseteq Nat /\ T # {}
  <2>1. \A k \in Registered : attachSeq[k] \in Nat
    BY DEF TypeInv, TypeOK, Registered
  <2>2. attachSeq[c] \in T
    OBVIOUS
  <2> QED BY <2>1, <2>2
<1>2. PICK x \in T : \A y \in T : x <= y
  <2> HIDE DEF T
  <2> QED BY <1>1, NatLeast
<1>3. PICK k \in Registered : rwEligible[k] /\ x = attachSeq[k]
  BY <1>2
<1>4. k \in Candidates(Registered)
  BY <1>2, <1>3 DEF Candidates
<1> QED BY <1>4

LEMMA AttachKeeps ==
  ASSUME TypeInv, PermissionInv, NEW c \in Clients, NEW t \in Tickets, NEW d \in HelloDims,
         Attach(c, t, d)
  PROVE  PermissionInv'
<1>1. /\ calls = <<>> /\ Duty(calls) = NoDuty
      /\ NoDuty # Promote /\ \A k \in Clients : NoDuty # Register(k) /\ Promote # Register(k)
  BY EmptyDuty DEF Attach, Free, NoDuty, Promote, Register
<1>2. OnlyPushesAbove(calls') /\ Duty(calls') = Register(c)
  <2>1. /\ Register(c) \in Call /\ <<Register(c)>> \in Seq(Call)
        /\ OnlyPushesAbove(<<Register(c)>>) /\ Duty(<<Register(c)>>) = Register(c)
    <3>1. Register(c) \in Call /\ Register(c).op = "register"
      BY JobTypes DEF Register
    <3> QED BY <3>1, SingleDuty
  <2>2. CASE Participates(EffectiveMode(t))
    <3>1. [sizes EXCEPT ![c] = d] \in Sizes
      BY TypeParts DEF HubTypes, Sizes, ArbiterDims
    <3>2. Recalc([sizes EXCEPT ![c] = d], Registered, <<Register(c)>>)
      BY <2>2 DEF Attach
    <3>3. Registered \in SUBSET Clients
      BY DEF Registered
    <3> QED BY <2>1, <3>1, <3>2, <3>3, RecalcDuty
  <2>3. CASE ~Participates(EffectiveMode(t))
    BY <2>1, <2>3 DEF Attach
  <2> QED BY <2>2, <2>3
<1>3. /\ phase[c] = "new" /\ UNCHANGED <<phase, owner>>
      /\ mode' = [mode EXCEPT ![c] = EffectiveMode(t)]
      /\ rwEligible' = [rwEligible EXCEPT ![c] = Eligible(t)]
  BY DEF Attach
<1>4. c \notin Registered /\ Registered' = Registered
  BY <1>3 DEF Registered
<1>5. Writers' = Writers
  BY <1>3, <1>4 DEF Writers, TypeInv, TypeOK
<1>6. \A k \in Registered : rwEligible'[k] = rwEligible[k]
  BY <1>3, <1>4 DEF TypeInv, TypeOK
<1>7. CASE Policy
  <2>1. mode'[c] = "rw" <=> rwEligible'[c] /\ owner = NoClient
    BY <1>3, <1>7, HubAssumption DEF Policy, EffectiveMode, Eligible, TypeInv, TypeOK
  <2>2. \A k \in Clients : Register(c) = Register(k) => k = c
    BY DEF Register
  <2>3. OwnerInv
    BY <1>7 DEF PermissionInv
  <2>4. OwnerInv'
    BY <1>1, <1>2, <1>3, <1>4, <1>5, <1>6, <2>1, <2>2, <2>3 DEF OwnerInv
  <2> QED BY <1>2, <1>7, <2>4 DEF PermissionInv, Policy
<1>8. CASE ~Policy
  <2>1. ~Eligible(t)
    BY <1>8 DEF Eligible, Policy
  <2>2. NoOwnerInv
    BY <1>8 DEF PermissionInv
  <2>3. NoOwnerInv'
    BY <1>3, <2>1, <2>2 DEF NoOwnerInv, TypeInv, TypeOK
  <2> QED BY <1>2, <1>8, <2>3 DEF PermissionInv, Policy
<1> QED BY <1>7, <1>8

LEMMA RegisterKeeps ==
  ASSUME TypeInv, PermissionInv, RegisterClient
  PROVE  PermissionInv'
<1> DEFINE c == Head(calls).client
<1>1. /\ calls \in Seq(Call) /\ calls # <<>> /\ Head(calls).op = "register"
      /\ c \in Clients /\ Head(calls) \in Call
  BY HeadTypes DEF RegisterClient, Running, TypeInv, TypeOK
<1>2. Head(calls) = Register(c)
  BY <1>1 DEF Call, Register
<1>3. calls = <<Head(calls)>> /\ Tail(calls) = <<>>
  BY <1>1, AloneAtBottom DEF PermissionInv
<1>4. Duty(calls) = Register(c)
  BY <1>1, <1>2, <1>3, SingleDuty
<1>5. OnlyPushesAbove(calls') /\ Duty(calls') = NoDuty
  BY <1>3, EmptyDuty DEF RegisterClient
<1>6. /\ phase' = [phase EXCEPT ![c] = "in"]
      /\ owner' = IF rwEligible[c] /\ mode[c] = "rw" THEN c ELSE owner
      /\ UNCHANGED <<mode, rwEligible>>
  BY DEF RegisterClient
<1> HIDE DEF c
<1>7. NoDuty # Promote /\ \A k \in Clients : NoDuty # Register(k) /\ Promote # Register(k)
  BY DEF NoDuty, Promote, Register
<1>8. Registered' = Registered \cup {c}
  BY <1>1, <1>6 DEF Registered, TypeInv, TypeOK
<1>9. CASE Policy
  <2>1. OwnerInv /\ (mode[c] = "rw" <=> rwEligible[c] /\ owner = NoClient)
    BY <1>1, <1>4, <1>9 DEF PermissionInv, OwnerInv
  <2>2. Writers' = Writers \cup {k \in {c} : mode[k] = "rw"}
    BY <1>1, <1>6, <1>8 DEF Writers
  <2>3. c # NoClient /\ \A k \in Writers : k # NoClient
    BY <1>1, HubAssumption DEF Writers, Registered
  <2>4. OwnerInv'
    <3>1. CASE mode[c] = "rw"
      <4>1. owner = NoClient /\ owner' = c /\ Writers = {}
        BY <2>1, <2>3, <3>1, <1>6 DEF OwnerInv
      <4> QED BY <4>1, <3>1, <2>2, <2>3, <1>5, <1>7 DEF OwnerInv
    <3>2. CASE mode[c] # "rw"
      <4>1. owner' = owner /\ Writers' = Writers
        BY <3>2, <2>2, <1>6
      <4>2. owner = NoClient => ~rwEligible[c]
        BY <3>2, <2>1
      <4> QED BY <4>1, <4>2, <2>1, <1>4, <1>5, <1>6, <1>7, <1>8, <1>1 DEF OwnerInv
    <3> QED BY <3>1, <3>2
  <2> QED BY <1>5, <1>9, <2>4 DEF PermissionInv, Policy
<1>10. CASE ~Policy
  <2>1. NoOwnerInv
    BY <1>10 DEF PermissionInv
  <2>2. NoOwnerInv'
    BY <1>1, <1>6, <2>1 DEF NoOwnerInv
  <2> QED BY <1>5, <1>10, <2>2 DEF PermissionInv, Policy
<1> QED BY <1>9, <1>10

LEMMA PromoteKeeps ==
  ASSUME TypeInv, PermissionInv, PromoteNext
  PROVE  PermissionInv'
<1>1. calls \in Seq(Call) /\ calls # <<>> /\ Head(calls).op = "promote" /\ Head(calls) \in Call
  BY HeadTypes DEF PromoteNext, Running, TypeInv, TypeOK
<1>2. Head(calls) = Promote
  BY <1>1 DEF Call, Promote
<1>3. calls = <<Promote>> /\ Tail(calls) = <<>>
  BY <1>1, <1>2, AloneAtBottom DEF PermissionInv
<1>4. Duty(calls) = Promote
  BY <1>1, <1>2, <1>3, SingleDuty
<1>5. NoDuty # Promote /\ \A k \in Clients : NoDuty # Register(k)
  BY DEF NoDuty, Promote, Register
<1>6. CASE Candidates(Registered) = {}
  <2>1. owner' = NoClient /\ calls' = <<>> /\ UNCHANGED <<phase, mode, rwEligible>>
    BY <1>3, <1>6 DEF PromoteNext
  <2>2. OnlyPushesAbove(calls') /\ Duty(calls') = NoDuty
    BY <2>1, EmptyDuty
  <2>3. \A k \in Registered : ~rwEligible[k]
    BY <1>6, NoCandidates
  <2>4. Registered' = Registered /\ Writers' = Writers
    BY <2>1 DEF Registered, Writers
  <2>5. Policy => Writers = {}
    BY <1>4 DEF PermissionInv, OwnerInv, Writers
  <2>6. Policy => OwnerInv'
    BY <1>5, <2>1, <2>2, <2>3, <2>4, <2>5 DEF OwnerInv
  <2>7. ~Policy => NoOwnerInv'
    BY <2>1 DEF PermissionInv, NoOwnerInv
  <2> QED BY <2>2, <2>6, <2>7 DEF PermissionInv, Policy
<1>7. ASSUME NEW c \in Candidates(Registered), Fits(c, Welcome("rw", hello[c])),
             owner' = c, mode' = [mode EXCEPT ![c] = "rw"],
             Recalc([sizes EXCEPT ![c] = hello[c]], Registered, Tail(calls)),
             UNCHANGED <<phase, rwEligible>>
      PROVE  PermissionInv'
  <2>1. c \in Registered /\ c \in Clients /\ rwEligible[c]
    BY DEF Candidates, Registered
  <2>2. Policy /\ OwnerInv
    BY <2>1 DEF PermissionInv, NoOwnerInv
  <2>3. OnlyPushesAbove(calls') /\ Duty(calls') = NoDuty
    <3>1. [sizes EXCEPT ![c] = hello[c]] \in Sizes
      <4>1. sizes \in Sizes /\ hello[c] \in ArbiterDims
        BY <2>1, TypeParts DEF HubTypes
      <4> QED BY <4>1 DEF Sizes
    <3>2. Registered \in SUBSET Clients /\ Tail(calls) \in Seq(Call)
      BY <1>3, EmptyCalls DEF Registered
    <3> QED BY <1>3, <1>7, <3>1, <3>2, EmptyDuty, RecalcDuty
  <2>4. Registered' = Registered /\ Writers' = {c}
    <3>1. Writers = {}
      BY <1>4, <2>2 DEF OwnerInv, Writers
    <3> QED BY <1>7, <2>1, <3>1 DEF Registered, Writers, TypeInv, TypeOK
  <2>5. OwnerInv'
    BY <1>5, <1>7, <2>1, <2>3, <2>4, HubAssumption DEF OwnerInv
  <2> QED BY <2>2, <2>3, <2>5 DEF PermissionInv, Policy
<1>8. ASSUME NEW c \in Candidates(Registered), Remove(c, "kicked", calls)
      PROVE  PermissionInv'
  <2>1. c \in Registered /\ c \in Clients /\ rwEligible[c]
    BY DEF Candidates, Registered
  <2>2. c # owner
    BY <1>4, <2>1 DEF PermissionInv, NoOwnerInv, OwnerInv
  <2> QED BY <1>1, <1>8, <2>1, <2>2, RemoveOther DEF PermissionInv
<1> QED BY <1>6, <1>7, <1>8 DEF PromoteNext

LEMMA DetachKeeps ==
  ASSUME TypeInv, PermissionInv, NEW c \in Clients, Detach(c)
  PROVE  PermissionInv'
<1>1. c \in Registered /\ calls = <<>> /\ Remove(c, "detached", <<>>)
  BY DEF Detach, Free
<1>2. CASE c = owner
  BY <1>1, <1>2, RemoveOwner
<1>3. CASE c # owner
  BY <1>1, <1>3, EmptyDuty, EmptyCalls, RemoveOther
<1> QED BY <1>2, <1>3

\* One iteration of a loop leaves the rest of it and what is below.
LEMMA LoopKeepsDuty ==
  ASSUME TypeInv, PermissionInv, calls # <<>>, NEW c \in Clients,
         NEW job \in Call, job.op = Head(calls).op, job.op \in {"push", "fan"}
  PROVE  /\ Loop(job, Tail(calls)) \in Seq(Call)
         /\ OnlyPushesAbove(Loop(job, Tail(calls)))
         /\ Duty(Loop(job, Tail(calls))) = Duty(calls)
<1>1. calls \in Seq(Call) /\ Tail(calls) \in Seq(Call)
  BY HeadTypes DEF TypeInv, TypeOK
<1>2. OnlyPushesAbove(Tail(calls)) /\ Duty(Tail(calls)) = Duty(calls)
  BY <1>1, TailDuty DEF PermissionInv
<1>3. CASE job.op = "push"
  BY <1>1, <1>2, <1>3, PushDuty, LoopType
<1>4. CASE job.op = "fan"
  <2>1. Tail(calls) = <<>>
    BY <1>1, <1>4, AloneAtBottom DEF PermissionInv
  <2>2. <<job>> \o <<>> = <<job>>
    OBVIOUS
  <2>3. Loop(job, Tail(calls)) \in {<<>>, <<job>>}
    BY <2>1, <2>2 DEF Loop
  <2>4. OnlyPushesAbove(<<job>>) /\ Duty(<<job>>) = NoDuty
    BY <1>4, SingleDuty
  <2> QED BY <1>1, <1>2, <2>1, <2>3, <2>4, EmptyDuty, LoopType
<1> QED BY <1>3, <1>4

LEMMA FanKeeps ==
  ASSUME TypeInv, PermissionInv, NEW c \in Clients, FanOut(c) \/ PushDims(c)
  PROVE  PermissionInv'
<1> DEFINE job == Head(calls)
<1>0. calls \in Seq(Call) /\ calls # <<>>
  BY DEF FanOut, PushDims, Running, TypeInv, TypeOK
<1>1. CASE FanOut(c)
  <2>1. /\ c \in Registered
        /\ Offer(c, Output(job.n), Loop(Fan(job.n, job.todo \ {c}), Tail(calls)))
        /\ job.op = "fan"
    BY <1>1 DEF FanOut, Running
  <2>2. Fan(job.n, job.todo \ {c}) \in Call /\ Fan(job.n, job.todo \ {c}).op = "fan"
    <3>1. job.n \in Nat /\ job.todo \ {c} \in SUBSET Clients
      BY <1>0, <1>1, HeadTypes DEF FanOut
    <3> QED BY <3>1, JobTypes DEF Fan
  <2> QED BY <1>0, <2>1, <2>2, LoopKeepsDuty, OfferKeepsPermission
<1>2. CASE PushDims(c)
  <2>1. /\ c \in Registered
        /\ Offer(c, Welcome(mode[c], job.dims), Loop(Push(job.dims, job.todo \ {c}), Tail(calls)))
        /\ job.op = "push"
    BY <1>2 DEF PushDims, Running
  <2>2. Push(job.dims, job.todo \ {c}) \in Call /\ Push(job.dims, job.todo \ {c}).op = "push"
    <3>1. job.dims \in Dims /\ job.todo \ {c} \in SUBSET Clients
      BY <1>0, <1>2, HeadTypes DEF PushDims
    <3> QED BY <3>1, JobTypes DEF Push
  <2> QED BY <1>0, <2>1, <2>2, LoopKeepsDuty, OfferKeepsPermission
<1> QED BY <1>1, <1>2

LEMMA PermissionStep == TypeInv /\ PermissionInv /\ [Next]_vars => PermissionInv'
<1> SUFFICES ASSUME TypeInv, PermissionInv, [Next]_vars PROVE PermissionInv'
  OBVIOUS
<1> USE DEF regVars
<1>1. CASE LoopDone
  <2>1. /\ calls \in Seq(Call) /\ calls # <<>> /\ Head(calls).op \in {"push", "fan"}
        /\ calls' = Tail(calls) /\ UNCHANGED <<phase, mode, rwEligible, owner>>
    BY <1>1 DEF LoopDone, Running, TypeInv, TypeOK
  <2> QED BY <2>1, TailDuty, PermissionKept DEF PermissionInv
<1>2. CASE DebounceFires
  <2>1. calls = <<>> /\ Recalc(sizes, Registered, <<>>) /\ UNCHANGED <<phase, mode, rwEligible, owner>>
    BY <1>2 DEF DebounceFires, Free
  <2>2. sizes \in Sizes /\ Registered \in SUBSET Clients
    BY TypeParts DEF HubTypes, Registered
  <2> QED BY <2>1, <2>2, EmptyDuty, EmptyCalls, RecalcDuty, PermissionKept
<1>3. CASE ReadChunk \/ Recheck
  <2>1. calls = <<>> /\ PassGate /\ UNCHANGED <<phase, mode, rwEligible, owner>>
    BY <1>3 DEF ReadChunk, Recheck, Free
  <2>2. OnlyPushesAbove(calls') /\ Duty(calls') = Duty(calls)
    <3> DEFINE job == Fan(chunks + 1, Registered)
    <3>1. job \in Call /\ job.op = "fan"
      <4>1. chunks + 1 \in Nat /\ Registered \in SUBSET Clients
        BY DEF TypeInv, TypeOK, Registered
      <4> QED BY <4>1, JobTypes DEF Fan
    <3>2. <<job>> \o <<>> = <<job>>
      OBVIOUS
    <3>3. calls' \in {<<>>, <<job>>}
      BY <2>1, <3>2 DEF PassGate, Loop
    <3> HIDE DEF job
    <3> QED BY <2>1, <3>1, <3>3, EmptyDuty, SingleDuty
  <2> QED BY <2>1, <2>2, PermissionKept
<1>4. ASSUME NEW c \in Clients, WriterStep(c) \/ \E d \in HelloDims : ReportResize(c, d)
      PROVE  PermissionInv'
  <2>1. UNCHANGED <<phase, mode, rwEligible, owner, calls>>
    BY <1>4 DEF WriterStep, Drain, WriteFrame, WriteFails, AfterDrain, ReportResize
  <2> QED BY <2>1, PermissionKept DEF PermissionInv
<1>5. CASE UNCHANGED vars
  BY <1>5, PermissionKept DEF vars, PermissionInv
<1> QED
  BY <1>1, <1>2, <1>3, <1>4, <1>5, AttachKeeps, RegisterKeeps, DetachKeeps, FanKeeps, PromoteKeeps
     DEF Next, HubStep

-----------------------------------------------------------------------------
(* What follows.                                                           *)

\* With write-policy owner those who may type are exactly the owner.
THEOREM OneWriter == Spec => []SingleWriter
<1>1. TypeInv /\ PermissionInv => SingleWriter
  <2> SUFFICES ASSUME TypeInv, PermissionInv PROVE SingleWriter
    OBVIOUS
  <2>1. CASE Policy
    <3>1. Free => Duty(calls) # Promote
      BY EmptyDuty DEF Free, NoDuty, Promote
    <3>2. NoClient \notin Writers
      BY HubAssumption DEF Writers, Registered
    <3>3. Free => Writers = (IF owner = NoClient THEN {} ELSE {owner})
      BY <2>1, <3>1, <3>2 DEF PermissionInv, OwnerInv
    <3> QED BY <2>1, <3>3 DEF SingleWriter, Policy
  <2>2. CASE ~Policy
    BY <2>2 DEF SingleWriter, PermissionInv, NoOwnerInv, Policy
  <2> QED BY <2>1, <2>2
<1> QED BY <1>1, TypeInit, TypeStep, PermissionInit, PermissionStep, PTL DEF Spec

\* Nobody who may write waits while nobody has the right.
THEOREM OwnerAlwaysReplaced == Spec => []NoVacantOwner
<1>1. PermissionInv => NoVacantOwner
  BY DEF PermissionInv, OwnerInv, NoOwnerInv, NoVacantOwner, Registered
<1> QED BY <1>1, TypeInit, TypeStep, PermissionInit, PermissionStep, PTL DEF Spec

\* The owner changes by registration or by promotion only.
LEMMA OwnerKept ==
  ASSUME [Next]_vars
  PROVE  owner' = owner \/ RegisterClient \/ PromoteNext
<1> USE DEF regVars
<1>1. ASSUME NEW c \in Clients,
             \/ FanOut(c) \/ PushDims(c) \/ Detach(c) \/ WriterStep(c)
             \/ \E d \in HelloDims : ReportResize(c, d)
             \/ \E t \in Tickets, d \in HelloDims : Attach(c, t, d)
      PROVE  owner' = owner
  BY <1>1 DEF FanOut, PushDims, Offer, KickOrCredit, Remove, Detach, WriterStep, Drain, WriteFrame,
              WriteFails, AfterDrain, ReportResize, Attach
<1>2. CASE LoopDone \/ DebounceFires \/ ReadChunk \/ Recheck \/ UNCHANGED vars
  BY <1>2 DEF LoopDone, DebounceFires, ReadChunk, Recheck, vars
<1> QED BY <1>1, <1>2 DEF Next, HubStep

FifoStep ==
  \A c \in Registered :
    owner' = c /\ owner # c /\ phase'[c] = "in" =>
      \A o \in Registered : rwEligible[o] => attachSeq[c] <= attachSeq[o]

LEMMA SuccessionIsFifo == TypeInv /\ PermissionInv /\ [Next]_vars => FifoStep
<1> SUFFICES ASSUME TypeInv, PermissionInv, [Next]_vars,
                    NEW c \in Registered, owner' = c, owner # c
             PROVE  \A o \in Registered : rwEligible[o] => attachSeq[c] <= attachSeq[o]
  BY DEF FifoStep
<1>1. c \in Clients /\ c # NoClient
  BY HubAssumption DEF Registered
<1>2. ~RegisterClient
  <2> SUFFICES ASSUME RegisterClient PROVE FALSE
    OBVIOUS
  <2>1. /\ calls \in Seq(Call) /\ calls # <<>> /\ Head(calls).op = "register"
        /\ Head(calls) \in Call
    BY HeadTypes DEF RegisterClient, Running, TypeInv, TypeOK
  <2>2. owner' = Head(calls).client /\ rwEligible[c]
    BY DEF RegisterClient
  <2>3. Head(calls) = Register(c)
    BY <2>1, <2>2 DEF Call, Register
  <2>4. Duty(calls) = Register(c)
    BY <2>1, <2>3, AloneAtBottom, SingleDuty DEF PermissionInv
  <2>5. phase[c] = "new"
    BY <1>1, <2>2, <2>4 DEF PermissionInv, OwnerInv, NoOwnerInv
  <2> QED BY <2>5 DEF Registered
<1>3. PromoteNext /\ owner' # owner
  BY <1>2, OwnerKept
<1>4. c \in Candidates(Registered)
  BY <1>1, <1>3 DEF PromoteNext, Remove
<1> QED BY <1>4 DEF Candidates

\* The right to write passes in the order of the attaches.
THEOREM SuccessionInOrder == Spec => FifoSuccession
<1>1. TypeInv /\ PermissionInv /\ [Next]_vars => [FifoStep]_vars
  BY SuccessionIsFifo
<1> QED BY <1>1, TypeInit, TypeStep, PermissionInit, PermissionStep, PTL
        DEF Spec, FifoSuccession, FifoStep

SpareStep == \A c \in Writers : phase'[c] = "kicked" => Writers' # {}

LEMMA KicksSpare == TypeInv /\ PermissionInv /\ [Next]_vars => SpareStep
<1> SUFFICES ASSUME TypeInv, PermissionInv, [Next]_vars, NEW c \in Writers, phase'[c] = "kicked"
             PROVE  Writers' # {}
  BY DEF SpareStep
<1> USE DEF regVars
<1>1. c \in Registered /\ c \in Clients /\ phase[c] = "in" /\ mode[c] = "rw"
  BY DEF Writers, Registered
<1>2. ASSUME NEW k \in Clients, FanOut(k) \/ PushDims(k)
      PROVE  Writers' # {}
  <2>1. /\ Expendable(k)
        /\ phase' = [phase EXCEPT ![k] = "kicked"]
        /\ mode' = mode
    BY <1>1, <1>2 DEF FanOut, PushDims, Offer, KickOrCredit, Remove
  <2>2. k = c
    BY <1>1, <2>1 DEF TypeInv, TypeOK
  <2>3. PICK o \in Writers \ {c} : TRUE
    BY <1>1, <2>1, <2>2 DEF Expendable
  <2>4. o \in Writers'
    BY <2>1, <2>2, <2>3 DEF Writers, Registered, TypeInv, TypeOK
  <2> QED BY <2>4
<1>3. CASE PromoteNext
  <2>1. PICK k \in Candidates(Registered) : phase' = [phase EXCEPT ![k] = "kicked"]
    BY <1>1, <1>3 DEF PromoteNext, Remove
  <2>2. k = c /\ rwEligible[c]
    BY <1>1, <2>1 DEF Candidates, TypeInv, TypeOK
  <2>3. Policy /\ owner = c
    BY <1>1, <2>2 DEF PermissionInv, NoOwnerInv, OwnerInv
  <2>4. Duty(calls) = Promote
    <3>1. /\ calls \in Seq(Call) /\ calls # <<>> /\ Head(calls).op = "promote"
          /\ Head(calls) \in Call
      BY <1>3, HeadTypes DEF PromoteNext, Running, TypeInv, TypeOK
    <3>2. Head(calls) = Promote
      BY <3>1 DEF Call, Promote
    <3> QED BY <3>1, <3>2, AloneAtBottom, SingleDuty DEF PermissionInv
  <2> QED BY <1>1, <2>3, <2>4 DEF PermissionInv, OwnerInv
<1>4. ASSUME NEW k \in Clients, Detach(k)
      PROVE  FALSE
  BY <1>1, <1>4 DEF Detach, Remove, TypeInv, TypeOK
<1>5. CASE RegisterClient
  <2>1. phase' = [phase EXCEPT ![Head(calls).client] = "in"]
    BY <1>5 DEF RegisterClient
  <2> QED BY <1>1, <2>1 DEF TypeInv, TypeOK
<1>6. ASSUME NEW k \in Clients,
             \/ WriterStep(k) \/ \E d \in HelloDims : ReportResize(k, d)
             \/ \E t \in Tickets, d \in HelloDims : Attach(k, t, d)
      PROVE  phase' = phase
  BY <1>6 DEF WriterStep, Drain, WriteFrame, WriteFails, AfterDrain, ReportResize, Attach
<1>7. LoopDone \/ DebounceFires \/ ReadChunk \/ Recheck \/ UNCHANGED vars => phase' = phase
  BY DEF LoopDone, DebounceFires, ReadChunk, Recheck, vars
<1> QED BY <1>1, <1>2, <1>3, <1>4, <1>5, <1>6, <1>7 DEF Next, HubStep

\* A kick of a writer leaves another one.
THEOREM LastWriterSpared == Spec => KickSparesLastWriter
<1>1. TypeInv /\ PermissionInv /\ [Next]_vars => [SpareStep]_vars
  BY KicksSpare
<1> QED BY <1>1, TypeInit, TypeStep, PermissionInit, PermissionStep, PTL
        DEF Spec, KickSparesLastWriter, SpareStep

-----------------------------------------------------------------------------
(* The line of those who may write.                                        *)

\* Attaches are numbered in their order, and the owner came before everybody
\* who may still follow it.
LineInv ==
  /\ \A c \in Registered : attachSeq[c] <= seq
  /\ \A b, c \in Registered : attachSeq[b] = attachSeq[c] => b = c
  /\ Policy => \A c \in Writers : rwEligible[c]
  /\ owner # NoClient => \A o \in Registered : rwEligible[o] => attachSeq[owner] <= attachSeq[o]

LEMMA LineInit == Init => LineInv
BY DEF Init, LineInv, Writers, Registered

\* The registry shrinks or stays, and nobody's place in it changes.
LEMMA LineKept ==
  ASSUME LineInv, Registered' \subseteq Registered, UNCHANGED <<attachSeq, seq, owner>>,
         \A c \in Registered : mode'[c] = mode[c] /\ rwEligible'[c] = rwEligible[c]
  PROVE  LineInv'
<1>1. Writers' \subseteq Writers
  BY DEF Writers
<1>2. \A c \in Writers : c \in Registered
  BY DEF Writers
<1>3. Policy' = Policy
  BY DEF Policy
<1> QED BY <1>1, <1>2, <1>3 DEF LineInv

\* A newcomer goes to the end, and is the owner only if nobody else may be.
LEMMA RegisterLine ==
  ASSUME TypeInv, PermissionInv, LineInv, RegisterClient
  PROVE  LineInv'
<1> DEFINE c == Head(calls).client
<1>1. calls \in Seq(Call) /\ calls # <<>> /\ Head(calls).op = "register" /\ Head(calls) \in Call
  BY HeadTypes DEF RegisterClient, Running, TypeInv, TypeOK
<1>2. c \in Clients /\ Head(calls) = Register(c)
  BY <1>1 DEF Call, Register
<1>3. Duty(calls) = Register(c)
  BY <1>1, <1>2, AloneAtBottom, SingleDuty DEF PermissionInv
<1>4. /\ phase' = [phase EXCEPT ![c] = "in"]
      /\ attachSeq' = [attachSeq EXCEPT ![c] = seq + 1] /\ seq' = seq + 1
      /\ owner' = IF rwEligible[c] /\ mode[c] = "rw" THEN c ELSE owner
      /\ mode' = mode /\ rwEligible' = rwEligible
  BY DEF RegisterClient
<1> HIDE DEF c
<1>5. Registered' = Registered \cup {c}
  BY <1>2, <1>4 DEF Registered, TypeInv, TypeOK
<1>6. /\ attachSeq'[c] = seq + 1
      /\ \A k \in Registered : k # c => attachSeq'[k] = attachSeq[k]
      /\ \A k \in Clients : attachSeq[k] \in Nat
      /\ seq \in Nat /\ \A k \in Registered : k \in Clients
  BY <1>2, <1>4 DEF Registered, TypeInv, TypeOK
<1>7. \A k \in Registered' : attachSeq'[k] <= seq'
  BY <1>4, <1>5, <1>6 DEF LineInv
<1>8. ASSUME NEW j \in Registered', NEW k \in Registered', attachSeq'[j] = attachSeq'[k]
      PROVE  j = k
  <2>1. \A o \in Registered' : o # c => o \in Registered /\ attachSeq'[o] <= seq
    BY <1>5, <1>6 DEF LineInv
  <2>2. \A o \in Registered' : o # c => attachSeq'[o] # seq + 1
    BY <1>5, <1>6, <2>1
  <2>3. CASE j = c \/ k = c
    BY <1>6, <1>8, <2>2, <2>3
  <2>4. CASE j # c /\ k # c
    BY <1>6, <1>8, <2>1, <2>4 DEF LineInv
  <2> QED BY <2>3, <2>4
<1>9. CASE Policy
  <2>1. phase[c] = "new" /\ (mode[c] = "rw" <=> rwEligible[c] /\ owner = NoClient)
        /\ (owner = NoClient => \A k \in Registered : ~rwEligible[k])
        /\ (owner # NoClient => owner \in Writers)
    <3>1. Duty(calls) # Promote
      BY <1>3 DEF Register, Promote
    <3> QED BY <1>2, <1>3, <1>9, <3>1 DEF PermissionInv, OwnerInv
  <2>2. c \notin Registered
    BY <2>1 DEF Registered
  <2>3. \A k \in Writers' : rwEligible'[k]
    BY <1>4, <1>5, <1>9, <2>1 DEF LineInv, Writers
  <2>4. CASE owner = NoClient
    <3>1. \A o \in Registered' : rwEligible'[o] => o = c
      BY <1>4, <1>5, <2>1, <2>4
    <3>2. owner' # NoClient => owner' = c
      BY <1>4, <2>4
    <3> QED BY <1>6, <1>7, <1>8, <2>3, <3>1, <3>2 DEF LineInv
  <2>5. CASE owner # NoClient
    <3>1. owner' = owner /\ owner \in Registered /\ owner # c
      BY <1>4, <2>1, <2>2, <2>5 DEF Writers
    <3>2. attachSeq'[owner] = attachSeq[owner] /\ attachSeq[owner] <= seq /\ attachSeq[owner] \in Nat
      BY <1>6, <3>1 DEF LineInv
    <3>3. ASSUME NEW o \in Registered', rwEligible'[o] PROVE attachSeq'[owner] <= attachSeq'[o]
      <4>1. CASE o = c
        BY <1>6, <3>2, <4>1
      <4>2. CASE o # c
        BY <1>4, <1>5, <1>6, <2>5, <3>2, <3>3, <4>2 DEF LineInv
      <4> QED BY <4>1, <4>2
    <3> QED BY <1>7, <1>8, <2>3, <3>1, <3>3 DEF LineInv
  <2> QED BY <2>4, <2>5
<1>10. CASE ~Policy
  <2>1. owner' = NoClient
    BY <1>2, <1>4, <1>10 DEF PermissionInv, NoOwnerInv
  <2> QED BY <1>7, <1>8, <1>10, <2>1 DEF LineInv, Policy
<1> QED BY <1>9, <1>10

\* The successor is the first of those that remain.
LEMMA PromoteLine ==
  ASSUME TypeInv, PermissionInv, LineInv, PromoteNext
  PROVE  LineInv'
<1>1. CASE Candidates(Registered) = {}
  <2>1. owner' = NoClient /\ UNCHANGED <<phase, attachSeq, seq, mode, rwEligible>>
    BY <1>1 DEF PromoteNext
  <2> QED BY <2>1 DEF LineInv, Writers, Registered, Policy
<1>2. ASSUME NEW c \in Candidates(Registered), owner' = c, mode' = [mode EXCEPT ![c] = "rw"],
             UNCHANGED <<phase, attachSeq, seq, rwEligible>>
      PROVE  LineInv'
  <2>1. Registered' = Registered /\ c \in Registered /\ c \in Clients /\ rwEligible[c]
    BY <1>2 DEF Registered, Candidates
  <2>2. \A o \in Registered : rwEligible[o] => attachSeq[c] <= attachSeq[o]
    BY DEF Candidates
  <2>3. Writers' \subseteq Writers \cup {c}
    BY <1>2, <2>1 DEF Writers, Registered, TypeInv, TypeOK
  <2> QED BY <1>2, <2>1, <2>2, <2>3 DEF LineInv, Policy
<1>3. ASSUME NEW c \in Candidates(Registered), Remove(c, "kicked", calls)
      PROVE  LineInv'
  <2>1. UNCHANGED <<attachSeq, seq, mode, rwEligible, owner>>
    BY <1>3 DEF Remove
  <2>2. Registered' \subseteq Registered
    BY <1>3 DEF Remove, Registered, TypeInv, TypeOK
  <2> QED BY <2>1, <2>2, LineKept
<1> QED BY <1>1, <1>2, <1>3 DEF PromoteNext

LEMMA LineStep == TypeInv /\ PermissionInv /\ LineInv /\ [Next]_vars => LineInv'
<1> SUFFICES ASSUME TypeInv, PermissionInv, LineInv, [Next]_vars PROVE LineInv'
  OBVIOUS
<1> USE DEF regVars
<1>1. ASSUME NEW c \in Clients, FanOut(c) \/ PushDims(c) \/ Detach(c)
      PROVE  LineInv'
  <2>1. UNCHANGED <<attachSeq, seq, mode, rwEligible, owner>>
    BY <1>1 DEF FanOut, PushDims, Offer, KickOrCredit, Remove, Detach
  <2>2. phase' = phase \/ phase' = [phase EXCEPT ![c] = "kicked"]
                       \/ phase' = [phase EXCEPT ![c] = "detached"]
    BY <1>1 DEF FanOut, PushDims, Offer, KickOrCredit, Remove, Detach
  <2>3. Registered' \subseteq Registered
    BY <2>2 DEF Registered, TypeInv, TypeOK
  <2> QED BY <2>1, <2>3, LineKept
<1>2. ASSUME NEW c \in Clients, NEW t \in Tickets, NEW d \in HelloDims, Attach(c, t, d)
      PROVE  LineInv'
  <2>1. /\ phase[c] = "new" /\ UNCHANGED <<phase, attachSeq, seq, owner>>
        /\ mode' = [mode EXCEPT ![c] = EffectiveMode(t)]
        /\ rwEligible' = [rwEligible EXCEPT ![c] = Eligible(t)]
    BY <1>2 DEF Attach
  <2>2. Registered' = Registered /\ c \notin Registered
    BY <2>1 DEF Registered
  <2>3. \A k \in Registered : mode'[k] = mode[k] /\ rwEligible'[k] = rwEligible[k]
    BY <2>1, <2>2 DEF Registered, TypeInv, TypeOK
  <2> QED BY <2>1, <2>2, <2>3, LineKept
<1>3. ASSUME NEW c \in Clients, WriterStep(c) \/ \E d \in HelloDims : ReportResize(c, d)
      PROVE  LineInv'
  <2>1. UNCHANGED <<phase, attachSeq, seq, mode, rwEligible, owner>>
    BY <1>3 DEF WriterStep, Drain, WriteFrame, WriteFails, AfterDrain, ReportResize
  <2> QED BY <2>1, LineKept DEF Registered
<1>4. CASE LoopDone \/ DebounceFires \/ ReadChunk \/ Recheck \/ UNCHANGED vars
  <2>1. UNCHANGED <<phase, attachSeq, seq, mode, rwEligible, owner>>
    BY <1>4 DEF LoopDone, DebounceFires, ReadChunk, Recheck, vars
  <2> QED BY <2>1, LineKept DEF Registered
<1> QED BY <1>1, <1>2, <1>3, <1>4, RegisterLine, PromoteLine DEF Next, HubStep

\* With write-policy owner who may type is the first in line of those that attached
\* with a right to write and are still there: the session mode that Service takes for
\* granted (ModeIn).
HeadOfLine == Policy /\ Free => Writers = Candidates(Registered)

\* The right to write always lies with the head of the line, through registrations,
\* kicks and promotions (decideModeLocked, registerLocked, promoteNextLocked).
THEOREM WriterHeadsTheLine == Spec => []HeadOfLine
<1>1. TypeInv /\ PermissionInv /\ LineInv => HeadOfLine
  <2> SUFFICES ASSUME TypeInv, PermissionInv, LineInv, Policy, Free
               PROVE  Writers = Candidates(Registered)
    BY DEF HeadOfLine
  <2>1. OwnerInv /\ Duty(calls) # Promote
    BY EmptyDuty DEF PermissionInv, Free, NoDuty, Promote
  <2>2. CASE owner = NoClient
    <3>1. Writers = {}
      BY <2>1, <2>2, HubAssumption DEF OwnerInv, Writers, Registered
    <3>2. Candidates(Registered) = {}
      BY <2>1, <2>2 DEF OwnerInv, Candidates
    <3> QED BY <3>1, <3>2
  <2>3. CASE owner # NoClient
    <3>1. Writers = {owner} /\ owner \in Registered /\ rwEligible[owner]
      BY <2>1, <2>3 DEF OwnerInv, LineInv, Writers
    <3>2. owner \in Candidates(Registered)
      BY <2>3, <3>1 DEF LineInv, Candidates
    <3>3. ASSUME NEW c \in Candidates(Registered) PROVE c = owner
      <4>1. c \in Registered /\ rwEligible[c] /\ attachSeq[c] <= attachSeq[owner]
        BY <3>1 DEF Candidates
      <4>2. attachSeq[owner] <= attachSeq[c]
        BY <2>3, <4>1 DEF LineInv
      <4>3. attachSeq[c] \in Nat /\ attachSeq[owner] \in Nat
        BY <3>1, <4>1 DEF Registered, TypeInv, TypeOK
      <4>4. attachSeq[c] = attachSeq[owner]
        BY <4>1, <4>2, <4>3
      <4> QED BY <3>1, <4>1, <4>4 DEF LineInv
    <3> QED BY <3>1, <3>2, <3>3
  <2> QED BY <2>2, <2>3
<1> QED BY <1>1, TypeInit, TypeStep, PermissionInit, PermissionStep, LineInit, LineStep, PTL
        DEF Spec

-----------------------------------------------------------------------------
(* The arbiter. *)

\* Between its decision and its registration a newcomer is weighed already.
Joining(c) == Duty(calls) = Register(c)

\* The members of the arbiter are the clients that take part, registered or
\* about to be.
WeighedInv ==
  \A c \in Clients :
    /\ sizes[c] # ZeroDims <=> (phase[c] = "in" \/ Joining(c)) /\ Participates(mode[c])
    /\ Joining(c) => phase[c] = "new"

\* Without a RESIZE under way the PTY has the common rectangle, within critical
\* sections too.
RectangleInv == ~armed /\ Members(sizes) # {} => last = Arbitrate(sizes)

ArbiterInv == WeighedInv /\ RectangleInv

LEMMA ArbiterInit == Init => ArbiterInv
<1> SUFFICES ASSUME Init PROVE ArbiterInv
  OBVIOUS
<1>0. calls = <<>>
  BY DEF Init
<1>1. \A c \in Clients : ~Joining(c)
  BY <1>0, EmptyDuty DEF Joining, NoDuty, Register
<1>2. \A c \in Clients : sizes[c] = ZeroDims /\ phase[c] = "new"
  BY DEF Init
<1>3. WeighedInv
  BY <1>1, <1>2 DEF WeighedInv
<1>4. Members(sizes) = {}
  BY <1>2 DEF Members
<1> QED BY <1>3, <1>4 DEF ArbiterInv, RectangleInv

\* recalcNow leaves the PTY with the common rectangle.
LEMMA RecalcRectangle ==
  ASSUME NEW sz \in Sizes, NEW reg, NEW rest, Recalc(sz, reg, rest)
  PROVE  sizes' = sz /\ RectangleInv'
<1>1. ZeroDims \notin Dims
  BY DEF ZeroDims, Dims
<1>2. Members(sz) # {} => Arbitrate(sz) # ZeroDims
  BY <1>1, ArbitrateRectangle
<1>3. sizes' = sz /\ (Members(sz) # {} => last' = Arbitrate(sz))
  BY <1>2 DEF Recalc
<1> QED BY <1>3 DEF RectangleInv, Members, Arbitrate

\* Steps that leave the members, and what is owed, alone.
LEMMA ArbiterKept ==
  ASSUME ArbiterInv, UNCHANGED <<phase, mode, sizes, last>>,
         Duty(calls') = Duty(calls), armed' = armed \/ armed' = TRUE
  PROVE  ArbiterInv'
BY DEF ArbiterInv, WeighedInv, RectangleInv, Joining, Members, Arbitrate

\* Whoever is removed from the registry is removed from the arbiter.
LEMMA RemoveForgets ==
  ASSUME TypeInv, WeighedInv, NEW c \in Registered, NEW fate \in {"detached", "kicked"},
         NEW rest \in Seq(Call), OnlyPushesAbove(rest), Duty(rest) = Duty(calls),
         owner = c => rest = <<>>, Remove(c, fate, rest)
  PROVE  ArbiterInv'
<1> DEFINE next == IF owner = c THEN <<Promote>> \o rest ELSE rest
<1>1. c \in Clients /\ phase[c] = "in"
  BY DEF Registered
<1>2. Without(sizes, c) \in Sizes /\ Registered \ {c} \in SUBSET Clients
  BY WithoutType, TypeParts DEF HubTypes, Registered
<1>3. /\ next \in Seq(Call) /\ OnlyPushesAbove(next)
      /\ \A k \in Clients : Duty(next) = Register(k) <=> Joining(k)
  <2>1. CASE owner = c
    <3>1. /\ next = <<Promote>> /\ Promote \in Call /\ Promote.op = "promote"
          /\ <<Promote>> \in Seq(Call)
      BY <2>1, JobTypes DEF Promote
    <3>2. OnlyPushesAbove(next) /\ Duty(next) = Promote /\ Duty(calls) = NoDuty
      BY <2>1, <3>1, SingleDuty, EmptyDuty
    <3>3. \A k \in Clients : Promote # Register(k) /\ NoDuty # Register(k)
      BY DEF Promote, Register, NoDuty
    <3> QED BY <3>1, <3>2, <3>3 DEF Joining
  <2>2. CASE owner # c
    BY <2>2 DEF Joining
  <2> QED BY <2>1, <2>2
<1>4. Recalc(Without(sizes, c), Registered \ {c}, next)
  BY DEF Remove
<1> HIDE DEF next
<1>5. sizes' = Without(sizes, c) /\ RectangleInv' /\ Duty(calls') = Duty(next)
  BY <1>2, <1>3, <1>4, RecalcRectangle, RecalcDuty
<1>6. phase' = [phase EXCEPT ![c] = fate] /\ mode' = mode
  BY DEF Remove
<1>7. WeighedInv'
  <2> SUFFICES ASSUME NEW k \in Clients
               PROVE  /\ sizes'[k] # ZeroDims
                            <=> (phase'[k] = "in" \/ Joining(k)) /\ Participates(mode[k])
                      /\ Joining(k) => phase'[k] = "new"
    BY <1>3, <1>5, <1>6 DEF WeighedInv, Joining
  <2> QED BY <1>1, <1>5, <1>6 DEF WeighedInv, Without, TypeInv, TypeOK
<1> QED BY <1>5, <1>7 DEF ArbiterInv

LEMMA OfferWeighs ==
  ASSUME TypeInv, PermissionInv, ArbiterInv, NEW c \in Registered, NEW f, NEW rest \in Seq(Call),
         OnlyPushesAbove(rest), Duty(rest) = Duty(calls), Offer(c, f, rest), armed' = armed
  PROVE  ArbiterInv'
<1>1. CASE Expendable(c) /\ Remove(c, "kicked", rest)
  BY <1>1, ExpendableIsNotOwner, RemoveForgets DEF ArbiterInv
<1>2. CASE calls' = rest /\ UNCHANGED <<phase, mode, sizes, last>>
  BY <1>2, ArbiterKept
<1> QED BY <1>1, <1>2 DEF Offer, KickOrCredit, regVars, arbVars
-----------------------------------------------------------------------------
(* Its preservation.                                                       *)

LEMMA AttachWeighs ==
  ASSUME TypeInv, ArbiterInv, NEW c \in Clients, NEW t \in Tickets, NEW d \in HelloDims,
         Attach(c, t, d)
  PROVE  ArbiterInv'
<1>1. /\ phase[c] = "new" /\ UNCHANGED <<phase, armed>>
      /\ mode' = [mode EXCEPT ![c] = EffectiveMode(t)]
  BY DEF Attach
<1>2. \A k \in Clients : ~Joining(k)
  BY EmptyDuty DEF Attach, Free, Joining, NoDuty, Register
<1>3. \A k \in Clients : Register(c) = Register(k) <=> k = c
  BY DEF Register
<1>4. /\ <<Register(c)>> \in Seq(Call) /\ OnlyPushesAbove(<<Register(c)>>)
      /\ Duty(<<Register(c)>>) = Register(c)
  <2>1. Register(c) \in Call /\ Register(c).op = "register"
    BY JobTypes DEF Register
  <2> QED BY <2>1, SingleDuty
<1>5. sizes[c] = ZeroDims /\ d # ZeroDims
  <2>1. d \in Dims /\ ZeroDims \notin Dims
    BY HubAssumption DEF Dims, ZeroDims
  <2> QED BY <1>1, <1>2, <2>1 DEF ArbiterInv, WeighedInv
<1>6. ASSUME Duty(calls') = Register(c), NEW x, sizes' = [sizes EXCEPT ![c] = x],
             x # ZeroDims <=> Participates(EffectiveMode(t))
      PROVE  WeighedInv'
  <2> SUFFICES ASSUME NEW k \in Clients
               PROVE  /\ sizes'[k] # ZeroDims
                            <=> (phase[k] = "in" \/ k = c) /\ Participates(mode'[k])
                      /\ k = c => phase[k] = "new"
    BY <1>1, <1>3, <1>6 DEF WeighedInv, Joining
  <2>1. CASE k = c
    BY <1>1, <1>6, <2>1 DEF TypeInv, TypeOK
  <2>2. CASE k # c
    <3>1. sizes'[k] = sizes[k] /\ mode'[k] = mode[k]
      BY <1>1, <1>6, <2>2 DEF TypeInv, TypeOK
    <3> QED BY <1>2, <2>2, <3>1 DEF ArbiterInv, WeighedInv
  <2> QED BY <2>1, <2>2
<1>7. CASE Participates(EffectiveMode(t))
  <2>1. [sizes EXCEPT ![c] = d] \in Sizes /\ Registered \in SUBSET Clients
    BY TypeParts DEF HubTypes, Sizes, ArbiterDims, Registered
  <2>2. Recalc([sizes EXCEPT ![c] = d], Registered, <<Register(c)>>)
    BY <1>7 DEF Attach
  <2>3. sizes' = [sizes EXCEPT ![c] = d] /\ RectangleInv' /\ Duty(calls') = Register(c)
    BY <1>4, <2>1, <2>2, RecalcRectangle, RecalcDuty
  <2> QED BY <1>5, <1>6, <1>7, <2>3 DEF ArbiterInv
<1>8. CASE ~Participates(EffectiveMode(t))
  <2>1. calls' = <<Register(c)>> /\ UNCHANGED <<sizes, last>>
    BY <1>8 DEF Attach, arbVars
  <2>2. sizes' = [sizes EXCEPT ![c] = ZeroDims]
    BY <1>5, <2>1 DEF TypeInv, TypeOK
  <2>3. WeighedInv'
    BY <1>4, <1>6, <1>8, <2>1, <2>2
  <2>4. RectangleInv'
    BY <1>1, <2>1 DEF ArbiterInv, RectangleInv, Members, Arbitrate
  <2> QED BY <2>3, <2>4 DEF ArbiterInv
<1> QED BY <1>7, <1>8

LEMMA RegisterWeighs ==
  ASSUME TypeInv, PermissionInv, ArbiterInv, RegisterClient
  PROVE  ArbiterInv'
<1> DEFINE c == Head(calls).client
<1>1. /\ calls \in Seq(Call) /\ calls # <<>> /\ Head(calls).op = "register"
      /\ c \in Clients /\ Head(calls) \in Call
  BY HeadTypes DEF RegisterClient, Running, TypeInv, TypeOK
<1>2. Head(calls) = Register(c)
  BY <1>1 DEF Call, Register
<1>3. calls = <<Head(calls)>> /\ Tail(calls) = <<>>
  BY <1>1, AloneAtBottom DEF PermissionInv
<1>4. Duty(calls) = Register(c)
  BY <1>1, <1>2, <1>3, SingleDuty
<1>5. Duty(calls') = NoDuty
  BY <1>3, EmptyDuty DEF RegisterClient
<1>6. phase' = [phase EXCEPT ![c] = "in"] /\ UNCHANGED <<mode, sizes, last, armed>>
  BY DEF RegisterClient, arbVars
<1> HIDE DEF c
<1>7. \A k \in Clients : (Register(c) = Register(k) <=> k = c) /\ NoDuty # Register(k)
  BY DEF NoDuty, Register
<1>8. \A k \in Clients : (phase'[k] = "in") <=> (phase[k] = "in" \/ Joining(k))
  BY <1>1, <1>4, <1>6, <1>7 DEF Joining, TypeInv, TypeOK
<1>9. WeighedInv'
  BY <1>5, <1>6, <1>7, <1>8 DEF ArbiterInv, WeighedInv, Joining
<1>10. RectangleInv'
  BY <1>6 DEF ArbiterInv, RectangleInv, Members, Arbitrate
<1> QED BY <1>9, <1>10 DEF ArbiterInv

LEMMA PromoteWeighs ==
  ASSUME TypeInv, PermissionInv, ArbiterInv, PromoteNext
  PROVE  ArbiterInv'
<1>1. calls \in Seq(Call) /\ calls # <<>> /\ Head(calls).op = "promote" /\ Head(calls) \in Call
  BY HeadTypes DEF PromoteNext, Running, TypeInv, TypeOK
<1>2. Head(calls) = Promote
  BY <1>1 DEF Call, Promote
<1>3. calls = <<Promote>> /\ Tail(calls) = <<>>
  BY <1>1, <1>2, AloneAtBottom DEF PermissionInv
<1>4. Duty(calls) = Promote
  BY <1>1, <1>2, <1>3, SingleDuty
<1>5. \A k \in Clients : Promote # Register(k) /\ NoDuty # Register(k)
  BY DEF NoDuty, Promote, Register
<1>6. CASE Candidates(Registered) = {}
  <2>1. calls' = <<>> /\ UNCHANGED <<phase, mode, sizes, last, armed>>
    BY <1>3, <1>6 DEF PromoteNext, arbVars
  <2>2. Duty(calls') = NoDuty
    BY <2>1, EmptyDuty
  <2> QED BY <1>4, <1>5, <2>1, <2>2
          DEF ArbiterInv, WeighedInv, RectangleInv, Joining, Members, Arbitrate
<1>7. ASSUME NEW c \in Candidates(Registered), mode' = [mode EXCEPT ![c] = "rw"],
             Recalc([sizes EXCEPT ![c] = hello[c]], Registered, Tail(calls)), phase' = phase
      PROVE  ArbiterInv'
  <2>1. c \in Clients /\ phase[c] = "in" /\ hello[c] \in ArbiterDims
    BY DEF Candidates, Registered, TypeInv, TypeOK
  <2>2. hello[c] # ZeroDims
    BY <2>1, DimsTypes DEF Dims, ZeroDims
  <2>3. [sizes EXCEPT ![c] = hello[c]] \in Sizes /\ Registered \in SUBSET Clients
    BY <2>1, TypeParts DEF HubTypes, Sizes, Registered
  <2>4. /\ sizes' = [sizes EXCEPT ![c] = hello[c]] /\ RectangleInv' /\ Duty(calls') = NoDuty
    BY <1>3, <1>7, <2>3, EmptyCalls, EmptyDuty, RecalcRectangle, RecalcDuty
  <2>5. ASSUME NEW k \in Clients
        PROVE  sizes'[k] # ZeroDims <=> phase[k] = "in" /\ Participates(mode'[k])
    BY <1>4, <1>5, <1>7, <2>1, <2>2, <2>4
       DEF ArbiterInv, WeighedInv, Joining, Participates, TypeInv, TypeOK
  <2>6. WeighedInv'
    BY <1>5, <1>7, <2>4, <2>5 DEF WeighedInv, Joining
  <2> QED BY <2>4, <2>6 DEF ArbiterInv
<1>8. ASSUME NEW c \in Candidates(Registered), Remove(c, "kicked", calls)
      PROVE  ArbiterInv'
  <2>1. c \in Registered /\ c \in Clients /\ rwEligible[c]
    BY DEF Candidates, Registered
  <2>2. c # owner
    BY <1>4, <2>1 DEF PermissionInv, NoOwnerInv, OwnerInv
  <2> QED BY <1>1, <1>8, <2>1, <2>2, RemoveForgets DEF PermissionInv, ArbiterInv
<1> QED BY <1>6, <1>7, <1>8 DEF PromoteNext

LEMMA LoopWeighs ==
  ASSUME TypeInv, PermissionInv, ArbiterInv, NEW c \in Clients, FanOut(c) \/ PushDims(c)
  PROVE  ArbiterInv'
<1> DEFINE job == Head(calls)
<1>0. calls \in Seq(Call) /\ calls # <<>> /\ c \in Registered /\ armed' = armed
  BY DEF FanOut, PushDims, Running, TypeInv, TypeOK
<1>1. CASE FanOut(c)
  <2>1. /\ Offer(c, Output(job.n), Loop(Fan(job.n, job.todo \ {c}), Tail(calls)))
        /\ job.op = "fan"
    BY <1>1 DEF FanOut, Running
  <2>2. Fan(job.n, job.todo \ {c}) \in Call /\ Fan(job.n, job.todo \ {c}).op = "fan"
    <3>1. job.n \in Nat /\ job.todo \ {c} \in SUBSET Clients
      BY <1>0, <1>1, HeadTypes DEF FanOut
    <3> QED BY <3>1, JobTypes DEF Fan
  <2> QED BY <1>0, <2>1, <2>2, LoopKeepsDuty, OfferWeighs
<1>2. CASE PushDims(c)
  <2>1. /\ Offer(c, Welcome(mode[c], job.dims), Loop(Push(job.dims, job.todo \ {c}), Tail(calls)))
        /\ job.op = "push"
    BY <1>2 DEF PushDims, Running
  <2>2. Push(job.dims, job.todo \ {c}) \in Call /\ Push(job.dims, job.todo \ {c}).op = "push"
    <3>1. job.dims \in Dims /\ job.todo \ {c} \in SUBSET Clients
      BY <1>0, <1>2, HeadTypes DEF PushDims
    <3> QED BY <3>1, JobTypes DEF Push
  <2> QED BY <1>0, <2>1, <2>2, LoopKeepsDuty, OfferWeighs
<1> QED BY <1>1, <1>2

LEMMA ArbiterStep == TypeInv /\ PermissionInv /\ ArbiterInv /\ [Next]_vars => ArbiterInv'
<1> SUFFICES ASSUME TypeInv, PermissionInv, ArbiterInv, [Next]_vars PROVE ArbiterInv'
  OBVIOUS
<1> USE DEF regVars, arbVars
<1>1. ASSUME NEW c \in Clients, Detach(c)
      PROVE  ArbiterInv'
  <2>1. c \in Registered /\ calls = <<>> /\ Remove(c, "detached", <<>>)
    BY <1>1 DEF Detach, Free
  <2> QED BY <2>1, EmptyDuty, EmptyCalls, RemoveForgets DEF ArbiterInv
<1>2. ASSUME NEW c \in Clients, NEW d \in HelloDims, ReportResize(c, d)
      PROVE  ArbiterInv'
  <2>1. /\ UNCHANGED <<phase, mode, calls>> /\ armed' = TRUE
        /\ sizes' = [sizes EXCEPT ![c] = d] /\ sizes[c] # ZeroDims
    BY <1>2 DEF ReportResize
  <2>2. d # ZeroDims
    BY DimsTypes DEF Dims, ZeroDims
  <2>3. \A k \in Clients : sizes'[k] # ZeroDims <=> sizes[k] # ZeroDims
    BY <2>1, <2>2 DEF TypeInv, TypeOK
  <2> QED BY <2>1, <2>3 DEF ArbiterInv, WeighedInv, RectangleInv, Joining
<1>3. CASE DebounceFires
  <2>1. calls = <<>> /\ Recalc(sizes, Registered, <<>>) /\ UNCHANGED <<phase, mode>>
    BY <1>3 DEF DebounceFires, Free
  <2>2. sizes \in Sizes /\ Registered \in SUBSET Clients
    BY TypeParts DEF HubTypes, Registered
  <2>3. sizes' = sizes /\ RectangleInv' /\ Duty(calls') = Duty(calls)
    BY <2>1, <2>2, EmptyDuty, EmptyCalls, RecalcRectangle, RecalcDuty
  <2> QED BY <2>1, <2>3 DEF ArbiterInv, WeighedInv, Joining
<1>4. CASE ReadChunk \/ Recheck
  <2>1. calls = <<>> /\ PassGate /\ UNCHANGED <<phase, mode, sizes, last, armed>>
    BY <1>4 DEF ReadChunk, Recheck, Free
  <2>2. Duty(calls') = Duty(calls)
    <3> DEFINE job == Fan(chunks + 1, Registered)
    <3>1. job \in Call /\ job.op = "fan"
      <4>1. chunks + 1 \in Nat /\ Registered \in SUBSET Clients
        BY DEF TypeInv, TypeOK, Registered
      <4> QED BY <4>1, JobTypes DEF Fan
    <3>2. <<job>> \o <<>> = <<job>>
      OBVIOUS
    <3>3. calls' \in {<<>>, <<job>>}
      BY <2>1, <3>2 DEF PassGate, Loop
    <3> HIDE DEF job
    <3> QED BY <2>1, <3>1, <3>3, EmptyDuty, SingleDuty
  <2> QED BY <2>1, <2>2, ArbiterKept
<1>5. CASE LoopDone
  <2>1. /\ calls \in Seq(Call) /\ calls # <<>> /\ Head(calls).op \in {"push", "fan"}
        /\ calls' = Tail(calls) /\ UNCHANGED <<phase, mode, sizes, last, armed>>
    BY <1>5 DEF LoopDone, Running, TypeInv, TypeOK
  <2> QED BY <2>1, TailDuty, ArbiterKept DEF PermissionInv
<1>6. ASSUME NEW c \in Clients, WriterStep(c)
      PROVE  ArbiterInv'
  <2>1. UNCHANGED <<phase, mode, sizes, last, armed, calls>>
    BY <1>6 DEF WriterStep, Drain, WriteFrame, WriteFails, AfterDrain
  <2> QED BY <2>1, ArbiterKept
<1>7. CASE UNCHANGED vars
  BY <1>7, ArbiterKept DEF vars
<1> QED
  BY <1>1, <1>2, <1>3, <1>4, <1>5, <1>6, <1>7, AttachWeighs, RegisterWeighs, PromoteWeighs,
     LoopWeighs DEF Next, HubStep

-----------------------------------------------------------------------------
\* Nobody who left weighs on the dimensions, whatever the policy and however
\* kicks, pushes and promotions nest (recalcNow, detach, kickSlowConsumerLocked).
THEOREM GhostsDoNotWeigh == Spec => []NoGhostMember
<1>1. ArbiterInv => NoGhostMember
  <2> SUFFICES ASSUME ArbiterInv, Free PROVE NoGhostMember
    BY DEF NoGhostMember
  <2>1. \A c \in Clients : ~Joining(c)
    BY EmptyDuty DEF Free, Joining, NoDuty, Register
  <2>2. Members(sizes) = {c \in Registered : Participates(mode[c])}
    BY <2>1 DEF ArbiterInv, WeighedInv, Members, Registered
  <2> QED BY <2>2 DEF ArbiterInv, RectangleInv, NoGhostMember
<1> QED
  BY <1>1, TypeInit, TypeStep, PermissionInit, PermissionStep, ArbiterInit, ArbiterStep, PTL
     DEF Spec
=============================================================================

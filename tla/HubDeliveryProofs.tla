------------------------- MODULE HubDeliveryProofs -------------------------
(***************************************************************************)
(* Proofs about what the hub delivers to its clients: the OUTPUT frames of *)
(* the fan-out, and the Welcome frames that tell dimensions and mode.      *)
(***************************************************************************)
EXTENDS HubRegistryProofs

-----------------------------------------------------------------------------
(* Queues of frames.                                                       *)

\* What is sent to c and not written yet.
Queue(c) == batch[c] \o outbox[c]

LEMMA FrameKinds ==
  ASSUME NEW f \in Frame
  PROVE  /\ f.kind \in {"O", "W"}
         /\ f.kind = "O" => f.n \in Nat /\ f = Output(f.n)
         /\ f.kind = "W" => f = Welcome(f.mode, f.dims)
BY DEF Frame, Output, Welcome

LEMMA ConcatAppend ==
  ASSUME NEW p \in Seq(Frame), NEW q \in Seq(Frame), NEW f \in Frame
  PROVE  /\ p \o Append(q, f) = Append(p \o q, f)
         /\ p \o q \in Seq(Frame)
         /\ <<>> \o q = q /\ p \o <<>> = p
         /\ p # <<>> => Tail(p \o q) = Tail(p) \o q /\ Head(p \o q) = Head(p) /\ p \o q # <<>>
OBVIOUS

LEMMA ConcatTwo ==
  ASSUME NEW b \in Seq(Frame), NEW q \in Seq(Frame), NEW f \in Frame, NEW g \in Frame
  PROVE  b \o (q \o <<f, g>>) = Append(Append(b \o q, f), g)
<1>1. q \o <<f, g>> = Append(Append(q, f), g)
  OBVIOUS
<1> DEFINE r == Append(q, f)
<1>2. r \in Seq(Frame)
  OBVIOUS
<1>3. b \o r = Append(b \o q, f)
  BY ConcatAppend
<1> HIDE DEF r
<1>4. b \o Append(r, g) = Append(b \o r, g)
  BY <1>2, ConcatAppend
<1> QED BY <1>1, <1>3, <1>4 DEF r

\* The OUTPUT frames of q carry the numbers from+1 to upto, in order.
Carries(q, from, upto) ==
  /\ from <= upto
  /\ \A i \in DOMAIN q : q[i].kind = "O" => from < q[i].n /\ q[i].n <= upto
  /\ \A i, j \in DOMAIN q : i < j /\ q[i].kind = "O" /\ q[j].kind = "O" => q[i].n < q[j].n
  /\ \A n \in Nat : from < n /\ n <= upto => \E i \in DOMAIN q : q[i] = Output(n)

LEMMA CarriesNothing ==
  ASSUME NEW from \in Nat
  PROVE  Carries(<<>>, from, from)
BY DEF Carries

LEMMA CarriesWelcome ==
  ASSUME NEW q \in Seq(Frame), NEW f \in Frame, f.kind # "O", NEW from \in Nat, NEW upto \in Nat,
         Carries(q, from, upto)
  PROVE  Carries(Append(q, f), from, upto)
<1> DEFINE r == Append(q, f)
<1>1. /\ DOMAIN r = 1..(Len(q) + 1) /\ DOMAIN q = 1..Len(q) /\ Len(q) \in Nat
      /\ r[Len(q) + 1] = f /\ \A i \in DOMAIN q : r[i] = q[i]
  OBVIOUS
<1> HIDE DEF r
<1>2. \A i \in DOMAIN r : r[i].kind = "O" => i \in DOMAIN q /\ r[i] = q[i]
  BY <1>1
<1>3. DOMAIN q \subseteq DOMAIN r
  BY <1>1
<1> QED BY <1>1, <1>2, <1>3 DEF Carries, r

LEMMA CarriesOutput ==
  ASSUME NEW q \in Seq(Frame), NEW from \in Nat, NEW upto \in Nat, Carries(q, from, upto)
  PROVE  Carries(Append(q, Output(upto + 1)), from, upto + 1)
<1> DEFINE f == Output(upto + 1)
           r == Append(q, f)
<1>1. /\ DOMAIN r = 1..(Len(q) + 1) /\ DOMAIN q = 1..Len(q) /\ Len(q) \in Nat
      /\ r[Len(q) + 1] = f /\ \A i \in DOMAIN q : r[i] = q[i]
  OBVIOUS
<1>2. f.kind = "O" /\ f.n = upto + 1
  BY DEF Output
<1>3. \A i \in DOMAIN q : q[i].kind = "O" => q[i].n \in Nat
  BY FrameKinds
<1> HIDE DEF r, f
<1>4. \A i \in DOMAIN r : r[i].kind = "O" => from < r[i].n /\ r[i].n <= upto + 1
  <2> SUFFICES ASSUME NEW i \in DOMAIN r, r[i].kind = "O"
               PROVE  from < r[i].n /\ r[i].n <= upto + 1
    OBVIOUS
  <2>1. CASE i = Len(q) + 1
    BY <1>1, <1>2, <2>1 DEF Carries
  <2>2. CASE i # Len(q) + 1
    <3>1. i \in DOMAIN q /\ r[i] = q[i]
      BY <1>1, <2>2
    <3> QED BY <1>3, <3>1 DEF Carries
  <2> QED BY <2>1, <2>2
<1>5. ASSUME NEW i \in DOMAIN r, NEW j \in DOMAIN r, i < j, r[i].kind = "O", r[j].kind = "O"
      PROVE  r[i].n < r[j].n
  <2>1. i \in DOMAIN q /\ r[i] = q[i]
    BY <1>1, <1>5
  <2>2. CASE j = Len(q) + 1
    BY <1>1, <1>2, <1>3, <1>5, <2>1, <2>2 DEF Carries
  <2>3. CASE j # Len(q) + 1
    <3>1. j \in DOMAIN q /\ r[j] = q[j]
      BY <1>1, <2>3
    <3> QED BY <1>5, <2>1, <3>1 DEF Carries
  <2> QED BY <2>2, <2>3
<1>6. ASSUME NEW n \in Nat, from < n, n <= upto + 1
      PROVE  \E i \in DOMAIN r : r[i] = Output(n)
  <2>1. CASE n = upto + 1
    BY <1>1, <2>1 DEF f
  <2>2. CASE n # upto + 1
    <3>1. n <= upto
      BY <1>6, <2>2
    <3>2. PICK i \in DOMAIN q : q[i] = Output(n)
      BY <1>6, <3>1 DEF Carries
    <3> QED BY <1>1, <3>2
  <2> QED BY <2>1, <2>2
<1> QED BY <1>4, <1>5, <1>6 DEF Carries, r, f

\* The first OUTPUT frame of a queue is the next one, and the rest follow it.
LEMMA CarriesTail ==
  ASSUME NEW q \in Seq(Frame), q # <<>>, NEW from \in Nat, NEW upto \in Nat,
         Carries(q, from, upto)
  PROVE  /\ Head(q).kind # "O" => Carries(Tail(q), from, upto)
         /\ Head(q).kind = "O" => /\ Head(q) = Output(from + 1) /\ from + 1 <= upto
                                  /\ Carries(Tail(q), from + 1, upto)
<1> DEFINE r == Tail(q)
<1>1. /\ Len(q) \in Nat \ {0} /\ DOMAIN q = 1..Len(q) /\ DOMAIN r = 1..(Len(q) - 1)
      /\ \A i \in DOMAIN r : i + 1 \in DOMAIN q /\ r[i] = q[i + 1]
      /\ Head(q) = q[1] /\ 1 \in DOMAIN q
  OBVIOUS
<1>2. \A i \in DOMAIN q : q[i] \in Frame /\ (q[i].kind = "O" => q[i].n \in Nat)
  BY FrameKinds
<1> HIDE DEF r
<1>3. \A i \in DOMAIN q : i # 1 => \E j \in DOMAIN r : r[j] = q[i]
  <2> SUFFICES ASSUME NEW i \in DOMAIN q, i # 1 PROVE \E j \in DOMAIN r : r[j] = q[i]
    OBVIOUS
  <2>1. i - 1 \in DOMAIN r /\ (i - 1) + 1 = i
    BY <1>1
  <2> QED BY <1>1, <2>1
<1>4. \A i, j \in DOMAIN r : i < j /\ r[i].kind = "O" /\ r[j].kind = "O" => r[i].n < r[j].n
  <2> SUFFICES ASSUME NEW i \in DOMAIN r, NEW j \in DOMAIN r, i < j, r[i].kind = "O", r[j].kind = "O"
               PROVE  r[i].n < r[j].n
    OBVIOUS
  <2>1. i + 1 \in DOMAIN q /\ j + 1 \in DOMAIN q /\ i + 1 < j + 1
    BY <1>1
  <2> QED BY <1>1, <2>1 DEF Carries
<1>5. CASE Head(q).kind # "O"
  <2>1. \A n \in Nat : from < n /\ n <= upto => \E i \in DOMAIN r : r[i] = Output(n)
    <3> SUFFICES ASSUME NEW n \in Nat, from < n, n <= upto
                 PROVE  \E i \in DOMAIN r : r[i] = Output(n)
      OBVIOUS
    <3>1. PICK i \in DOMAIN q : q[i] = Output(n)
      BY DEF Carries
    <3>2. i # 1
      BY <1>1, <1>5, <3>1 DEF Output
    <3> QED BY <1>3, <3>1, <3>2
  <2>2. \A i \in DOMAIN r : r[i].kind = "O" => from < r[i].n /\ r[i].n <= upto
    BY <1>1 DEF Carries
  <2> QED BY <1>4, <1>5, <2>1, <2>2 DEF Carries, r
<1>6. CASE Head(q).kind = "O"
  <2>1. from < q[1].n /\ q[1].n <= upto /\ q[1].n \in Nat
    BY <1>1, <1>2, <1>6 DEF Carries
  <2>2. PICK i \in DOMAIN q : q[i] = Output(from + 1)
    BY <2>1 DEF Carries
  <2>3. q[1].n = from + 1
    <3>1. q[i].kind = "O" /\ q[i].n = from + 1
      BY <2>2 DEF Output
    <3>2. i = 1 \/ q[1].n < q[i].n
      BY <1>1, <1>6, <3>1 DEF Carries
    <3> QED BY <2>1, <3>1, <3>2
  <2>4. Head(q) = Output(from + 1)
    BY <1>1, <1>2, <1>6, <2>3, FrameKinds
  <2>5. \A n \in Nat : from + 1 < n /\ n <= upto => \E k \in DOMAIN r : r[k] = Output(n)
    <3> SUFFICES ASSUME NEW n \in Nat, from + 1 < n, n <= upto
                 PROVE  \E k \in DOMAIN r : r[k] = Output(n)
      OBVIOUS
    <3>1. PICK k \in DOMAIN q : q[k] = Output(n)
      BY DEF Carries
    <3>2. k # 1
      BY <2>3, <3>1 DEF Output
    <3> QED BY <1>3, <3>1, <3>2
  <2>6. ASSUME NEW k \in DOMAIN r, r[k].kind = "O"
        PROVE  from + 1 < r[k].n /\ r[k].n <= upto
    <3>1. k + 1 \in DOMAIN q /\ r[k] = q[k + 1] /\ 1 < k + 1
      BY <1>1
    <3>2. q[1].n < q[k + 1].n /\ q[k + 1].n <= upto
      BY <1>1, <1>6, <2>6, <3>1 DEF Carries
    <3> QED BY <2>3, <3>1, <3>2
  <2>7. from + 1 <= upto
    BY <2>1, <2>3
  <2> QED BY <1>4, <1>6, <2>4, <2>5, <2>6, <2>7 DEF Carries, r
<1> QED BY <1>5, <1>6

-----------------------------------------------------------------------------
(* The fan-out at the bottom of the stack.                                 *)

NoFan == Fan(0, {})

FanOf(s) == IF s # <<>> /\ s[Len(s)].op = "fan" THEN s[Len(s)] ELSE NoFan

\* The fan-out in progress has not reached c yet.
Fanning(c) == c \in FanOf(calls).todo

LEMMA EmptyFan == FanOf(<<>>) = NoFan /\ NoFan.todo = {}
BY DEF FanOf, NoFan, Fan

LEMMA SingleFan ==
  ASSUME NEW job \in Call
  PROVE  FanOf(<<job>>) = IF job.op = "fan" THEN job ELSE NoFan
BY DEF FanOf

LEMMA FanTodo ==
  ASSUME NEW s \in Seq(Call)
  PROVE  FanOf(s).todo \in SUBSET Clients
<1>1. CASE s # <<>> /\ s[Len(s)].op = "fan"
  <2>1. s[Len(s)] \in Call
    BY <1>1
  <2> QED BY <1>1, <2>1 DEF FanOf, Call
<1>2. CASE ~(s # <<>> /\ s[Len(s)].op = "fan")
  BY <1>2, EmptyFan DEF FanOf
<1> QED BY <1>1, <1>2

LEMMA PushFan ==
  ASSUME NEW job \in Call, job.op = "push", NEW s \in Seq(Call)
  PROVE  FanOf(Loop(job, s)) = FanOf(s)
<1>1. CASE job.todo = {}
  BY <1>1 DEF Loop
<1>2. CASE job.todo # {} /\ s = <<>>
  <2>1. Loop(job, s) = <<job>>
    BY <1>2 DEF Loop
  <2> QED BY <1>2, <2>1, SingleFan, EmptyFan
<1>3. CASE job.todo # {} /\ s # <<>>
  <2> DEFINE t == <<job>> \o s
  <2>1. t # <<>> /\ t[Len(t)] = s[Len(s)]
    BY <1>3
  <2>2. Loop(job, s) = t
    BY <1>3 DEF Loop
  <2> HIDE DEF t
  <2> QED BY <1>3, <2>1, <2>2 DEF FanOf
<1> QED BY <1>1, <1>2, <1>3

LEMMA TailFan ==
  ASSUME NEW s \in Seq(Call), s # <<>>, Head(s).op = "push"
  PROVE  FanOf(Tail(s)) = FanOf(s)
<1> DEFINE t == Tail(s)
<1>1. Len(t) = Len(s) - 1 /\ Len(s) \in Nat \ {0} /\ t \in Seq(Call)
      /\ \A i \in 1..Len(t) : t[i] = s[i + 1]
  OBVIOUS
<1>2. CASE Len(s) = 1
  <2>1. Len(t) = 0 /\ s[Len(s)].op = "push"
    BY <1>1, <1>2
  <2> HIDE DEF t
  <2>2. t = <<>>
    BY <1>1, <2>1, EmptySeq
  <2> QED BY <2>1, <2>2 DEF FanOf, t
<1>3. CASE Len(s) # 1
  <2>1. Len(t) \in 1..Len(t) /\ Len(t) + 1 = Len(s) /\ Len(t) # 0
    BY <1>1, <1>3
  <2> HIDE DEF t
  <2>2. t # <<>> /\ t[Len(t)] = s[Len(s)]
    BY <1>1, <2>1, EmptySeq
  <2> QED BY <2>2 DEF FanOf, t
<1> QED BY <1>2, <1>3

LEMMA RecalcFan ==
  ASSUME NEW sz \in Sizes, NEW reg \in SUBSET Clients, NEW rest \in Seq(Call),
         Recalc(sz, reg, rest)
  PROVE  FanOf(calls') = FanOf(rest)
<1>1. CASE Arbitrate(sz) \in {ZeroDims, last}
  BY <1>1 DEF Recalc
<1>2. CASE Arbitrate(sz) \notin {ZeroDims, last}
  <2>1. Push(Arbitrate(sz), reg) \in Call
    BY <1>2, ArbitrateType, JobTypes
  <2>2. Push(Arbitrate(sz), reg).op = "push"
    BY DEF Push
  <2>3. calls' = Loop(Push(Arbitrate(sz), reg), rest)
    BY <1>2 DEF Recalc
  <2> QED BY <2>1, <2>2, <2>3, PushFan
<1> QED BY <1>1, <1>2

\* Clients are removed outside of a fan-out, or by it with the rest left to do.
LEMMA RemoveFan ==
  ASSUME TypeInv, NEW c \in Registered, NEW fate, NEW rest \in Seq(Call),
         owner = c => rest = <<>>, Remove(c, fate, rest)
  PROVE  FanOf(calls') = FanOf(rest)
<1> DEFINE next == IF owner = c THEN <<Promote>> \o rest ELSE rest
<1>1. Without(sizes, c) \in Sizes /\ Registered \ {c} \in SUBSET Clients
  BY WithoutType, TypeParts DEF HubTypes, Registered
<1>2. next \in Seq(Call) /\ FanOf(next) = FanOf(rest)
  <2>1. CASE owner = c
    <3>1. next = <<Promote>> /\ Promote \in Call /\ Promote.op = "promote"
      BY <2>1, JobTypes DEF Promote
    <3>2. <<Promote>> \in Seq(Call)
      BY <3>1
    <3> HIDE DEF next
    <3> QED BY <2>1, <3>1, <3>2, SingleFan, EmptyFan
  <2> QED BY <2>1
<1>3. Recalc(Without(sizes, c), Registered \ {c}, next)
  BY DEF Remove
<1> HIDE DEF next
<1> QED BY <1>1, <1>2, <1>3, RecalcFan

LEMMA OfferFan ==
  ASSUME TypeInv, PermissionInv, NEW c \in Registered, NEW f, NEW rest \in Seq(Call),
         Offer(c, f, rest)
  PROVE  FanOf(calls') = FanOf(rest)
<1>1. CASE Expendable(c) /\ Remove(c, "kicked", rest)
  BY <1>1, ExpendableIsNotOwner, RemoveFan
<1>2. CASE calls' = rest
  BY <1>2
<1> QED BY <1>1, <1>2 DEF Offer, KickOrCredit

-----------------------------------------------------------------------------
(* Writer goroutines.                                                      *)

\* A goroutine holds frames only while it writes, and a client that has not
\* attached yet has none.
IdleInv ==
  \A c \in Clients :
    /\ wpc[c] # "write" => batch[c] = <<>>
    /\ phase[c] = "new" => outbox[c] = <<>> /\ wpc[c] = "idle" /\ recv[c] = <<>>

LEMMA IdleKept ==
  ASSUME IdleInv, UNCHANGED <<wpc, batch, recv>>,
         \A c \in Clients : phase'[c] = "new" => phase[c] = "new" /\ outbox'[c] = outbox[c]
  PROVE  IdleInv'
BY DEF IdleInv

LEMMA OfferIdle ==
  ASSUME TypeInv, IdleInv, NEW c \in Registered, NEW f, NEW rest, Offer(c, f, rest),
         UNCHANGED <<wpc, batch, recv>>
  PROVE  IdleInv'
<1>1. c \in Clients /\ phase[c] = "in"
  BY DEF Registered
<1>2. phase' \in {phase, [phase EXCEPT ![c] = "kicked"]}
  BY DEF Offer, KickOrCredit, Remove, regVars
<1>3. outbox' \in {outbox, [outbox EXCEPT ![c] = Append(@, f)]}
  BY DEF Offer, Enqueue, boxVars
<1>4. \A k \in Clients : phase'[k] = "new" => phase[k] = "new" /\ outbox'[k] = outbox[k]
  BY <1>1, <1>2, <1>3 DEF TypeInv, TypeOK
<1> QED BY <1>4, IdleKept

LEMMA IdleStep == TypeInv /\ IdleInv /\ [Next]_vars => IdleInv'
<1> SUFFICES ASSUME TypeInv, IdleInv, [Next]_vars PROVE IdleInv'
  OBVIOUS
<1> USE DEF regVars, boxVars, wireVars
<1>1. ASSUME \/ \E c \in Clients, t \in Tickets, d \in HelloDims : Attach(c, t, d)
             \/ \E c \in Clients, d \in HelloDims : ReportResize(c, d)
             \/ DebounceFires \/ LoopDone \/ ReadChunk \/ Recheck \/ UNCHANGED vars
      PROVE  IdleInv'
  <2>1. UNCHANGED <<phase, outbox, wpc, batch, recv>>
    BY <1>1 DEF Attach, ReportResize, DebounceFires, LoopDone, ReadChunk, Recheck, vars
  <2> QED BY <2>1, IdleKept
<1>2. CASE RegisterClient
  <2> DEFINE c == Head(calls).client
  <2>1. /\ UNCHANGED <<wpc, batch, recv>> /\ phase' = [phase EXCEPT ![c] = "in"]
        /\ outbox' = [outbox EXCEPT ![c] = Append(@, Welcome(mode[c], SessionDims))]
    BY <1>2 DEF RegisterClient, Enqueue
  <2> HIDE DEF c
  <2>2. \A k \in Clients : phase'[k] = "new" => phase[k] = "new" /\ outbox'[k] = outbox[k]
    BY <2>1 DEF TypeInv, TypeOK
  <2> QED BY <2>1, <2>2, IdleKept
<1>3. ASSUME NEW c \in Clients, Detach(c)
      PROVE  IdleInv'
  <2>1. UNCHANGED <<outbox, wpc, batch, recv>> /\ phase' = [phase EXCEPT ![c] = "detached"]
    BY <1>3 DEF Detach, Remove
  <2>2. \A k \in Clients : phase'[k] = "new" => phase[k] = "new"
    BY <2>1 DEF TypeInv, TypeOK
  <2> QED BY <2>1, <2>2, IdleKept
<1>4. ASSUME NEW c \in Clients, FanOut(c)
      PROVE  IdleInv'
  BY <1>4, OfferIdle DEF FanOut
<1>5. ASSUME NEW c \in Clients, PushDims(c)
      PROVE  IdleInv'
  BY <1>5, OfferIdle DEF PushDims
<1>6. CASE PromoteNext
  <2>0. UNCHANGED <<wpc, batch, recv>>
    BY <1>6 DEF PromoteNext
  <2>1. CASE UNCHANGED <<phase, outbox>>
    BY <2>0, <2>1, IdleKept
  <2>2. ASSUME NEW c \in Candidates(Registered), NEW f,
               \/ phase' = phase /\ outbox' = [outbox EXCEPT ![c] = Append(@, f)]
               \/ phase' = [phase EXCEPT ![c] = "kicked"] /\ outbox' = outbox
        PROVE  IdleInv'
    <3>1. c \in Clients /\ phase[c] = "in"
      BY DEF Candidates, Registered
    <3>2. \A k \in Clients : phase'[k] = "new" => phase[k] = "new" /\ outbox'[k] = outbox[k]
      BY <2>2, <3>1 DEF TypeInv, TypeOK
    <3> QED BY <2>0, <3>2, IdleKept
  <2> QED BY <1>6, <2>1, <2>2 DEF PromoteNext, Remove, Enqueue
<1>7. ASSUME NEW c \in Clients, WriterStep(c)
      PROVE  IdleInv'
  <2>1. phase' = phase
    BY <1>7 DEF WriterStep, Drain, WriteFrame, WriteFails, AfterDrain
  <2>2. \A k \in Clients \ {c} : wpc'[k] = wpc[k] /\ batch'[k] = batch[k]
                                 /\ outbox'[k] = outbox[k] /\ recv'[k] = recv[k]
    BY <1>7 DEF WriterStep, Drain, WriteFrame, WriteFails, AfterDrain, TypeInv, TypeOK
  <2>3. phase[c] # "new"
    BY <1>7 DEF WriterStep, Drain, WriteFrame, WriteFails, AfterDrain, IdleInv
  <2>4. wpc'[c] # "write" => batch'[c] = <<>>
    <3>1. CASE WriteFrame(c)
      <4>1. batch[c] \in Seq(Frame) /\ batch[c] # <<>>
        BY <3>1 DEF WriteFrame, TypeInv, TypeOK
      <4> DEFINE rest == Tail(batch[c])
      <4>2. rest \in Seq(Frame) /\ Len(rest) = Len(batch[c]) - 1
        BY <4>1
      <4> HIDE DEF rest
      <4>3. Len(batch[c]) = 1 => Len(rest) = 0
        BY <4>2
      <4>4. Len(batch[c]) = 1 => rest = <<>>
        BY <4>2, <4>3, EmptySeq
      <4> QED BY <3>1, <4>4 DEF WriteFrame, TypeInv, TypeOK, rest
    <3>2. CASE Drain(c) \/ WriteFails(c) \/ AfterDrain(c)
      BY <3>2 DEF Drain, WriteFails, AfterDrain, TypeInv, TypeOK, IdleInv
    <3> QED BY <1>7, <3>1, <3>2 DEF WriterStep
  <2> QED BY <2>1, <2>2, <2>3, <2>4 DEF IdleInv
<1> QED BY <1>1, <1>2, <1>3, <1>4, <1>5, <1>6, <1>7 DEF Next, HubStep

LEMMA IdleInit == Init => IdleInv
BY DEF Init, IdleInv

-----------------------------------------------------------------------------
(* The fan-out and the credits.                                            *)

\* Nobody can use up a credit in the middle of a fan-out: the session is read-only,
\* or there is one writer and no RESIZE for a nested push to apply.
Calm == Writable => ~AllWrite /\ MaxResizes = 0

\* The fan-out in progress is that of the last chunk; in a calm session it is
\* alone in its critical section, and reaches nobody whose credit is used up.
FanInv ==
  /\ FanOf(calls).todo # {} => FanOf(calls).n = chunks /\ chunks # 0
  /\ ~Writable => \A c \in Clients : mode[c] = "ro"
  /\ Writable /\ Calm =>
       /\ ~armed
       /\ FanOf(calls).todo # {} => Len(calls) = 1
       /\ \A c \in FanOf(calls).todo \cap Registered : ~blocked[c]

LEMMA FanInit == Init => FanInv
BY EmptyFan DEF Init, FanInv

\* Outside of a fan-out.
LEMMA FanOver ==
  ASSUME FanInv, FanOf(calls').todo = {}, armed' => armed, mode' = mode
  PROVE  FanInv'
BY DEF FanInv

\* A kick in a calm fan-out takes a spectator, who does not weigh: no push.
LEMMA KickIsQuiet ==
  ASSUME TypeInv, PermissionInv, ArbiterInv, FanInv, Writable, Calm,
         NEW c \in Registered, Expendable(c), NEW rest \in Seq(Call), OnlyPushesAbove(rest),
         Remove(c, "kicked", rest)
  PROVE  calls' = rest
<1>1. c \in Clients /\ phase[c] = "in" /\ c # owner
  BY ExpendableIsNotOwner DEF Registered
<1>2. OwnerInv
  BY DEF Calm, PermissionInv, Policy
<1>3. mode[c] # "rw"
  BY <1>1, <1>2 DEF OwnerInv, Writers
<1>4. sizes[c] = ZeroDims
  BY <1>1, <1>3 DEF ArbiterInv, WeighedInv, Participates
<1>5. Without(sizes, c) = sizes
  BY <1>1, <1>4 DEF Without, TypeInv, TypeOK
<1>6. Arbitrate(sizes) \in {ZeroDims, last}
  <2>1. ~armed
    BY DEF FanInv
  <2>2. Members(sizes) = {} => Arbitrate(sizes) = ZeroDims
    BY DEF Arbitrate
  <2> QED BY <2>1, <2>2 DEF ArbiterInv, RectangleInv
<1>7. Recalc(sizes, Registered \ {c}, rest)
  BY <1>1, <1>5 DEF Remove
<1> QED BY <1>6, <1>7 DEF Recalc

\* The gate that a calm fan-out passed is open for the only writer there is.
LEMMA GateOpenForAll ==
  ASSUME TypeInv, CreditInv, PermissionInv, FanInv, Writable, Calm, ~GateClosed
  PROVE  \A c \in Registered : ~blocked[c]
<1> SUFFICES ASSUME NEW c \in Registered, blocked[c] PROVE FALSE
  OBVIOUS
<1>1. c \in Writers
  BY DEF CreditInv, Writers, Registered
<1>2. OwnerInv
  BY DEF Calm, PermissionInv, Policy
<1>3. \A k \in Writers : k = c
  BY <1>1, <1>2 DEF OwnerInv
<1> QED BY <1>1, <1>3 DEF GateClosed

LEMMA FanGate ==
  ASSUME TypeInv, CreditInv, PermissionInv, FanInv, calls = <<>>, PassGate,
         UNCHANGED <<phase, mode, blocked, armed>>
  PROVE  FanInv'
<1>1. CASE GateClosed
  BY <1>1, EmptyFan, FanOver DEF PassGate
<1>2. CASE ~GateClosed
  <2> DEFINE job == Fan(chunks + 1, Registered)
  <2>1. job \in Call /\ job.op = "fan" /\ job.n = chunks + 1 /\ job.todo = Registered
        /\ chunks + 1 \in Nat /\ chunks + 1 # 0
    <3>1. chunks + 1 \in Nat /\ chunks + 1 # 0 /\ Registered \in SUBSET Clients
      BY DEF TypeInv, TypeOK, Registered
    <3> QED BY <3>1, JobTypes DEF Fan
  <2>2. <<job>> \o <<>> = <<job>> /\ Len(<<job>>) = 1
    OBVIOUS
  <2>3. calls' = (IF Registered = {} THEN <<>> ELSE <<job>>) /\ chunks' = chunks + 1
    BY <1>2, <2>2 DEF PassGate, Loop, Fan
  <2>4. Registered' = Registered
    BY DEF Registered
  <2> HIDE DEF job
  <2>5. FanOf(<<job>>) = job
    BY <2>1, SingleFan
  <2>6. CASE Registered = {}
    BY <2>3, <2>6, EmptyFan, FanOver
  <2>7. CASE Registered # {}
    <3>1. calls' = <<job>> /\ FanOf(calls') = job
      BY <2>3, <2>5, <2>7
    <3>2. Writable /\ Calm => \A c \in Registered : ~blocked[c]
      BY <1>2, GateOpenForAll
    <3> QED BY <2>1, <2>2, <2>3, <2>4, <3>1, <3>2 DEF FanInv, Calm
  <2> QED BY <2>6, <2>7
<1> QED BY <1>1, <1>2

\* The fan-out hands its chunk to c, or leaves it out for good.
LEMMA FanIterates ==
  ASSUME TypeInv, PermissionInv, NEW c \in Clients, FanOut(c)
  PROVE  /\ FanOf(calls) = Head(calls) /\ calls = <<Head(calls)>> /\ c \in FanOf(calls).todo
         /\ FanOf(calls').todo = FanOf(calls).todo \ {c}
         /\ FanOf(calls').todo # {} => FanOf(calls').n = FanOf(calls).n
         /\ Offer(c, Output(FanOf(calls).n), Loop(Fan(FanOf(calls).n, FanOf(calls).todo \ {c}), <<>>))
         /\ Loop(Fan(FanOf(calls).n, FanOf(calls).todo \ {c}), <<>>) \in Seq(Call)
         /\ Len(Loop(Fan(FanOf(calls).n, FanOf(calls).todo \ {c}), <<>>)) <= 1
         /\ OnlyPushesAbove(Loop(Fan(FanOf(calls).n, FanOf(calls).todo \ {c}), <<>>))
<1> DEFINE job == Head(calls)
           next == Fan(job.n, job.todo \ {c})
<1>1. calls \in Seq(Call) /\ calls # <<>> /\ job.op = "fan" /\ c \in Registered /\ c \in job.todo
  BY DEF FanOut, Running, TypeInv, TypeOK
<1>2. job.n \in Nat /\ job.todo \in SUBSET Clients /\ job \in Call
  BY <1>1, HeadTypes DEF Running
<1>3. calls = <<job>> /\ Tail(calls) = <<>>
  BY <1>1, AloneAtBottom DEF PermissionInv
<1>4. FanOf(calls) = job
  BY <1>1, <1>2, <1>3, SingleFan
<1>5. next \in Call /\ next.op = "fan" /\ next.todo = job.todo \ {c} /\ next.n = job.n
  <2>1. job.todo \ {c} \in SUBSET Clients
    BY <1>2
  <2> QED BY <1>2, <2>1, JobTypes DEF Fan
<1>6. Offer(c, Output(job.n), Loop(next, <<>>))
  BY <1>3 DEF FanOut
<1> HIDE DEF next
<1>7. <<next>> \o <<>> = <<next>> /\ Len(<<next>>) <= 1 /\ Len(<<>>) <= 1
  OBVIOUS
<1>8. Loop(next, <<>>) = IF job.todo \ {c} = {} THEN <<>> ELSE <<next>>
  BY <1>5, <1>7 DEF Loop
<1>9. Loop(next, <<>>) \in Seq(Call) /\ OnlyPushesAbove(Loop(next, <<>>))
      /\ Len(Loop(next, <<>>)) <= 1
  <2>1. <<next>> \in Seq(Call) /\ OnlyPushesAbove(<<next>>)
    BY <1>5, SingleDuty
  <2>2. OnlyPushesAbove(<<>>)
    BY EmptyDuty
  <2>3. CASE Loop(next, <<>>) = <<>>
    BY <1>7, <2>2, <2>3, EmptyCalls, Zenon
  <2>4. CASE Loop(next, <<>>) = <<next>>
    BY <1>7, <2>1, <2>4, Zenon
  <2> QED BY <1>8, <2>3, <2>4
<1>10. FanOf(calls') = FanOf(Loop(next, <<>>))
  BY <1>1, <1>6, <1>9, OfferFan
<1>11. FanOf(<<next>>) = next
  BY <1>5, SingleFan
<1>12. FanOf(calls').todo = job.todo \ {c} /\ (FanOf(calls').todo # {} => FanOf(calls').n = job.n)
  BY <1>5, <1>8, <1>10, <1>11, EmptyFan
<1> QED BY <1>1, <1>3, <1>4, <1>6, <1>9, <1>12 DEF next

\* Pushes leave the fan-out below alone.
LEMMA PushIterates ==
  ASSUME TypeInv, PermissionInv, NEW c \in Clients, PushDims(c)
  PROVE  FanOf(calls') = FanOf(calls)
<1> DEFINE job == Head(calls)
           next == Push(job.dims, job.todo \ {c})
<1>1. /\ calls \in Seq(Call) /\ calls # <<>> /\ job.op = "push" /\ c \in Registered
      /\ Offer(c, Welcome(mode[c], job.dims), Loop(next, Tail(calls)))
  BY DEF PushDims, Running, TypeInv, TypeOK
<1>2. next \in Call /\ next.op = "push" /\ Tail(calls) \in Seq(Call)
  <2>1. job.dims \in Dims /\ job.todo \ {c} \in SUBSET Clients /\ Tail(calls) \in Seq(Call)
    BY <1>1, HeadTypes DEF Running
  <2> QED BY <2>1, JobTypes DEF Push
<1> HIDE DEF next
<1>3. Loop(next, Tail(calls)) \in Seq(Call)
  BY <1>2, LoopType
<1>4. FanOf(calls') = FanOf(Loop(next, Tail(calls)))
  BY <1>1, <1>3, OfferFan
<1> QED BY <1>1, <1>2, <1>4, PushFan, TailFan

\* Operations that are not fan-outs.
LEMMA OtherBottom ==
  ASSUME TypeInv, PermissionInv
  PROVE  /\ Free => FanOf(calls) = NoFan
         /\ Running("register") \/ Running("promote") => FanOf(calls) = NoFan
<1>1. ASSUME Running("register") \/ Running("promote")
      PROVE  FanOf(calls) = NoFan
  <2>1. calls \in Seq(Call) /\ calls # <<>> /\ Head(calls).op \in {"register", "promote"}
        /\ Head(calls) \in Call
    BY <1>1, HeadTypes DEF Running, TypeInv, TypeOK
  <2>2. calls = <<Head(calls)>>
    BY <2>1, AloneAtBottom DEF PermissionInv
  <2> QED BY <2>1, <2>2, SingleFan
<1> QED BY <1>1, EmptyFan DEF Free

\* Every other step keeps the fan-out in progress, or it is over.
LEMMA FanElsewhere ==
  ASSUME TypeInv, PermissionInv, [Next]_vars, \A c \in Clients : ~FanOut(c), ~ReadChunk, ~Recheck
  PROVE  FanOf(calls') = FanOf(calls)
         \/ (LoopDone /\ FanOf(calls') = NoFan /\ FanOf(calls).todo \cap Registered = {})
<1> USE DEF regVars, arbVars
<1>1. ASSUME NEW c \in Clients, NEW t \in Tickets, NEW d \in HelloDims, Attach(c, t, d)
      PROVE  FanOf(calls') = FanOf(calls)
  <2>1. FanOf(calls) = NoFan
    BY <1>1, OtherBottom DEF Attach
  <2>2. Register(c) \in Call /\ Register(c).op = "register" /\ <<Register(c)>> \in Seq(Call)
    BY JobTypes DEF Register
  <2>3. FanOf(<<Register(c)>>) = NoFan
    BY <2>2, SingleFan
  <2>4. [sizes EXCEPT ![c] = d] \in Sizes /\ Registered \in SUBSET Clients
    BY TypeParts DEF HubTypes, Sizes, ArbiterDims, Registered
  <2>5. \/ Recalc([sizes EXCEPT ![c] = d], Registered, <<Register(c)>>)
        \/ calls' = <<Register(c)>>
    BY <1>1 DEF Attach
  <2> QED BY <2>1, <2>2, <2>3, <2>4, <2>5, RecalcFan
<1>2. CASE RegisterClient
  <2>1. calls \in Seq(Call) /\ calls # <<>> /\ Head(calls).op = "register" /\ calls' = Tail(calls)
    BY <1>2 DEF RegisterClient, Running, TypeInv, TypeOK
  <2>2. calls' = <<>>
    BY <2>1, AloneAtBottom DEF PermissionInv
  <2> QED BY <1>2, <2>2, OtherBottom, EmptyFan DEF RegisterClient
<1>3. ASSUME NEW c \in Clients, Detach(c)
      PROVE  FanOf(calls') = FanOf(calls)
  <2>1. c \in Registered /\ calls = <<>> /\ Remove(c, "detached", <<>>)
    BY <1>3 DEF Detach, Free
  <2> QED BY <2>1, EmptyCalls, RemoveFan
<1>4. CASE DebounceFires
  <2>1. calls = <<>> /\ Recalc(sizes, Registered, <<>>)
    BY <1>4 DEF DebounceFires, Free
  <2>2. sizes \in Sizes /\ Registered \in SUBSET Clients
    BY TypeParts DEF HubTypes, Registered
  <2> QED BY <2>1, <2>2, EmptyCalls, RecalcFan
<1>5. CASE LoopDone
  <2>1. calls \in Seq(Call) /\ calls # <<>> /\ calls' = Tail(calls)
    BY <1>5 DEF LoopDone, Running, TypeInv, TypeOK
  <2>2. CASE Head(calls).op = "push"
    BY <2>1, <2>2, TailFan
  <2>3. CASE Head(calls).op # "push"
    <3>1. Head(calls).op = "fan" /\ Head(calls).todo \cap Registered = {}
      BY <1>5, <2>3 DEF LoopDone, Running
    <3>2. calls = <<Head(calls)>> /\ calls' = <<>> /\ Head(calls) \in Call
      BY <2>1, <2>3, AloneAtBottom, HeadTypes DEF PermissionInv
    <3>3. FanOf(calls) = Head(calls)
      BY <3>1, <3>2, SingleFan
    <3> QED BY <1>5, <3>1, <3>2, <3>3, EmptyFan
  <2> QED BY <2>2, <2>3
<1>6. CASE PromoteNext
  <2>1. FanOf(calls) = NoFan /\ calls \in Seq(Call) /\ calls # <<>> /\ Head(calls).op = "promote"
    BY <1>6, OtherBottom DEF PromoteNext, Running, TypeInv, TypeOK
  <2>2. Tail(calls) = <<>> /\ calls = <<Head(calls)>> /\ Head(calls) = Promote
    <3>1. Tail(calls) = <<>> /\ calls = <<Head(calls)>> /\ Head(calls) \in Call
      BY <2>1, AloneAtBottom, HeadTypes DEF PermissionInv
    <3> QED BY <2>1, <3>1 DEF Call, Promote
  <2>3. CASE calls' = Tail(calls)
    BY <2>1, <2>2, <2>3, EmptyFan
  <2>4. ASSUME NEW c \in Candidates(Registered), Remove(c, "kicked", calls)
        PROVE  FanOf(calls') = NoFan
    <3>1. c \in Registered /\ c \in Clients /\ rwEligible[c]
      BY DEF Candidates, Registered
    <3>2. Duty(calls) = Promote
      BY <2>1, <2>2, HeadTypes, SingleDuty DEF Promote
    <3>3. c # owner
      BY <3>1, <3>2 DEF PermissionInv, NoOwnerInv, OwnerInv
    <3> QED BY <2>1, <2>4, <3>1, <3>3, RemoveFan
  <2>5. ASSUME NEW c \in Candidates(Registered),
               Recalc([sizes EXCEPT ![c] = hello[c]], Registered, Tail(calls))
        PROVE  FanOf(calls') = NoFan
    <3>1. [sizes EXCEPT ![c] = hello[c]] \in Sizes /\ Registered \in SUBSET Clients
      <4>1. c \in Clients /\ hello[c] \in ArbiterDims
        BY DEF Candidates, Registered, TypeInv, TypeOK
      <4> QED BY <4>1, TypeParts DEF HubTypes, Sizes, Registered
    <3> QED BY <2>2, <2>5, <3>1, EmptyCalls, EmptyFan, RecalcFan
  <2> QED BY <1>6, <2>1, <2>3, <2>4, <2>5 DEF PromoteNext
<1>7. ASSUME NEW c \in Clients, WriterStep(c) \/ \E d \in HelloDims : ReportResize(c, d)
      PROVE  calls' = calls
  BY <1>7 DEF WriterStep, Drain, WriteFrame, WriteFails, AfterDrain, ReportResize
<1>8. CASE UNCHANGED vars
  BY <1>8 DEF vars
<1>9. ASSUME NEW c \in Clients, PushDims(c)
      PROVE  FanOf(calls') = FanOf(calls)
  BY <1>9, PushIterates
<1> QED
  BY <1>1, <1>2, <1>3, <1>4, <1>5, <1>6, <1>7, <1>8, <1>9 DEF Next, HubStep

\* A refused frame is the only way to use up a credit.
LEMMA OfferCredits ==
  ASSUME TypeInv, NEW c \in Clients, NEW f, NEW rest, Offer(c, f, rest)
  PROVE  /\ mode' = mode
         /\ \A k \in Clients \ {c} : blocked'[k] = blocked[k]
         /\ \A k \in Clients : phase'[k] = "in" => phase[k] = "in"
BY DEF Offer, KickOrCredit, Remove, regVars, credVars, TypeInv, TypeOK

LEMMA FanStep ==
  TypeInv /\ CreditInv /\ PermissionInv /\ ArbiterInv /\ FanInv /\ [Next]_vars => FanInv'
<1> SUFFICES ASSUME TypeInv, CreditInv, PermissionInv, ArbiterInv, FanInv, [Next]_vars
             PROVE  FanInv'
  OBVIOUS
<1> USE DEF regVars, credVars, arbVars
<1>1. ASSUME NEW c \in Clients, FanOut(c)
      PROVE  FanInv'
  <2> DEFINE job == FanOf(calls)
             rest == Loop(Fan(job.n, job.todo \ {c}), <<>>)
  <2>1. /\ c \in Registered /\ UNCHANGED <<armed, chunks>>
        /\ c \in job.todo /\ FanOf(calls').todo = job.todo \ {c}
        /\ FanOf(calls').todo # {} => FanOf(calls').n = job.n
        /\ Offer(c, Output(job.n), rest)
        /\ rest \in Seq(Call) /\ Len(rest) <= 1 /\ OnlyPushesAbove(rest)
    BY <1>1, FanIterates DEF FanOut
  <2>10. Len(rest) = 0 \/ Len(rest) = 1
    <3> HIDE DEF rest
    <3>1. rest \in Seq(Call) /\ Len(rest) <= 1
      BY <2>1
    <3> HIDE <2>1
    <3>2. Len(rest) \in Nat
      BY <3>1
    <3>3. \A n \in Nat : n <= 1 => n = 0 \/ n = 1
      OBVIOUS
    <3> QED BY <3>1, <3>2, <3>3, Zenon
  <2> HIDE DEF job, rest
  <2>2. /\ mode' = mode
        /\ \A k \in Clients \ {c} : blocked'[k] = blocked[k]
        /\ \A k \in Clients : phase'[k] = "in" => phase[k] = "in"
    BY <2>1, OfferCredits
  <2>3. Writable /\ Calm => calls' = rest
    <3> SUFFICES ASSUME Writable, Calm PROVE calls' = rest
      OBVIOUS
    <3>1. CASE Expendable(c) /\ Remove(c, "kicked", rest)
      BY <2>1, <3>1, KickIsQuiet
    <3> QED BY <2>1, <3>1 DEF Offer, KickOrCredit
  <2>4. FanOf(calls').todo # {} => Len(rest) = 1 \/ calls' # rest
    <3>1. Len(rest) = 0 => rest = <<>>
      BY <2>1, EmptySeq
    <3>2. Len(rest) = 0 \/ Len(rest) = 1
      BY <2>10
    <3>3. calls' = <<>> => FanOf(calls').todo = {}
      BY EmptyFan
    <3> QED BY <3>1, <3>2, <3>3
  <2>5. Calm' = Calm
    BY DEF Calm
  <2>6. FanOf(calls').todo # {} => FanOf(calls').n = chunks' /\ chunks' # 0
    BY <2>1 DEF FanInv, job
  <2>7. ~Writable => \A k \in Clients : mode'[k] = "ro"
    BY <2>2 DEF FanInv
  <2>8. ASSUME Writable, Calm, NEW k \in FanOf(calls').todo, k \in Registered'
        PROVE  ~blocked'[k]
    <3>1. k \in FanOf(calls).todo /\ k # c /\ k \in Registered /\ k \in Clients
      BY <2>1, <2>2, <2>8 DEF Registered, job
    <3> QED BY <2>2, <2>8, <3>1 DEF FanInv
  <2>9. Writable /\ Calm => ~armed' /\ (FanOf(calls').todo # {} => Len(calls') = 1)
    BY <2>1, <2>3, <2>4 DEF FanInv
  <2> QED BY <2>5, <2>6, <2>7, <2>8, <2>9 DEF FanInv
<1>2. CASE ReadChunk \/ Recheck
  <2>1. calls = <<>> /\ PassGate /\ UNCHANGED <<phase, mode, blocked, armed>>
    BY <1>2 DEF ReadChunk, Recheck, Free
  <2> QED BY <2>1, FanGate
<1>3. ASSUME \A c \in Clients : ~FanOut(c), ~ReadChunk, ~Recheck
      PROVE  FanInv'
  <2>1. \/ FanOf(calls') = FanOf(calls)
        \/ FanOf(calls').todo = {}
    BY <1>3, FanElsewhere, EmptyFan
  <2>2. chunks' = chunks
    BY <1>3 DEF Next, HubStep, WriterStep, RegisterClient, PushDims, LoopDone, PromoteNext, Attach,
               ReportResize, Detach, Drain, WriteFrame, WriteFails, AfterDrain, DebounceFires, vars
  <2>3. Writable /\ Calm => ~armed'
    <3> SUFFICES ASSUME Writable, Calm PROVE ~armed'
      OBVIOUS
    <3>1. ASSUME NEW c \in Clients, NEW d \in HelloDims PROVE ~ReportResize(c, d)
      BY DEF ReportResize, Calm, TypeInv, TypeOK
    <3>2. armed' => armed
      BY <1>3, <3>1
         DEF Next, HubStep, WriterStep, RegisterClient, PushDims, LoopDone, PromoteNext, Attach,
             Detach, Drain, WriteFrame, WriteFails, AfterDrain, DebounceFires, vars
    <3> QED BY <3>2 DEF FanInv
  <2>4. ~Writable => \A c \in Clients : mode'[c] = "ro"
    <3> SUFFICES ASSUME ~Writable, NEW c \in Clients PROVE mode'[c] = "ro"
      OBVIOUS
    <3>1. mode[c] = "ro"
      BY DEF FanInv
    <3>2. ASSUME NEW k \in Clients, NEW t \in Tickets, NEW d \in HelloDims, Attach(k, t, d)
          PROVE  mode'[c] = "ro"
      <4>1. mode' = [mode EXCEPT ![k] = "ro"]
        BY <3>2 DEF Attach, EffectiveMode
      <4> QED BY <3>1, <4>1 DEF TypeInv, TypeOK
    <3>3. CASE PromoteNext
      <4>1. Candidates(Registered) = {}
        BY DEF PermissionInv, NoOwnerInv, Policy, Candidates, Registered
      <4> QED BY <3>1, <3>3, <4>1 DEF PromoteNext
    <3>4. ASSUME NEW k \in Clients, PushDims(k)
          PROVE  mode'[c] = "ro"
      BY <3>1, <3>4, OfferCredits DEF PushDims
    <3>5. CASE \/ RegisterClient \/ LoopDone \/ DebounceFires \/ UNCHANGED vars
               \/ \E k \in Clients : Detach(k) \/ WriterStep(k)
               \/ \E k \in Clients, d \in HelloDims : ReportResize(k, d)
      BY <3>1, <3>5 DEF RegisterClient, LoopDone, DebounceFires, vars, Detach, Remove, WriterStep,
                        Drain, WriteFrame, WriteFails, AfterDrain, ReportResize
    <3> QED BY <1>3, <3>2, <3>3, <3>4, <3>5 DEF Next, HubStep
  <2>5. ASSUME Writable, Calm, FanOf(calls).todo # {}, FanOf(calls') = FanOf(calls)
        PROVE  /\ Len(calls') = 1
               /\ \A c \in FanOf(calls).todo : c \in Registered' => ~blocked'[c]
    <3>1. Len(calls) = 1 /\ calls \in Seq(Call) /\ calls # <<>> /\ calls[Len(calls)].op = "fan"
      BY <2>5, EmptyFan DEF FanInv, FanOf, TypeInv, TypeOK
    <3>2. Head(calls).op = "fan" /\ ~Free
      BY <3>1 DEF Free
    <3>3. ~LoopDone
      <4> SUFFICES ASSUME LoopDone PROVE FALSE
        OBVIOUS
      <4>1. calls' = Tail(calls) /\ Tail(calls) \in Seq(Call) /\ Len(Tail(calls)) = 0
        BY <3>1 DEF LoopDone
      <4>2. calls' = <<>>
        BY <4>1, EmptySeq
      <4> QED BY <2>5, <4>2, EmptyFan
    <3>4. \/ \E k \in Clients : WriterStep(k)
          \/ UNCHANGED <<phase, blocked, calls>>
      BY <1>3, <3>2, <3>3 DEF Next, HubStep, RegisterClient, PushDims, PromoteNext, Running, Attach,
                              ReportResize, Detach, DebounceFires, vars
    <3>5. UNCHANGED <<phase, calls>> /\ \A c \in Clients : blocked'[c] => blocked[c]
      <4>1. \A k \in Clients : WriterStep(k) => UNCHANGED <<phase, calls>>
        BY DEF WriterStep, Drain, WriteFrame, WriteFails, AfterDrain
      <4>2. ASSUME NEW k \in Clients, WriterStep(k)
            PROVE  blocked' = blocked \/ blocked' = [blocked EXCEPT ![k] = FALSE]
        BY <4>2 DEF WriterStep, Drain, WriteFrame, WriteFails, AfterDrain
      <4>3. \A k \in Clients : WriterStep(k) => \A c \in Clients : blocked'[c] => blocked[c]
        BY <4>2 DEF TypeInv, TypeOK
      <4> QED BY <3>4, <4>1, <4>3
    <3>6. Registered' = Registered /\ FanOf(calls).todo \in SUBSET Clients
      BY <3>1, <3>5, FanTodo DEF Registered
    <3> QED BY <2>5, <3>1, <3>5, <3>6 DEF FanInv
  <2>6. Calm' = Calm
    BY DEF Calm
  <2>7. CASE FanOf(calls').todo = {}
    BY <2>3, <2>4, <2>6, <2>7 DEF FanInv
  <2>8. CASE FanOf(calls').todo # {}
    <3>1. FanOf(calls') = FanOf(calls)
      BY <2>1, <2>8
    <3> QED BY <2>2, <2>3, <2>4, <2>5, <2>6, <2>8, <3>1 DEF FanInv
  <2> QED BY <2>7, <2>8
<1> QED BY <1>1, <1>2, <1>3

-----------------------------------------------------------------------------
(* Streams.                                                                *)

\* The frame kept for c is OUTPUT.
Owed(c) == blocked[c] /\ pending[c].kind = "O"

\* The chunks c should have been given.
Due(c) == IF Fanning(c) THEN chunks - 1 ELSE chunks

\* What c received, what is queued for it and the frame it is owed are the
\* chunks from its attach to n.
StreamAt(c, n) ==
  /\ Owed(c) => pending[c] = Output(n) /\ n > 0
  /\ wpc[c] # "dead" => Carries(Queue(c), since[c] + Len(recv[c]), IF Owed(c) THEN n - 1 ELSE n)

Stream(c) ==
  /\ \A i \in DOMAIN recv[c] : recv[c][i] = since[c] + i
  /\ \E n \in Nat : n <= chunks /\ (phase[c] = "in" => n = Due(c)) /\ StreamAt(c, n)

\* A client that is never given credit in the middle of a fan-out that reaches it
\* again later: a spectator, or anyone in a calm session.
Followed(c) == phase[c] # "new" /\ (Calm \/ mode[c] = "ro")

StreamInv == \A c \in Clients : Followed(c) => Stream(c)

LEMMA QueueType ==
  ASSUME TypeInv, NEW c \in Clients
  PROVE  /\ batch[c] \in Seq(Frame) /\ outbox[c] \in Seq(Frame) /\ Queue(c) \in Seq(Frame)
         /\ since[c] + Len(recv[c]) \in Nat /\ recv[c] \in Seq(Nat) /\ since[c] \in Nat
         /\ chunks \in Nat
<1>1. batch[c] \in Seq(Frame) /\ outbox[c] \in Seq(Frame) /\ recv[c] \in Seq(Nat)
      /\ since[c] \in Nat /\ chunks \in Nat
  BY DEF TypeInv, TypeOK
<1>2. batch[c] \o outbox[c] \in Seq(Frame) /\ Len(recv[c]) \in Nat
  BY <1>1
<1> QED BY <1>1, <1>2 DEF Queue

LEMMA QueueGrows ==
  ASSUME TypeInv, NEW c \in Clients, NEW f \in Frame,
         outbox'[c] = Append(outbox[c], f), batch'[c] = batch[c]
  PROVE  Queue(c)' = Append(Queue(c), f)
<1> DEFINE p == batch[c]
           q == outbox[c]
<1>1. p \in Seq(Frame) /\ q \in Seq(Frame)
  BY QueueType
<1>2. Queue(c)' = p \o Append(q, f) /\ Queue(c) = p \o q
  BY DEF Queue
<1> HIDE DEF p, q
<1> QED BY <1>1, <1>2, ConcatAppend

\* The stream of c goes on as it was: c may have been told something, removed,
\* or given credit for what it was told.
LEMMA StreamKept ==
  ASSUME TypeInv, NEW c \in Clients, Stream(c),
         wpc'[c] = wpc[c], recv'[c] = recv[c], since'[c] = since[c], batch'[c] = batch[c],
         \/ outbox'[c] = outbox[c]
         \/ \E f \in Frame : f.kind # "O" /\ outbox'[c] = Append(outbox[c], f),
         \/ blocked'[c] = blocked[c] /\ pending'[c] = pending[c]
         \/ ~Owed(c) /\ ~Owed(c)',
         chunks' = chunks \/ chunks' = chunks + 1,
         phase'[c] = "in" => phase[c] = "in" /\ Due(c)' = Due(c)
  PROVE  Stream(c)'
<1> DEFINE from == since[c] + Len(recv[c])
<1>1. PICK n \in Nat : n <= chunks /\ (phase[c] = "in" => n = Due(c)) /\ StreamAt(c, n)
  BY DEF Stream
<1>2. n <= chunks'
  BY <1>1, QueueType
<1>3. Owed(c)' = Owed(c) /\ (Owed(c) => pending'[c] = pending[c])
  BY DEF Owed
<1>4. ASSUME NEW upto \in Nat, Carries(Queue(c), from, upto)
      PROVE  Carries(Queue(c)', from, upto)
  <2>1. CASE outbox'[c] = outbox[c]
    BY <1>4, <2>1 DEF Queue
  <2>2. ASSUME NEW f \in Frame, f.kind # "O", outbox'[c] = Append(outbox[c], f)
        PROVE  Carries(Queue(c)', from, upto)
    <3>1. Queue(c)' = Append(Queue(c), f)
      BY <2>2, QueueGrows
    <3>2. Queue(c) \in Seq(Frame) /\ from \in Nat
      BY QueueType
    <3> QED BY <1>4, <2>2, <3>1, <3>2, CarriesWelcome
  <2> QED BY <2>1, <2>2
<1>5. StreamAt(c, n)'
  <2> DEFINE upto == IF Owed(c) THEN n - 1 ELSE n
  <2>1. upto \in Nat
    BY <1>1 DEF StreamAt
  <2>2. upto' = upto
    BY <1>3
  <2>3. wpc[c] # "dead" => Carries(Queue(c), from, upto)
    BY <1>1 DEF StreamAt
  <2>4. wpc'[c] # "dead" => Carries(Queue(c)', since'[c] + Len(recv'[c]), upto)
    BY <1>4, <2>1, <2>3
  <2>5. Owed(c)' => pending'[c] = Output(n) /\ n > 0
    BY <1>1, <1>3 DEF StreamAt
  <2> QED BY <2>2, <2>4, <2>5 DEF StreamAt
<1> QED BY <1>1, <1>2, <1>5 DEF Stream

\* Its next frame, and only that, is what a client on the way of the fan-out gets.
LEMMA StreamHanded ==
  ASSUME TypeInv, CreditInv, PermissionInv, FanInv, NEW c \in Clients, FanOut(c),
         Followed(c), Stream(c)
  PROVE  Stream(c)'
<1> USE DEF regVars, boxVars, credVars, arbVars, wireVars
<1> DEFINE rest == Loop(Fan(FanOf(calls).n, FanOf(calls).todo \ {c}), <<>>)
<1>1. /\ c \in Registered /\ phase[c] = "in"
      /\ UNCHANGED <<chunks, wpc, batch, recv, since>>
  BY DEF FanOut, Registered
<1>2. /\ Fanning(c) /\ ~Fanning(c)' /\ FanOf(calls).n = chunks /\ chunks # 0
      /\ Offer(c, Output(chunks), rest)
  BY FanIterates DEF FanInv, Fanning
<1> HIDE DEF rest
<1>3. ~blocked[c]
  <2>1. CASE mode[c] = "ro"
    BY <2>1 DEF CreditInv
  <2>2. CASE Writable /\ Calm
    BY <1>1, <1>2, <2>2 DEF FanInv, Fanning
  <2>3. CASE ~Writable
    BY <2>3 DEF CreditInv, FanInv
  <2> QED BY <2>1, <2>2, <2>3 DEF Followed
<1>4. Due(c) = chunks - 1 /\ Due(c)' = chunks /\ chunks - 1 \in Nat /\ chunks \in Nat
      /\ chunks - 1 <= chunks /\ chunks > 0 /\ (chunks - 1) + 1 = chunks
  <2>1. chunks \in Nat
    BY QueueType
  <2> QED BY <1>1, <1>2, <2>1 DEF Due
<1>5. StreamAt(c, chunks - 1) /\ ~Owed(c)
  BY <1>1, <1>3, <1>4 DEF Stream, Owed
<1> DEFINE from == since[c] + Len(recv[c])
<1>6. wpc[c] # "dead" => Carries(Queue(c), from, chunks - 1)
  BY <1>5 DEF StreamAt
<1>7. CASE Enqueue(c, Output(chunks)) /\ UNCHANGED credVars
  <2>1. outbox'[c] = Append(outbox[c], Output(chunks)) /\ Output(chunks) \in Frame
    BY <1>4, <1>7, FrameTypes DEF Enqueue, TypeInv, TypeOK
  <2>2. Queue(c)' = Append(Queue(c), Output(chunks))
    BY <1>1, <2>1, QueueGrows
  <2>3. wpc[c] # "dead" => Carries(Queue(c)', from, chunks)
    <3>1. Queue(c) \in Seq(Frame) /\ from \in Nat
      BY QueueType
    <3> HIDE DEF from
    <3> QED BY <1>4, <1>6, <2>2, <3>1, CarriesOutput
  <2>4. ~Owed(c)'
    BY <1>3, <1>7 DEF Owed
  <2>5. StreamAt(c, chunks)'
    BY <1>1, <2>3, <2>4 DEF StreamAt
  <2> QED BY <1>1, <1>4, <2>5 DEF Stream
<1>8. CASE Remove(c, "kicked", rest) /\ UNCHANGED <<boxVars, credVars>>
  <2>1. phase'[c] # "in"
    BY <1>8 DEF Remove, TypeInv, TypeOK
  <2> QED BY <1>1, <1>8, <2>1, StreamKept
<1>9. CASE /\ blocked' = [blocked EXCEPT ![c] = TRUE]
           /\ pending' = [pending EXCEPT ![c] = Kept(c, Output(chunks))]
           /\ UNCHANGED <<regVars, boxVars>>
  <2>1. blocked'[c] /\ pending'[c] = Output(chunks) /\ Output(chunks).kind = "O"
    BY <1>3, <1>9 DEF Kept, TypeInv, TypeOK, Output
  <2>2. Owed(c)'
    BY <2>1 DEF Owed
  <2>3. Queue(c)' = Queue(c)
    BY <1>1, <1>9 DEF Queue
  <2>4. StreamAt(c, chunks)'
    BY <1>1, <1>4, <1>6, <2>1, <2>2, <2>3 DEF StreamAt
  <2> QED BY <1>1, <1>4, <2>4 DEF Stream
<1> QED BY <1>2, <1>7, <1>8, <1>9 DEF Offer, KickOrCredit

\* A Welcome for c, or a frame for somebody else, is no part of c's stream.
LEMMA StreamPassedBy ==
  ASSUME TypeInv, NEW k \in Clients, NEW c \in Clients, NEW f \in Frame, NEW rest,
         Offer(c, f, rest), k = c => f.kind # "O", Stream(k),
         UNCHANGED <<wpc, recv, since, batch, chunks>>,
         phase[k] = "in" => Due(k)' = Due(k)
  PROVE  Stream(k)'
<1> USE DEF regVars, boxVars, credVars, arbVars
<1>1. /\ \/ outbox'[k] = outbox[k]
         \/ \E g \in Frame : g.kind # "O" /\ outbox'[k] = Append(outbox[k], g)
      /\ phase'[k] = "in" => phase[k] = "in"
  <2>1. outbox' \in {outbox, [outbox EXCEPT ![c] = Append(@, f)]}
    BY DEF Offer, Enqueue
  <2>2. phase' \in {phase, [phase EXCEPT ![c] = "kicked"]}
    BY DEF Offer, KickOrCredit, Remove
  <2> QED BY <2>1, <2>2 DEF TypeInv, TypeOK
<1>2. \/ blocked'[k] = blocked[k] /\ pending'[k] = pending[k]
      \/ ~Owed(k) /\ ~Owed(k)'
  <2>1. CASE UNCHANGED credVars
    BY <2>1
  <2>2. CASE /\ blocked' = [blocked EXCEPT ![c] = TRUE]
             /\ pending' = [pending EXCEPT ![c] = Kept(c, f)]
    <3>1. k # c => blocked'[k] = blocked[k] /\ pending'[k] = pending[k]
      BY <2>2 DEF TypeInv, TypeOK
    <3>2. blocked'[c] /\ pending'[c] = Kept(c, f)
      BY <2>2 DEF TypeInv, TypeOK
    <3> QED BY <3>1, <3>2 DEF Kept, Owed, TypeInv, TypeOK
  <2> QED BY <2>1, <2>2 DEF Offer, KickOrCredit
<1> QED BY <1>1, <1>2, StreamKept

\* The goroutine of c takes the outbox over.
LEMMA StreamDrained ==
  ASSUME TypeInv, IdleInv, NEW c \in Clients, Drain(c), Stream(c)
  PROVE  Stream(c)'
<1> USE DEF regVars, credVars, arbVars
<1>1. /\ UNCHANGED <<phase, blocked, pending, calls, chunks, since, recv>>
      /\ batch'[c] = outbox[c] /\ outbox'[c] = <<>> /\ batch[c] = <<>> /\ wpc[c] # "dead"
  BY DEF Drain, IdleInv, TypeInv, TypeOK
<1>2. Queue(c)' = Queue(c)
  <2> DEFINE q == outbox[c]
  <2>1. q \in Seq(Frame)
    BY QueueType
  <2>2. Queue(c)' = q \o <<>> /\ Queue(c) = <<>> \o q
    BY <1>1 DEF Queue
  <2> HIDE DEF q
  <2> QED BY <2>1, <2>2
<1>3. PICK n \in Nat : n <= chunks /\ (phase[c] = "in" => n = Due(c)) /\ StreamAt(c, n)
  BY DEF Stream
<1>4. StreamAt(c, n)' /\ Due(c)' = Due(c)
  BY <1>1, <1>2, <1>3 DEF StreamAt, Owed, Due, Fanning
<1> QED BY <1>1, <1>3, <1>4 DEF Stream

\* What WriteFrame writes is the next chunk, or no chunk.
LEMMA StreamWritten ==
  ASSUME TypeInv, IdleInv, NEW c \in Clients, WriteFrame(c), Stream(c)
  PROVE  /\ Stream(c)'
         /\ Head(batch[c]).kind = "O" =>
              Head(batch[c]) = Output(since[c] + Len(recv[c]) + 1)
              /\ since[c] + Len(recv[c]) + 1 <= chunks
<1> USE DEF regVars, boxVars, credVars, arbVars
<1> DEFINE from == since[c] + Len(recv[c])
           f == Head(batch[c])
<1>1. /\ UNCHANGED <<phase, blocked, pending, calls, chunks, since, outbox>>
      /\ batch'[c] = Tail(batch[c]) /\ wpc[c] = "write" /\ batch[c] # <<>>
      /\ f.kind = "O" => recv'[c] = Append(recv[c], f.n)
      /\ f.kind # "O" => recv'[c] = recv[c]
  BY DEF WriteFrame, TypeInv, TypeOK
<1>2. Queue(c) \in Seq(Frame) /\ Queue(c) # <<>> /\ Head(Queue(c)) = f
      /\ Queue(c)' = Tail(Queue(c)) /\ from \in Nat
  <2> DEFINE p == batch[c]
             q == outbox[c]
  <2>1. p \in Seq(Frame) /\ q \in Seq(Frame) /\ p # <<>> /\ from \in Nat
    BY <1>1, QueueType
  <2>2. Queue(c)' = Tail(p) \o q /\ Queue(c) = p \o q /\ f = Head(p)
    BY <1>1 DEF Queue
  <2> HIDE DEF p, q, f, from
  <2>3. /\ p \o q \in Seq(Frame) /\ p \o q # <<>> /\ Head(p \o q) = Head(p)
        /\ Tail(p \o q) = Tail(p) \o q
    BY <2>1
  <2> QED BY <2>1, <2>2, <2>3
<1>3. PICK n \in Nat : n <= chunks /\ (phase[c] = "in" => n = Due(c)) /\ StreamAt(c, n)
  BY DEF Stream
<1> DEFINE upto == IF Owed(c) THEN n - 1 ELSE n
<1>4. upto \in Nat /\ upto <= chunks /\ chunks \in Nat /\ Carries(Queue(c), from, upto)
  <2>1. Owed(c) => n > 0
    BY <1>3 DEF StreamAt
  <2>2. chunks \in Nat
    BY QueueType
  <2>3. Carries(Queue(c), from, upto)
    BY <1>1, <1>3 DEF StreamAt
  <2> QED BY <1>3, <2>1, <2>2, <2>3
<1>5. Owed(c)' = Owed(c) /\ Due(c)' = Due(c)
  BY <1>1 DEF Owed, Due, Fanning
<1>6. recv[c] \in Seq(Nat) /\ \A i \in DOMAIN recv[c] : recv[c][i] = since[c] + i
  BY QueueType DEF Stream
<1>7. CASE f.kind # "O"
  <2>1. Carries(Queue(c)', from, upto)
    <3> HIDE DEF from, upto, f
    <3> QED BY <1>2, <1>4, <1>7, CarriesTail
  <2>2. StreamAt(c, n)'
    BY <1>1, <1>3, <1>5, <1>7, <2>1 DEF StreamAt
  <2> QED BY <1>1, <1>3, <1>5, <1>6, <1>7, <2>2 DEF Stream
<1>8. CASE f.kind = "O"
  <2>1. /\ f = Output(from + 1) /\ from + 1 <= upto
        /\ Carries(Queue(c)', from + 1, upto)
    <3> HIDE DEF from, upto, f
    <3> QED BY <1>2, <1>4, <1>8, CarriesTail
  <2>2. f.n = from + 1 /\ from + 1 <= chunks
    <3>1. f.n = from + 1
      BY <2>1 DEF Output
    <3>2. from + 1 <= chunks
      <4> HIDE DEF from, upto, f
      <4> QED BY <1>2, <1>4, <2>1
    <3> QED BY <3>1, <3>2
  <2>3. recv'[c] = Append(recv[c], from + 1)
    BY <1>1, <1>8, <2>2
  <2>4. /\ since[c] + Len(recv'[c]) = from + 1
        /\ \A i \in DOMAIN recv'[c] : recv'[c][i] = since[c] + i
    <3> DEFINE r == recv[c]
               s == since[c]
    <3>1. r \in Seq(Nat) /\ s \in Nat /\ \A i \in DOMAIN r : r[i] = s + i
      BY <1>6, QueueType
    <3>2. recv'[c] = Append(r, s + Len(r) + 1)
      BY <2>3
    <3> HIDE DEF r, s
    <3>3. s + Len(Append(r, s + Len(r) + 1)) = s + Len(r) + 1
      BY <3>1
    <3>4. \A i \in DOMAIN Append(r, s + Len(r) + 1) : Append(r, s + Len(r) + 1)[i] = s + i
      BY <3>1
    <3> QED BY <3>2, <3>3, <3>4 DEF r, s
  <2>5. StreamAt(c, n)'
    BY <1>1, <1>3, <1>5, <2>1, <2>4 DEF StreamAt
  <2> QED BY <1>1, <1>3, <1>5, <2>1, <2>2, <2>4, <2>5 DEF Stream
<1> QED BY <1>7, <1>8

\* A repaid credit gives the frame that was kept, which is the next one.
LEMMA StreamRepaid ==
  ASSUME TypeInv, NEW c \in Clients, AfterDrain(c), Stream(c)
  PROVE  Stream(c)'
<1> USE DEF regVars, boxVars, credVars, arbVars
<1>1. UNCHANGED <<phase, calls, chunks, since, recv, batch>> /\ Due(c)' = Due(c)
      /\ wpc[c] # "dead"
  BY DEF AfterDrain, Due, Fanning
<1>2. PICK n \in Nat : n <= chunks /\ (phase[c] = "in" => n = Due(c)) /\ StreamAt(c, n)
  BY DEF Stream
<1>3. CASE blocked[c] /\ outbox' = [outbox EXCEPT ![c] = @ \o Redelivery(c)]
           /\ blocked' = [blocked EXCEPT ![c] = FALSE]
  <2> DEFINE p == pending[c]
             w == Welcome(mode[c], SessionDims)
             q == outbox[c]
             from == since[c] + Len(recv[c])
  <2>1. p \in Frame /\ w \in Frame /\ q \in Seq(Frame) /\ w.kind # "O" /\ from \in Nat
        /\ batch[c] \in Seq(Frame)
    <3>1. p \in Frame
      BY <1>3 DEF TypeInv, TypeOK
    <3>2. w \in Frame
      <4>1. SessionDims \in Dims
        BY SessionDimsType
      <4>2. mode[c] \in Modes
        BY DEF TypeInv, TypeOK
      <4> QED BY <4>1, <4>2, FrameTypes
    <3>3. w.kind = "W"
      BY DEF Welcome
    <3> QED BY <3>1, <3>2, <3>3, QueueType
  <2>2. Queue(c)' = Append(Append(Queue(c), p), w)
    <3> DEFINE b == batch[c]
    <3>1. outbox'[c] = q \o <<p, w>>
      BY <1>3 DEF TypeInv, TypeOK, Redelivery
    <3>2. Queue(c)' = b \o (q \o <<p, w>>) /\ Queue(c) = b \o q /\ b \in Seq(Frame)
      BY <1>1, <2>1, <3>1 DEF Queue
    <3> HIDE DEF p, w, q, b
    <3>3. b \o (q \o <<p, w>>) = Append(Append(b \o q, p), w)
      BY <2>1, <3>2, ConcatTwo
    <3> QED BY <3>2, <3>3
  <2>3. ~Owed(c)'
    BY <1>3 DEF Owed, TypeInv, TypeOK
  <2>4. Carries(Append(Queue(c), p), from, n)
    <3>1. CASE Owed(c)
      <4>1. p = Output(n) /\ n > 0 /\ Carries(Queue(c), from, n - 1)
        BY <1>1, <1>2, <3>1 DEF StreamAt
      <4>2. n - 1 \in Nat /\ (n - 1) + 1 = n /\ Queue(c) \in Seq(Frame)
        BY <1>2, <4>1, QueueType
      <4> HIDE DEF p, from
      <4> QED BY <2>1, <4>1, <4>2, CarriesOutput
    <3>2. CASE ~Owed(c)
      <4>1. p.kind # "O" /\ Carries(Queue(c), from, n) /\ Queue(c) \in Seq(Frame)
        BY <1>1, <1>2, <1>3, <3>2, QueueType DEF StreamAt, Owed
      <4> HIDE DEF p, from
      <4> QED BY <1>2, <2>1, <4>1, CarriesWelcome
    <3> QED BY <3>1, <3>2
  <2>5. Carries(Queue(c)', from, n)
    <3>1. Append(Queue(c), p) \in Seq(Frame)
      <4>1. Queue(c) \in Seq(Frame)
        BY QueueType
      <4> HIDE DEF p
      <4> QED BY <2>1, <4>1
    <3> HIDE DEF p, w, from
    <3> QED BY <1>2, <2>1, <2>2, <2>4, <3>1, CarriesWelcome
  <2>6. StreamAt(c, n)'
    BY <1>1, <2>3, <2>5 DEF StreamAt
  <2> QED BY <1>1, <1>2, <2>6 DEF Stream
<1>4. CASE UNCHANGED <<boxVars, credVars>>
  <2>1. wpc'[c] # "dead" /\ Queue(c)' = Queue(c) /\ Owed(c)' = Owed(c)
    BY <1>1, <1>4 DEF AfterDrain, TypeInv, TypeOK, Queue, Owed
  <2>2. StreamAt(c, n)'
    BY <1>1, <1>2, <1>4, <2>1 DEF StreamAt
  <2> QED BY <1>1, <1>2, <2>2 DEF Stream
<1> QED BY <1>3, <1>4 DEF AfterDrain

\* A client registered now has been given everything there was to give.
LEMMA StreamStarts ==
  ASSUME TypeInv, CreditInv, PermissionInv, IdleInv, RegisterClient,
         NEW c \in Clients, Head(calls).client = c, phase[c] = "new"
  PROVE  Stream(c)'
<1> USE DEF regVars, credVars, arbVars, wireVars
<1> DEFINE w == Welcome(mode[c], SessionDims)
<1>2. /\ UNCHANGED <<blocked, pending, wpc, batch, recv, chunks>>
      /\ outbox'[c] = Append(outbox[c], w) /\ since'[c] = chunks
  BY DEF RegisterClient, Enqueue, TypeInv, TypeOK
<1>3. /\ ~blocked[c] /\ outbox[c] = <<>> /\ batch[c] = <<>> /\ recv[c] = <<>>
      /\ wpc[c] = "idle"
  BY DEF CreditInv, IdleInv
<1>4. w \in Frame /\ w.kind # "O"
  <2>1. w \in Frame
    BY SessionDimsType, FrameTypes DEF TypeInv, TypeOK
  <2> QED BY <2>1 DEF Welcome
<1>5. ~Fanning(c)'
  <2>1. calls \in Seq(Call) /\ calls # <<>> /\ Head(calls).op = "register" /\ calls' = Tail(calls)
    BY DEF RegisterClient, Running, TypeInv, TypeOK
  <2>2. calls' = <<>>
    BY <2>1, AloneAtBottom DEF PermissionInv
  <2> QED BY <2>2, EmptyFan DEF Fanning
<1>6. Due(c)' = chunks /\ chunks \in Nat /\ chunks' = chunks /\ ~Owed(c)'
  BY <1>2, <1>3, <1>5, QueueType DEF Due, Owed
<1>7. Queue(c)' = Append(<<>>, w)
  <2>1. Queue(c)' = Append(Queue(c), w)
    <3> HIDE DEF w
    <3> QED BY <1>2, <1>4, QueueGrows
  <2>2. Queue(c) = <<>>
    BY <1>3 DEF Queue
  <2> QED BY <2>1, <2>2
<1>8. Carries(Append(<<>>, w), chunks, chunks)
  <2>1. <<>> \in Seq(Frame)
    OBVIOUS
  <2> HIDE DEF w
  <2> QED BY <1>4, <1>6, <2>1, CarriesNothing, CarriesWelcome
<1>9. since'[c] + Len(recv'[c]) = chunks
  BY <1>2, <1>3, <1>6
<1>10. StreamAt(c, chunks)'
  BY <1>6, <1>7, <1>8, <1>9 DEF StreamAt
<1>11. DOMAIN recv'[c] = {}
  BY <1>2, <1>3
<1> QED BY <1>6, <1>10, <1>11 DEF Stream

\* Outside of the fan-out nothing changes in what is due.
LEMMA DueKept ==
  ASSUME TypeInv, PermissionInv, [Next]_vars, \A c \in Clients : ~FanOut(c), ~ReadChunk, ~Recheck,
         chunks' = chunks, NEW k \in Registered
  PROVE  Due(k)' = Due(k)
<1>1. Fanning(k)' = Fanning(k)
  BY FanElsewhere, EmptyFan DEF Fanning
<1> QED BY <1>1 DEF Due

\* Passing the gate makes one more chunk due, and everyone is on its way.
LEMMA StreamGate ==
  ASSUME TypeInv, calls = <<>>, PassGate, NEW k \in Clients, Stream(k),
         UNCHANGED <<phase, blocked, pending, outbox, wpc, batch, recv, since>>
  PROVE  Stream(k)'
<1>1. ASSUME k \in Registered
      PROVE  Due(k)' = Due(k)
  <2>1. ~Fanning(k) /\ chunks \in Nat
    BY EmptyFan, QueueType DEF Fanning
  <2>2. CASE GateClosed
    BY <2>1, <2>2 DEF PassGate, Fanning, Due
  <2>3. CASE ~GateClosed
    <3> DEFINE job == Fan(chunks + 1, Registered)
    <3>1. job \in Call /\ job.op = "fan" /\ job.todo = Registered
      <4>1. chunks + 1 \in Nat /\ Registered \in SUBSET Clients
        BY <2>1 DEF Registered
      <4> QED BY <4>1, JobTypes DEF Fan
    <3>2. <<job>> \o <<>> = <<job>>
      OBVIOUS
    <3>3. calls' = <<job>> /\ chunks' = chunks + 1
      BY <1>1, <2>3, <3>1, <3>2 DEF PassGate, Loop
    <3> HIDE DEF job
    <3>4. Fanning(k)'
      BY <1>1, <3>1, <3>3, SingleFan DEF Fanning
    <3> QED BY <2>1, <3>3, <3>4 DEF Due
  <2> QED BY <2>2, <2>3
<1>2. phase'[k] = "in" => phase[k] = "in" /\ Due(k)' = Due(k)
  BY <1>1 DEF Registered
<1>3. chunks' = chunks \/ chunks' = chunks + 1
  BY DEF PassGate
<1> QED BY <1>2, <1>3, StreamKept

LEMMA StreamStep ==
  /\ TypeInv /\ CreditInv /\ PermissionInv /\ ArbiterInv /\ IdleInv /\ FanInv /\ StreamInv
  /\ [Next]_vars
  => StreamInv'
<1> SUFFICES ASSUME TypeInv, CreditInv, PermissionInv, ArbiterInv, IdleInv, FanInv, StreamInv,
                    [Next]_vars, NEW k \in Clients, Followed(k)'
             PROVE  Stream(k)'
  BY DEF StreamInv
<1> USE DEF regVars, boxVars, credVars, arbVars, wireVars
<1>1. CASE RegisterClient /\ Head(calls).client = k
  <2>1. Head(calls) \in Call /\ calls \in Seq(Call) /\ calls # <<>> /\ Head(calls).op = "register"
    BY <1>1, HeadTypes DEF RegisterClient, Running, TypeInv, TypeOK
  <2>2. Joining(k)
    <3>1. calls = <<Head(calls)>>
      BY <2>1, AloneAtBottom DEF PermissionInv
    <3>2. Head(calls) = Register(k)
      BY <1>1, <2>1 DEF Call, Register
    <3> QED BY <2>1, <3>1, <3>2, SingleDuty DEF Joining
  <2>3. phase[k] = "new"
    BY <2>2 DEF ArbiterInv, WeighedInv
  <2> QED BY <1>1, <2>3, StreamStarts
<1>2. ASSUME ~(RegisterClient /\ Head(calls).client = k)
      PROVE  phase[k] # "new" /\ (mode'[k] = "ro" => mode[k] = "ro")
  <2>1. ASSUME NEW c \in Clients, NEW t \in Tickets, NEW d \in HelloDims, Attach(c, t, d)
        PROVE  phase[k] # "new" /\ mode'[k] = mode[k]
    <3>1. phase' = phase /\ k # c
      BY <2>1 DEF Attach, Followed
    <3> QED BY <2>1, <3>1 DEF Attach, Followed, TypeInv, TypeOK
  <2>2. CASE RegisterClient
    <3>1. phase' = [phase EXCEPT ![Head(calls).client] = "in"] /\ mode' = mode
      BY <2>2 DEF RegisterClient
    <3> QED BY <1>2, <2>2, <3>1 DEF Followed, TypeInv, TypeOK
  <2>3. CASE PromoteNext
    <3>1. \/ UNCHANGED <<phase, mode>>
          \/ \E c \in Registered : phase' = phase /\ mode' = [mode EXCEPT ![c] = "rw"]
          \/ \E c \in Registered : phase' = [phase EXCEPT ![c] = "kicked"] /\ mode' = mode
      BY <2>3 DEF PromoteNext, Remove, Candidates
    <3> QED BY <3>1 DEF Followed, Registered, TypeInv, TypeOK
  <2>4. ASSUME NEW c \in Clients, FanOut(c) \/ PushDims(c)
        PROVE  phase[k] # "new" /\ mode'[k] = mode[k]
    <3>1. c \in Registered /\ mode' = mode /\ phase' \in {phase, [phase EXCEPT ![c] = "kicked"]}
      BY <2>4 DEF FanOut, PushDims, Offer, KickOrCredit, Remove
    <3> QED BY <3>1 DEF Followed, Registered, TypeInv, TypeOK
  <2>5. ASSUME NEW c \in Clients, Detach(c)
        PROVE  phase[k] # "new" /\ mode'[k] = mode[k]
    <3>1. c \in Registered /\ mode' = mode /\ phase' = [phase EXCEPT ![c] = "detached"]
      BY <2>5 DEF Detach, Remove
    <3> QED BY <3>1 DEF Followed, Registered, TypeInv, TypeOK
  <2>6. CASE \/ LoopDone \/ DebounceFires \/ ReadChunk \/ Recheck \/ UNCHANGED vars
             \/ \E c \in Clients : WriterStep(c)
             \/ \E c \in Clients, d \in HelloDims : ReportResize(c, d)
    <3>1. UNCHANGED <<phase, mode>>
      BY <2>6 DEF LoopDone, DebounceFires, ReadChunk, Recheck, vars, WriterStep, Drain, WriteFrame,
                  WriteFails, AfterDrain, ReportResize
    <3> QED BY <3>1 DEF Followed
  <2> QED BY <2>1, <2>2, <2>3, <2>4, <2>5, <2>6 DEF Next, HubStep
<1>3. ASSUME ~(RegisterClient /\ Head(calls).client = k)
      PROVE  Followed(k) /\ Stream(k)
  <2>1. Followed(k)
    BY <1>2, <1>3 DEF Followed, Calm
  <2> QED BY <2>1 DEF StreamInv
<1>4. ASSUME NEW c \in Clients, FanOut(c)
      PROVE  Stream(k)'
  <2>1. Followed(k) /\ Stream(k) /\ ~RegisterClient
    BY <1>3, <1>4 DEF FanOut, RegisterClient, Running
  <2>2. CASE k = c
    BY <1>4, <2>1, <2>2, StreamHanded
  <2>3. CASE k # c
    <3> DEFINE job == FanOf(calls)
               rest == Loop(Fan(job.n, job.todo \ {c}), <<>>)
    <3>1. /\ Offer(c, Output(job.n), rest) /\ job = Head(calls) /\ Running("fan")
          /\ UNCHANGED <<wpc, recv, since, batch, chunks>>
      BY <1>4, FanIterates DEF FanOut
    <3>2. FanOf(calls').todo = job.todo \ {c}
      BY <1>4, FanIterates
    <3>3. Due(k)' = Due(k)
      BY <2>3, <3>1, <3>2 DEF Due, Fanning
    <3>4. Output(job.n) \in Frame
      <4>1. calls \in Seq(Call) /\ calls # <<>>
        BY <3>1 DEF TypeInv, TypeOK, Running
      <4>2. job.n \in Nat
        BY <3>1, <4>1, HeadTypes
      <4> QED BY <4>2, FrameTypes
    <3> HIDE DEF job, rest
    <3> QED BY <2>1, <2>3, <3>1, <3>3, <3>4, StreamPassedBy
  <2> QED BY <2>2, <2>3
<1>5. CASE ReadChunk \/ Recheck
  <2>1. /\ PassGate /\ calls = <<>>
        /\ UNCHANGED <<phase, blocked, pending, outbox, wpc, batch, recv, since>>
    BY <1>5 DEF ReadChunk, Recheck, Free
  <2>2. ~RegisterClient
    BY <2>1 DEF RegisterClient, Running
  <2> QED BY <1>3, <2>1, <2>2, StreamGate
<1>6. ASSUME ~(RegisterClient /\ Head(calls).client = k), \A c \in Clients : ~FanOut(c),
             ~ReadChunk, ~Recheck
      PROVE  Stream(k)'
  <2>0. Stream(k)
    BY <1>3, <1>6
  <2>1. chunks' = chunks
    BY <1>6 DEF Next, HubStep, WriterStep, RegisterClient, PushDims, LoopDone, PromoteNext, Attach,
               ReportResize, Detach, Drain, WriteFrame, WriteFails, AfterDrain, DebounceFires, vars
  <2>2. phase[k] = "in" => Due(k)' = Due(k)
    BY <1>6, <2>1, DueKept DEF Registered
  <2>3. ASSUME NEW c \in Clients, PushDims(c)
        PROVE  Stream(k)'
    <3> DEFINE job == Head(calls)
               rest == Loop(Push(job.dims, job.todo \ {c}), Tail(calls))
               f == Welcome(mode[c], job.dims)
    <3>1. /\ Offer(c, f, rest) /\ UNCHANGED <<wpc, recv, since, batch, chunks>> /\ Running("push")
      BY <2>3 DEF PushDims
    <3>2. f \in Frame /\ f.kind # "O"
      <4>1. job.dims \in Dims
        BY <3>1, HeadTypes DEF TypeInv, TypeOK, Running
      <4>2. mode[c] \in Modes
        BY DEF TypeInv, TypeOK
      <4>3. f.kind = "W"
        BY DEF Welcome
      <4> QED BY <4>1, <4>2, <4>3, FrameTypes
    <3> HIDE DEF f, rest
    <3> QED BY <2>0, <2>2, <3>1, <3>2, StreamPassedBy
  <2>4. CASE \E c \in Clients : WriterStep(c)
    <3>1. PICK c \in Clients : WriterStep(c)
      BY <2>4
    <3>2. CASE k = c /\ ~WriteFails(c)
      BY <2>0, <3>1, <3>2, StreamDrained, StreamWritten, StreamRepaid DEF WriterStep
    <3>3. CASE k = c /\ WriteFails(c)
      <4>1. /\ UNCHANGED <<phase, blocked, pending, recv, since>> /\ wpc'[c] = "dead"
        BY <3>3 DEF WriteFails, TypeInv, TypeOK
      <4>2. PICK n \in Nat : n <= chunks /\ (phase[c] = "in" => n = Due(c)) /\ StreamAt(c, n)
        BY <2>0, <3>3 DEF Stream
      <4>3. StreamAt(c, n)'
        BY <4>1, <4>2 DEF StreamAt, Owed
      <4> QED BY <2>0, <2>1, <2>2, <3>3, <4>1, <4>2, <4>3 DEF Stream
    <3>4. CASE k # c
      <4>1. /\ wpc'[k] = wpc[k] /\ recv'[k] = recv[k] /\ since' = since /\ batch'[k] = batch[k]
            /\ outbox'[k] = outbox[k] /\ blocked'[k] = blocked[k] /\ pending'[k] = pending[k]
            /\ phase' = phase
        <5>1. CASE Drain(c) \/ WriteFails(c)
          BY <3>4, <5>1 DEF Drain, WriteFails, TypeInv, TypeOK
        <5>2. CASE WriteFrame(c)
          BY <3>4, <5>2 DEF WriteFrame, TypeInv, TypeOK
        <5>3. CASE AfterDrain(c)
          BY <3>4, <5>3 DEF AfterDrain, TypeInv, TypeOK
        <5> QED BY <3>1, <5>1, <5>2, <5>3 DEF WriterStep
      <4> QED BY <2>0, <2>1, <2>2, <4>1, StreamKept
    <3> QED BY <3>2, <3>3, <3>4
  <2>5. CASE PromoteNext
    <3>0. UNCHANGED <<wpc, recv, since, batch, blocked, pending>>
      BY <2>5 DEF PromoteNext
    <3>1. CASE UNCHANGED <<phase, outbox>>
      BY <2>0, <2>1, <2>2, <3>0, <3>1, StreamKept
    <3>2. ASSUME NEW c \in Registered, NEW f \in Frame, f.kind # "O", phase' = phase,
                 outbox' = [outbox EXCEPT ![c] = Append(@, f)]
          PROVE  Stream(k)'
      <4>1. outbox'[k] = outbox[k] \/ outbox'[k] = Append(outbox[k], f)
        BY <3>2 DEF TypeInv, TypeOK
      <4>2. /\ phase'[k] = "in" => phase[k] = "in" /\ Due(k)' = Due(k)
            /\ \/ outbox'[k] = outbox[k]
               \/ \E g \in Frame : g.kind # "O" /\ outbox'[k] = Append(outbox[k], g)
        BY <2>2, <3>2, <4>1
      <4> QED BY <2>0, <2>1, <3>0, <4>2, StreamKept
    <3>3. ASSUME NEW c \in Registered, outbox' = outbox, phase' = [phase EXCEPT ![c] = "kicked"]
          PROVE  Stream(k)'
      <4>1. phase'[k] = "in" => phase[k] = "in" /\ Due(k)' = Due(k)
        BY <2>2, <3>3 DEF TypeInv, TypeOK
      <4> QED BY <2>0, <2>1, <3>0, <3>3, <4>1, StreamKept
    <3>4. ASSUME NEW c \in Candidates(Registered)
          PROVE  /\ c \in Registered /\ Welcome("rw", hello[c]) \in Frame
                 /\ Welcome("rw", hello[c]).kind # "O"
      <4>1. c \in Registered /\ hello[c] \in Dims
        BY DimsTypes DEF Candidates, Registered, TypeInv, TypeOK
      <4>2. Welcome("rw", hello[c]) \in Frame
        BY <4>1, FrameTypes DEF Modes
      <4> QED BY <4>1, <4>2 DEF Welcome
    <3> QED BY <2>5, <3>1, <3>2, <3>3, <3>4 DEF PromoteNext, Remove, Enqueue
  <2>6. ASSUME NEW c \in Clients, Detach(c)
        PROVE  Stream(k)'
    <3>1. /\ UNCHANGED <<wpc, recv, since, batch, outbox, blocked, pending>>
          /\ phase' = [phase EXCEPT ![c] = "detached"]
      BY <2>6 DEF Detach, Remove
    <3>2. phase'[k] = "in" => phase[k] = "in" /\ Due(k)' = Due(k)
      BY <2>2, <3>1 DEF TypeInv, TypeOK
    <3> QED BY <2>0, <2>1, <3>1, <3>2, StreamKept
  <2>7. CASE RegisterClient
    <3> DEFINE c == Head(calls).client
    <3>1. /\ UNCHANGED <<wpc, recv, batch, blocked, pending>> /\ c # k
          /\ phase' = [phase EXCEPT ![c] = "in"] /\ since' = [since EXCEPT ![c] = chunks]
          /\ \E f : outbox' = [outbox EXCEPT ![c] = Append(@, f)]
      BY <1>6, <2>7 DEF RegisterClient, Enqueue
    <3> HIDE DEF c
    <3>2. phase'[k] = phase[k] /\ since'[k] = since[k] /\ outbox'[k] = outbox[k]
      BY <3>1 DEF TypeInv, TypeOK
    <3> QED BY <2>0, <2>1, <2>2, <3>1, <3>2, StreamKept
  <2>8. CASE \/ LoopDone \/ DebounceFires \/ UNCHANGED vars
             \/ \E c \in Clients, t \in Tickets, d \in HelloDims : Attach(c, t, d)
             \/ \E c \in Clients, d \in HelloDims : ReportResize(c, d)
    <3>1. UNCHANGED <<phase, wpc, recv, since, batch, outbox, blocked, pending>>
      BY <2>8 DEF LoopDone, DebounceFires, vars, Attach, ReportResize
    <3> QED BY <2>0, <2>1, <2>2, <3>1, StreamKept
  <2> QED BY <1>6, <2>3, <2>4, <2>5, <2>6, <2>7, <2>8 DEF Next, HubStep
<1> QED BY <1>1, <1>4, <1>5, <1>6

\* The inductive invariant of the streams.
DeliveryInv ==
  TypeInv /\ CreditInv /\ PermissionInv /\ ArbiterInv /\ IdleInv /\ FanInv /\ StreamInv

LEMMA DeliveryHolds == Spec => []DeliveryInv
<1>1. Init => DeliveryInv
  <2>1. Init => CreditInv /\ StreamInv
    BY DEF Init, CreditInv, StreamInv, Followed
  <2> QED BY <2>1, TypeInit, PermissionInit, ArbiterInit, IdleInit, FanInit DEF DeliveryInv
<1>2. DeliveryInv /\ [Next]_vars => DeliveryInv'
  BY TypeStep, CreditStep, PermissionStep, ArbiterStep, IdleStep, FanStep, StreamStep
     DEF DeliveryInv
<1> QED BY <1>1, <1>2, PTL DEF Spec

LEMMA StreamExactFor ==
  ASSUME DeliveryInv, NEW c \in Clients, Calm \/ mode[c] = "ro"
  PROVE  \A i \in DOMAIN recv[c] : recv[c][i] = since[c] + i
<1>1. CASE phase[c] = "new"
  <2>1. recv[c] = <<>>
    BY <1>1 DEF DeliveryInv, IdleInv
  <2> QED BY <2>1
<1>2. CASE phase[c] # "new"
  BY <1>2 DEF DeliveryInv, StreamInv, Followed, Stream
<1> QED BY <1>1, <1>2

\* A spectator gets the bytes of the PTY from its attach on, in order and without
\* a gap, or is cut off, whatever the policy (onChunk, kickOrCreditLocked, writer).
THEOREM SpectatorStream == Spec => []SpectatorStreamExact
<1>1. DeliveryInv => SpectatorStreamExact
  BY StreamExactFor DEF SpectatorStreamExact
<1> QED BY <1>1, DeliveryHolds, PTL

\* In a calm session so does the presenter, credits included (afterDrain).
THEOREM CalmStream ==
  ASSUME Calm
  PROVE  Spec => []StreamExact
<1>1. DeliveryInv => StreamExact
  BY StreamExactFor DEF StreamExact
<1> QED BY <1>1, DeliveryHolds, PTL

-----------------------------------------------------------------------------
(* The refinement of OrderedStream.                                        *)

Joined == {c \in Clients : phase[c] # "new"}

\* Which steps change what OrderedStream sees.
LEMMA Unseen ==
  ASSUME TypeInv, [Next]_vars, ~RegisterClient, \A c \in Clients : ~WriteFrame(c),
         ~ReadChunk, ~Recheck
  PROVE  UNCHANGED <<chunks, Joined, since, recv>>
<1> USE DEF regVars, boxVars, credVars, arbVars, wireVars
<1>1. UNCHANGED <<chunks, since, recv>>
  BY DEF Next, HubStep, WriterStep, FanOut, PushDims, LoopDone, PromoteNext, Attach,
         ReportResize, Detach, Drain, WriteFails, AfterDrain, DebounceFires, vars
<1>2. \/ phase' = phase
      \/ \E c \in Registered, fate \in {"detached", "kicked"} : phase' = [phase EXCEPT ![c] = fate]
  <2>1. ASSUME NEW c \in Clients, FanOut(c) \/ PushDims(c)
        PROVE  c \in Registered /\ phase' \in {phase, [phase EXCEPT ![c] = "kicked"]}
    BY <2>1 DEF FanOut, PushDims, Offer, KickOrCredit, Remove
  <2>2. CASE PromoteNext
    BY <2>2 DEF PromoteNext, Remove, Candidates
  <2>3. ASSUME NEW c \in Clients, Detach(c)
        PROVE  c \in Registered /\ phase' = [phase EXCEPT ![c] = "detached"]
    BY <2>3 DEF Detach, Remove
  <2>4. CASE \/ LoopDone \/ DebounceFires \/ UNCHANGED vars
             \/ \E c \in Clients : Drain(c) \/ WriteFails(c) \/ AfterDrain(c)
             \/ \E c \in Clients, t \in Tickets, d \in HelloDims : Attach(c, t, d)
             \/ \E c \in Clients, d \in HelloDims : ReportResize(c, d)
    BY <2>4 DEF LoopDone, DebounceFires, vars, Drain, WriteFails, AfterDrain, Attach, ReportResize
  <2> QED BY <2>1, <2>2, <2>3, <2>4 DEF Next, HubStep, WriterStep
<1>3. Joined' = Joined
  BY <1>2 DEF Joined, Registered, TypeInv, TypeOK
<1> QED BY <1>1, <1>3

LEMMA PublishOrSleep ==
  ASSUME TypeInv, ReadChunk \/ Recheck
  PROVE  /\ chunks' = chunks \/ chunks' = chunks + 1
         /\ UNCHANGED <<Joined, since, recv>>
BY DEF ReadChunk, Recheck, PassGate, regVars, wireVars, Joined

LEMMA RegisterJoins ==
  ASSUME DeliveryInv, RegisterClient
  PROVE  \E c \in Clients : /\ c \notin Joined /\ Joined' = Joined \cup {c}
                            /\ since' = [since EXCEPT ![c] = chunks]
                            /\ UNCHANGED <<chunks, recv>>
<1> DEFINE c == Head(calls).client
<1>1. calls \in Seq(Call) /\ calls # <<>> /\ Head(calls).op = "register" /\ TypeInv
  BY DEF RegisterClient, Running, DeliveryInv, TypeInv, TypeOK
<1>2. c \in Clients /\ Head(calls) = Register(c) /\ calls = <<Head(calls)>>
  <2>1. Head(calls) \in Call /\ c \in Clients /\ calls = <<Head(calls)>>
    BY <1>1, HeadTypes, AloneAtBottom DEF DeliveryInv, PermissionInv, Running
  <2> QED BY <1>1, <2>1 DEF Call, Register
<1>3. phase[c] = "new"
  <2>1. Joining(c)
    BY <1>1, <1>2, SingleDuty, JobTypes DEF Joining
  <2> QED BY <1>2, <2>1 DEF DeliveryInv, ArbiterInv, WeighedInv
<1>4. /\ phase' = [phase EXCEPT ![c] = "in"] /\ since' = [since EXCEPT ![c] = chunks]
      /\ UNCHANGED <<chunks, recv>>
  BY DEF RegisterClient, wireVars
<1> HIDE DEF c
<1>5. c \notin Joined /\ Joined' = Joined \cup {c}
  BY <1>1, <1>2, <1>3, <1>4 DEF Joined, TypeInv, TypeOK
<1> QED BY <1>2, <1>4, <1>5

LEMMA WriteDelivers ==
  ASSUME DeliveryInv, NEW c \in Clients, WriteFrame(c), Calm
  PROVE  /\ UNCHANGED <<chunks, Joined, since>>
         /\ \/ recv' = recv
            \/ /\ c \in Joined
               /\ since[c] + Len(recv[c]) + 1 <= chunks
               /\ recv' = [recv EXCEPT ![c] = Append(@, since[c] + Len(recv[c]) + 1)]
<1> DEFINE n == since[c] + Len(recv[c]) + 1
<1>1. UNCHANGED <<chunks, since, phase>> /\ wpc[c] = "write"
  BY DEF WriteFrame, regVars
<1>2. c \in Joined /\ Followed(c)
  BY <1>1 DEF DeliveryInv, IdleInv, Joined, Followed
<1>3. Head(batch[c]).kind = "O" => Head(batch[c]) = Output(n) /\ n <= chunks
  BY <1>2, StreamWritten DEF DeliveryInv, StreamInv
<1>4. \/ recv' = recv
      \/ Head(batch[c]).kind = "O" /\ recv' = [recv EXCEPT ![c] = Append(@, Head(batch[c]).n)]
  BY DEF WriteFrame
<1>5. Output(n).n = n
  BY DEF Output
<1> QED BY <1>1, <1>2, <1>3, <1>4, <1>5 DEF Joined

\* The fan-out of a calm session implements OrderedStream: whoever attached is
\* given every chunk from then on, once and in order (onChunk).
THEOREM FanOutIsOrdered ==
  ASSUME Calm
  PROVE  Spec => OrderedSpec
<1> USE DEF Ordered!vars, Ordered!Init, Ordered!Next, Ordered!Publish, Ordered!Join, Ordered!Deliver
<1>1. Init => Ordered!Init
  BY DEF Init
<1>2. DeliveryInv /\ [Next]_vars => [Ordered!Next]_(Ordered!vars)
  <2> SUFFICES ASSUME DeliveryInv, [Next]_vars
               PROVE  Ordered!Next \/ UNCHANGED <<chunks, Joined, since, recv>>
    BY DEF Joined
  <2>1. CASE ReadChunk \/ Recheck
    <3>1. UNCHANGED <<chunks, Joined, since, recv>> \/ Ordered!Publish
      BY <2>1, PublishOrSleep DEF DeliveryInv, Joined
    <3> QED BY <3>1
  <2>2. CASE RegisterClient
    BY <2>2, RegisterJoins DEF Joined
  <2>3. ASSUME NEW c \in Clients, WriteFrame(c)
        PROVE  Ordered!Next \/ UNCHANGED <<chunks, Joined, since, recv>>
    BY <2>3, WriteDelivers DEF Joined
  <2>4. CASE ~RegisterClient /\ ~ReadChunk /\ ~Recheck /\ \A c \in Clients : ~WriteFrame(c)
    BY <2>4, Unseen DEF DeliveryInv
  <2> QED BY <2>1, <2>2, <2>3, <2>4
<1> QED BY <1>1, <1>2, DeliveryHolds, PTL DEF Spec, OrderedSpec, Ordered!Spec

-----------------------------------------------------------------------------
(* Welcomes.                                                               *)

\* Whoever saw v and is sent q sees f last, of all Welcomes.
Told(q, v, f) ==
  \/ v = f /\ \A i \in DOMAIN q : q[i].kind # "W"
  \/ /\ f.kind = "W"
     /\ \E i \in DOMAIN q : q[i] = f /\ \A j \in DOMAIN q : j > i => q[j].kind # "W"

LEMMA ToldIsLast ==
  ASSUME TypeInv, NEW c \in Clients, NEW f, Told(Queue(c), view[c], f)
  PROVE  LastWelcome(c) = f
<1> DEFINE q == Queue(c)
           w == {i \in DOMAIN q : q[i].kind = "W"}
<1>1. LastWelcome(c) = IF w = {} THEN view[c] ELSE q[CHOOSE i \in w : \A j \in w : j <= i]
  BY DEF LastWelcome, Queue
<1>2. DOMAIN q = 1..Len(q) /\ Len(q) \in Nat
  BY QueueType
<1>3. CASE w = {}
  <2>1. \A i \in DOMAIN q : q[i].kind # "W"
    BY <1>3
  <2> QED BY <1>1, <1>3, <2>1 DEF Told
<1>4. CASE w # {}
  <2>1. PICK i \in DOMAIN q : f.kind = "W" /\ q[i] = f /\ \A j \in DOMAIN q : j > i => q[j].kind # "W"
    BY <1>4 DEF Told
  <2> HIDE DEF q
  <2>2. i \in w /\ \A j \in w : j <= i
    BY <1>2, <2>1
  <2>3. \A x \in w : (\A j \in w : j <= x) => x = i
    BY <1>2, <2>2
  <2> HIDE DEF w
  <2>4. (CHOOSE x \in w : \A j \in w : j <= x) = i
    BY <2>2, <2>3
  <2> QED BY <1>1, <1>4, <2>1, <2>4
<1> QED BY <1>3, <1>4

LEMMA ToldOutput ==
  ASSUME NEW q \in Seq(Frame), NEW v, NEW f, Told(q, v, f), NEW g \in Frame, g.kind # "W"
  PROVE  Told(Append(q, g), v, f)
<1> DEFINE r == Append(q, g)
<1>1. /\ DOMAIN r = 1..(Len(q) + 1) /\ DOMAIN q = 1..Len(q) /\ Len(q) \in Nat
      /\ r[Len(q) + 1] = g /\ \A i \in DOMAIN q : r[i] = q[i]
  OBVIOUS
<1> HIDE DEF r
<1>2. \A i \in DOMAIN r : r[i].kind = "W" => i \in DOMAIN q /\ r[i] = q[i]
  BY <1>1
<1>3. DOMAIN q \subseteq DOMAIN r
  BY <1>1
<1>4. CASE v = f /\ \A i \in DOMAIN q : q[i].kind # "W"
  BY <1>2, <1>4 DEF Told, r
<1>5. CASE f.kind = "W" /\ \E i \in DOMAIN q : q[i] = f /\ \A j \in DOMAIN q : j > i => q[j].kind # "W"
  BY <1>1, <1>2, <1>3, <1>5 DEF Told, r
<1> QED BY <1>4, <1>5 DEF Told

LEMMA ToldWelcome ==
  ASSUME NEW q \in Seq(Frame), NEW v, NEW f \in Frame, f.kind = "W"
  PROVE  Told(Append(q, f), v, f)
<1> DEFINE r == Append(q, f)
           n == Len(q) + 1
<1>1. DOMAIN r = 1..n /\ n \in DOMAIN r /\ n \in Nat /\ r[n] = f
  OBVIOUS
<1> HIDE DEF r, n
<1>2. \A j \in DOMAIN r : ~(j > n)
  BY <1>1
<1> QED BY <1>1, <1>2 DEF Told, r

LEMMA ToldTail ==
  ASSUME NEW q \in Seq(Frame), q # <<>>, NEW v, NEW f, Told(q, v, f)
  PROVE  /\ Head(q).kind = "W" => Told(Tail(q), Head(q), f)
         /\ Head(q).kind # "W" => Told(Tail(q), v, f)
<1> DEFINE r == Tail(q)
<1>1. /\ Len(q) \in Nat \ {0} /\ DOMAIN q = 1..Len(q) /\ DOMAIN r = 1..(Len(q) - 1)
      /\ \A i \in DOMAIN r : i + 1 \in DOMAIN q /\ r[i] = q[i + 1]
      /\ Head(q) = q[1] /\ 1 \in DOMAIN q
  OBVIOUS
<1> HIDE DEF r
<1>2. CASE v = f /\ \A i \in DOMAIN q : q[i].kind # "W"
  BY <1>1, <1>2 DEF Told, r
<1>3. ASSUME NEW i \in DOMAIN q, f.kind = "W", q[i] = f, \A j \in DOMAIN q : j > i => q[j].kind # "W"
      PROVE  /\ Head(q).kind = "W" => Told(Tail(q), Head(q), f)
             /\ Head(q).kind # "W" => Told(Tail(q), v, f)
  <2>1. CASE i = 1
    <3>1. Head(q) = f /\ \A j \in DOMAIN r : r[j].kind # "W"
      BY <1>1, <1>3, <2>1
    <3> QED BY <1>3, <3>1 DEF Told, r
  <2>2. CASE i # 1
    <3>1. i - 1 \in DOMAIN r /\ r[i - 1] = f
      BY <1>1, <1>3, <2>2
    <3>2. ASSUME NEW j \in DOMAIN r, j > i - 1 PROVE r[j].kind # "W"
      <4>1. j + 1 \in DOMAIN q /\ j + 1 > i
        BY <1>1, <3>2
      <4> QED BY <1>1, <1>3, <4>1
    <3> QED BY <1>3, <3>1, <3>2 DEF Told, r
  <2> QED BY <2>1, <2>2
<1> QED BY <1>2, <1>3 DEF Told

\* A push of dimensions d that has not reached k yet is in s.
TellingIn(s, d, k) ==
  \E i \in DOMAIN s : s[i].op = "push" /\ s[i].dims = d /\ k \in s[i].todo

Tells(job, d, k) == job.op = "push" /\ job.dims = d /\ k \in job.todo

LEMMA TellingNobody ==
  ASSUME NEW d, NEW k
  PROVE  ~TellingIn(<<>>, d, k)
BY DEF TellingIn

LEMMA TellingHead ==
  ASSUME NEW s \in Seq(Call), s # <<>>, NEW d, NEW k
  PROVE  TellingIn(s, d, k) <=> Tells(Head(s), d, k) \/ TellingIn(Tail(s), d, k)
<1> DEFINE t == Tail(s)
<1>1. /\ Len(s) \in Nat \ {0} /\ DOMAIN s = 1..Len(s) /\ DOMAIN t = 1..(Len(s) - 1)
      /\ \A i \in DOMAIN t : i + 1 \in DOMAIN s /\ t[i] = s[i + 1]
      /\ Head(s) = s[1] /\ 1 \in DOMAIN s
  OBVIOUS
<1> HIDE DEF t
<1>2. \A i \in DOMAIN s : i # 1 => \E j \in DOMAIN t : t[j] = s[i]
  <2> SUFFICES ASSUME NEW i \in DOMAIN s, i # 1 PROVE \E j \in DOMAIN t : t[j] = s[i]
    OBVIOUS
  <2>1. i - 1 \in DOMAIN t /\ (i - 1) + 1 = i
    BY <1>1
  <2> QED BY <1>1, <2>1
<1>3. \A j \in DOMAIN t : \E i \in DOMAIN s : s[i] = t[j]
  BY <1>1
<1>4. TellingIn(s, d, k) => Tells(Head(s), d, k) \/ TellingIn(t, d, k)
  BY <1>1, <1>2 DEF TellingIn, Tells
<1>5. Tells(Head(s), d, k) => TellingIn(s, d, k)
  BY <1>1 DEF TellingIn, Tells
<1>6. TellingIn(t, d, k) => TellingIn(s, d, k)
  BY <1>3 DEF TellingIn
<1> QED BY <1>4, <1>5, <1>6 DEF t

LEMMA TellingLoop ==
  ASSUME NEW job \in Call, job.op \in {"push", "fan"}, NEW s \in Seq(Call), NEW d, NEW k
  PROVE  TellingIn(Loop(job, s), d, k) <=> Tells(job, d, k) \/ TellingIn(s, d, k)
<1>1. CASE job.todo = {}
  BY <1>1 DEF Loop, Tells
<1>2. CASE job.todo # {}
  <2> DEFINE t == <<job>> \o s
  <2>1. t \in Seq(Call) /\ t # <<>> /\ Head(t) = job /\ Tail(t) = s
    OBVIOUS
  <2>2. Loop(job, s) = t
    BY <1>2 DEF Loop
  <2> HIDE DEF t
  <2> QED BY <2>1, <2>2, TellingHead
<1> QED BY <1>1, <1>2

\* A push of the session dimensions is under way to k.
Telling(k) == TellingIn(calls, last, k)

Aware(k) == Telling(k) \/ Told(Queue(k), view[k], Welcome(mode[k], SessionDims))

\* The inductive form of WelcomeConverges, within critical sections too.
WelcomeInv == \A k \in Registered : ~blocked[k] /\ wpc[k] # "dead" => Aware(k)

LEMMA WelcomeType ==
  ASSUME TypeInv, NEW c \in Clients
  PROVE  /\ \A d \in Dims : Welcome(mode[c], d) \in Frame
         /\ \A m, d : Welcome(m, d).kind = "W"
         /\ Welcome(mode[c], SessionDims) \in Frame
<1>1. mode[c] \in Modes
  BY DEF TypeInv, TypeOK
<1> QED BY <1>1, FrameTypes, SessionDimsType DEF Welcome

\* New dimensions come with a push to everybody registered.
LEMMA RecalcTells ==
  ASSUME TypeInv, NEW sz \in Sizes, NEW reg \in SUBSET Clients, NEW rest \in Seq(Call),
         Recalc(sz, reg, rest), NEW k \in reg
  PROVE  Telling(k)' \/ (last' = last /\ calls' = rest)
<1>1. CASE Arbitrate(sz) \in {ZeroDims, last}
  BY <1>1 DEF Recalc
<1>2. CASE Arbitrate(sz) \notin {ZeroDims, last}
  <2> DEFINE job == Push(Arbitrate(sz), reg)
  <2>1. job \in Call
    BY <1>2, ArbitrateType, JobTypes
  <2>2. job.op = "push" /\ job.dims = Arbitrate(sz) /\ job.todo = reg
    BY DEF Push
  <2>3. last' = Arbitrate(sz) /\ calls' = Loop(job, rest)
    BY <1>2 DEF Recalc
  <2> HIDE DEF job
  <2>4. TellingIn(Loop(job, rest), Arbitrate(sz), k)
    BY <2>1, <2>2, TellingLoop DEF Tells
  <2> QED BY <2>3, <2>4 DEF Telling
<1> QED BY <1>1, <1>2

\* Whoever stays when c is removed is being told, or nothing changed for it.
LEMMA RemoveTells ==
  ASSUME TypeInv, NEW c \in Registered, NEW fate \in {"detached", "kicked"}, NEW rest \in Seq(Call),
         owner = c => rest = <<>>, Remove(c, fate, rest), NEW k \in Registered'
  PROVE  /\ k \in Registered /\ k # c
         /\ Telling(k)' \/ (last' = last /\ (TellingIn(rest, last, k) => Telling(k)'))
<1> DEFINE next == IF owner = c THEN <<Promote>> \o rest ELSE rest
<1>1. k \in Registered /\ k # c
  BY DEF Remove, Registered, TypeInv, TypeOK
<1>2. Without(sizes, c) \in Sizes /\ Registered \ {c} \in SUBSET Clients
  BY WithoutType, TypeParts DEF HubTypes, Registered
<1>3. next \in Seq(Call)
  BY JobTypes
<1>4. Recalc(Without(sizes, c), Registered \ {c}, next)
  BY DEF Remove
<1>5. TellingIn(rest, last, k) => TellingIn(next, last, k)
  BY TellingNobody
<1> HIDE DEF next
<1>6. Telling(k)' \/ (last' = last /\ calls' = next)
  BY <1>1, <1>2, <1>3, <1>4, RecalcTells
<1> QED BY <1>1, <1>5, <1>6 DEF Telling

\* Nothing changes for k.
LEMMA AwareKept ==
  ASSUME NEW k, Aware(k), last' = last, mode'[k] = mode[k], Queue(k)' = Queue(k),
         view'[k] = view[k], Telling(k) => Telling(k)'
  PROVE  Aware(k)'
BY DEF Aware, SessionDims

\* A fan-out or a push: a push tells c what c is due, and what other pushes have
\* left to do stays.
LEMMA OfferAware ==
  ASSUME TypeInv, PermissionInv, WelcomeInv, NEW c \in Registered, NEW f \in Frame,
         NEW rest \in Seq(Call), Offer(c, f, rest), UNCHANGED <<wpc, batch, view>>,
         \A k \in Registered : k # c /\ Telling(k) => TellingIn(rest, last, k),
         f = Welcome(mode[c], SessionDims) \/ (f.kind # "W" /\ ~Telling(c))
  PROVE  WelcomeInv'
<1> USE DEF regVars, boxVars, credVars, arbVars
<1>1. c \in Clients /\ Registered \in SUBSET Clients
  BY DEF Registered
<1>2. CASE Enqueue(c, f) /\ calls' = rest /\ UNCHANGED <<regVars, credVars, arbVars>>
  <2> SUFFICES ASSUME NEW k \in Registered, ~blocked[k], wpc[k] # "dead"
               PROVE  Aware(k)'
    BY <1>2 DEF WelcomeInv, Registered
  <2>1. Aware(k)
    BY DEF WelcomeInv
  <2>2. CASE k # c
    <3>1. Queue(k)' = Queue(k)
      BY <1>2, <2>2 DEF Queue, Enqueue, TypeInv, TypeOK
    <3>2. Telling(k) => Telling(k)'
      BY <1>2, <2>2 DEF Telling
    <3> QED BY <1>2, <2>1, <3>1, <3>2, AwareKept
  <2>3. CASE k = c
    <3>1. Queue(c)' = Append(Queue(c), f)
      <4>1. outbox'[c] = Append(outbox[c], f)
        BY <1>1, <1>2 DEF Enqueue, TypeInv, TypeOK
      <4> QED BY <1>1, <4>1, QueueGrows
    <3>2. Queue(c) \in Seq(Frame)
      BY <1>1, QueueType
    <3> DEFINE w == Welcome(mode[c], SessionDims)
    <3>3. w' = w /\ w.kind = "W"
      BY <1>1, <1>2, WelcomeType DEF SessionDims
    <3> HIDE DEF w
    <3>4. Told(Queue(c)', view[c], w)
      <4>1. CASE f = w
        BY <3>1, <3>2, <3>3, <4>1, ToldWelcome
      <4>2. CASE f.kind # "W" /\ ~Telling(c)
        <5>1. Told(Queue(c), view[c], w)
          BY <2>1, <2>3, <4>2 DEF Aware, w
        <5> QED BY <3>1, <3>2, <4>2, <5>1, ToldOutput
      <4> QED BY <4>1, <4>2 DEF w
    <3>5. Told(Queue(c)', view'[c], w')
      BY <3>3, <3>4
    <3> QED BY <2>3, <3>5 DEF Aware, w
  <2> QED BY <2>2, <2>3
<1>3. CASE Expendable(c) /\ Remove(c, "kicked", rest) /\ UNCHANGED <<boxVars, credVars>>
  <2> SUFFICES ASSUME NEW k \in Registered', ~blocked[k], wpc[k] # "dead"
               PROVE  Aware(k)'
    BY <1>3 DEF WelcomeInv
  <2>1. c # owner
    BY <1>3, ExpendableIsNotOwner
  <2>2. /\ k \in Registered /\ k # c
        /\ Telling(k)' \/ (last' = last /\ (TellingIn(rest, last, k) => Telling(k)'))
    BY <1>3, <2>1, RemoveTells
  <2>3. CASE Telling(k)'
    BY <2>3 DEF Aware
  <2>4. CASE last' = last /\ (TellingIn(rest, last, k) => Telling(k)')
    <3>1. Aware(k) /\ Queue(k)' = Queue(k) /\ mode' = mode
      BY <1>3, <2>2 DEF WelcomeInv, Queue, Remove
    <3> QED BY <2>2, <2>4, <3>1, AwareKept
  <2> QED BY <2>2, <2>3, <2>4
<1>4. CASE /\ blocked' = [blocked EXCEPT ![c] = TRUE] /\ calls' = rest
           /\ UNCHANGED <<regVars, arbVars, boxVars>>
  <2> SUFFICES ASSUME NEW k \in Registered, ~blocked'[k], wpc[k] # "dead"
               PROVE  Aware(k)'
    BY <1>4 DEF WelcomeInv, Registered
  <2>1. k # c /\ ~blocked[k]
    BY <1>1, <1>4 DEF TypeInv, TypeOK
  <2>2. Aware(k) /\ Queue(k)' = Queue(k) /\ (Telling(k) => Telling(k)')
    BY <1>4, <2>1 DEF WelcomeInv, Queue, Telling
  <2> QED BY <1>4, <2>2, AwareKept
<1> QED BY <1>2, <1>3, <1>4 DEF Offer, KickOrCredit

LEMMA FanAware ==
  ASSUME TypeInv, PermissionInv, WelcomeInv, NEW c \in Clients, FanOut(c)
  PROVE  WelcomeInv'
<1> DEFINE job == FanOf(calls)
           rest == Loop(Fan(job.n, job.todo \ {c}), <<>>)
           f == Output(job.n)
<1>1. /\ Offer(c, f, rest) /\ rest \in Seq(Call) /\ c \in Registered
      /\ job = Head(calls) /\ calls = <<Head(calls)>> /\ Running("fan")
      /\ UNCHANGED <<wpc, batch, view>>
  BY FanIterates DEF FanOut, wireVars
<1>2. calls \in Seq(Call) /\ calls # <<>> /\ Head(calls).op = "fan"
  BY <1>1 DEF Running, TypeInv, TypeOK
<1>3. f \in Frame /\ f.kind # "W"
  <2>1. job.n \in Nat
    BY <1>1, <1>2, HeadTypes
  <2> QED BY <2>1, FrameTypes DEF Output
<1>4. \A k : ~Telling(k)
  <2>1. Tail(calls) = <<>>
    BY <1>2, AloneAtBottom DEF PermissionInv
  <2> QED BY <1>2, <2>1, TellingHead, TellingNobody DEF Telling, Tells
<1> HIDE DEF job, rest, f
<1> QED BY <1>1, <1>3, <1>4, OfferAware

LEMMA PushAware ==
  ASSUME TypeInv, PermissionInv, WelcomeInv, NEW c \in Clients, PushDims(c)
  PROVE  WelcomeInv'
<1> DEFINE job == Head(calls)
           next == Push(job.dims, job.todo \ {c})
           rest == Loop(next, Tail(calls))
           f == Welcome(mode[c], job.dims)
<1>1. /\ calls \in Seq(Call) /\ calls # <<>> /\ job.op = "push" /\ c \in Registered
      /\ job.dims = last /\ Offer(c, f, rest) /\ UNCHANGED <<wpc, batch, view>>
  BY DEF PushDims, Running, Stale, wireVars, TypeInv, TypeOK
<1>2. job.dims \in Dims /\ job.todo \in SUBSET Clients /\ Tail(calls) \in Seq(Call)
  BY <1>1, HeadTypes DEF Running
<1>3. next \in Call /\ next.op = "push" /\ next.dims = job.dims /\ next.todo = job.todo \ {c}
  <2>1. job.todo \ {c} \in SUBSET Clients
    BY <1>2
  <2> QED BY <1>2, <2>1, JobTypes DEF Push
<1>4. f \in Frame /\ f = Welcome(mode[c], SessionDims)
  <2>1. job.dims # ZeroDims
    BY <1>2 DEF Dims, ZeroDims
  <2> QED BY <1>1, <1>2, <2>1, WelcomeType DEF SessionDims
<1> HIDE DEF next
<1>5. rest \in Seq(Call)
  BY <1>2, <1>3, LoopType
<1>6. ASSUME NEW k \in Registered, k # c, Telling(k)
      PROVE  TellingIn(rest, last, k)
  <2>1. Tells(job, last, k) \/ TellingIn(Tail(calls), last, k)
    BY <1>1, <1>6, TellingHead DEF Telling
  <2>2. Tells(job, last, k) => Tells(next, last, k)
    BY <1>3, <1>6 DEF Tells
  <2> QED BY <1>2, <1>3, <2>1, <2>2, TellingLoop
<1> HIDE DEF rest, f
<1> QED BY <1>1, <1>4, <1>5, <1>6, OfferAware

\* A session of one has the dimensions of that one.
LEMMA ArbitrateSingle ==
  ASSUME NEW sz \in Sizes, NEW c \in Clients, Members(sz) = {c}
  PROVE  Arbitrate(sz) = sz[c]
<1>1. sz[c] \in Dims
  <2>1. sz[c] \in ArbiterDims
    BY DEF Sizes, Members
  <2> QED BY <2>1, DimsTypes
<1>2. ASSUME NEW i \in {1, 2}
      PROVE  (CHOOSE x \in {sz[k][i] : k \in {c}} : \A k \in {c} : x <= sz[k][i]) = sz[c][i]
  <2>1. sz[c][i] \in Nat
    BY <1>1 DEF Dims
  <2>2. {sz[k][i] : k \in {c}} = {sz[c][i]} /\ sz[c][i] <= sz[c][i]
    BY <2>1
  <2> QED BY <2>2
<1>3. Arbitrate(sz) = <<sz[c][1], sz[c][2]>>
  BY <1>2 DEF Arbitrate
<1> QED BY <1>1, <1>3 DEF Dims

\* Nobody else takes part when the owner is replaced, so the PTY gets the
\* dimensions that the Welcome of the promotion announced.
LEMMA PromoteAware ==
  ASSUME TypeInv, PermissionInv, ArbiterInv, WelcomeInv, PromoteNext
  PROVE  WelcomeInv'
<1> USE DEF regVars, boxVars, credVars, arbVars, wireVars
<1>1. /\ calls \in Seq(Call) /\ calls # <<>> /\ Head(calls).op = "promote"
      /\ UNCHANGED <<blocked, wpc, batch, view>>
  BY DEF PromoteNext, Running, TypeInv, TypeOK
<1>2. Tail(calls) = <<>> /\ calls = <<Head(calls)>> /\ Head(calls) = Promote /\ Head(calls) \in Call
  <2>1. Tail(calls) = <<>> /\ calls = <<Head(calls)>> /\ Head(calls) \in Call
    BY <1>1, AloneAtBottom, HeadTypes DEF PermissionInv
  <2> QED BY <1>1, <2>1 DEF Call, Promote
<1>3. \A d, k : ~TellingIn(calls, d, k)
  <2> SUFFICES ASSUME NEW d, NEW k PROVE ~TellingIn(calls, d, k)
    OBVIOUS
  <2>1. ~Tells(Head(calls), d, k)
    BY <1>1 DEF Tells
  <2>2. ~TellingIn(Tail(calls), d, k)
    BY <1>2, TellingNobody
  <2> QED BY <1>1, <2>1, <2>2, TellingHead
<1>4. Duty(calls) = Promote
  BY <1>1, <1>2, SingleDuty DEF Promote
<1>5. CASE UNCHANGED <<phase, mode, outbox, last>>
  <2> SUFFICES ASSUME NEW k \in Registered, ~blocked[k], wpc[k] # "dead"
               PROVE  Aware(k)'
    BY <1>1, <1>5 DEF WelcomeInv, Registered
  <2>1. Aware(k) /\ ~Telling(k) /\ Queue(k)' = Queue(k)
    BY <1>1, <1>3, <1>5 DEF WelcomeInv, Telling, Queue
  <2> QED BY <1>1, <1>5, <2>1, AwareKept
<1>6. ASSUME NEW c \in Candidates(Registered)
      PROVE  /\ c \in Registered /\ c \in Clients /\ Writable /\ ~AllWrite /\ c # owner
             /\ hello[c] \in Dims /\ hello[c] \in ArbiterDims
             /\ [sizes EXCEPT ![c] = hello[c]] \in Sizes
             /\ Arbitrate([sizes EXCEPT ![c] = hello[c]]) = hello[c]
  <2>1. c \in Registered /\ c \in Clients /\ rwEligible[c] /\ hello[c] \in ArbiterDims /\ hello[c] \in Dims
    BY DimsTypes DEF Candidates, Registered, TypeInv, TypeOK
  <2>2. Policy /\ OwnerInv
    BY <2>1 DEF PermissionInv, NoOwnerInv
  <2>3. c # owner /\ Writers = {}
    BY <1>4, <2>1, <2>2 DEF OwnerInv, Writers
  <2>4. \A k \in Clients : sizes[k] = ZeroDims
    <3>1. \A k \in Clients : Promote # Register(k)
      BY DEF Promote, Register
    <3> QED BY <1>4, <2>2, <2>3, <3>1
            DEF ArbiterInv, WeighedInv, Joining, Participates, Policy, Writers, Registered
  <2> DEFINE sz == [sizes EXCEPT ![c] = hello[c]]
  <2>5. sz \in Sizes
    BY <2>1, TypeParts DEF HubTypes, Sizes
  <2>6. sz[c] = hello[c] /\ Members(sz) = {c}
    <3>1. hello[c] # ZeroDims
      BY <2>1 DEF Dims, ZeroDims
    <3> QED BY <2>1, <2>4, <3>1 DEF Members, TypeInv, TypeOK
  <2>7. Arbitrate(sz) = hello[c]
    BY <2>1, <2>5, <2>6, ArbitrateSingle
  <2> QED BY <2>1, <2>2, <2>3, <2>5, <2>7 DEF Policy
<1>7. ASSUME NEW c \in Candidates(Registered), Enqueue(c, Welcome("rw", hello[c])),
             mode' = [mode EXCEPT ![c] = "rw"], phase' = phase,
             Recalc([sizes EXCEPT ![c] = hello[c]], Registered, Tail(calls))
      PROVE  WelcomeInv'
  <2> SUFFICES ASSUME NEW k \in Registered, ~blocked[k], wpc[k] # "dead"
               PROVE  Aware(k)'
    BY <1>1, <1>7 DEF WelcomeInv, Registered
  <2> DEFINE sz == [sizes EXCEPT ![c] = hello[c]]
             w == Welcome("rw", hello[c])
  <2>1. sz \in Sizes /\ Registered \in SUBSET Clients /\ Tail(calls) \in Seq(Call)
    BY <1>1, <1>2, <1>6, <1>7, EmptyCalls DEF Registered
  <2>2. last' = hello[c]
    <3>1. hello[c] # ZeroDims
      BY <1>6, <1>7 DEF Dims, ZeroDims
    <3> QED BY <1>6, <1>7, <3>1 DEF Recalc
  <2>3. CASE Telling(k)'
    BY <2>3 DEF Aware
  <2>4. CASE last' = last
    <3>1. SessionDims = hello[c] /\ SessionDims' = SessionDims
      <4>1. hello[c] # ZeroDims
        BY <1>6, <1>7 DEF Dims, ZeroDims
      <4>2. last = hello[c]
        BY <2>2, <2>4
      <4> QED BY <2>4, <4>1, <4>2 DEF SessionDims
    <3>2. Aware(k) /\ ~Telling(k)
      BY <1>3 DEF WelcomeInv, Telling
    <3>3. CASE k = c
      <4>1. w \in Frame /\ w.kind = "W" /\ Queue(c) \in Seq(Frame)
        BY <1>6, <1>7, FrameTypes, QueueType DEF Modes, Welcome
      <4>2. outbox'[c] = Append(outbox[c], w)
        BY <1>6, <1>7 DEF Enqueue, TypeInv, TypeOK
      <4>3. mode'[c] = "rw"
        BY <1>6, <1>7 DEF TypeInv, TypeOK
      <4>4. Welcome(mode[c], SessionDims)' = w
        BY <3>1, <4>3
      <4> HIDE DEF w
      <4>5. Queue(c)' = Append(Queue(c), w)
        BY <1>1, <1>6, <1>7, <4>1, <4>2, QueueGrows
      <4>6. Told(Queue(c)', view'[c], w)
        BY <4>1, <4>5, ToldWelcome
      <4> QED BY <3>3, <4>4, <4>6 DEF Aware
    <3>4. CASE k # c
      <4>1. Queue(k)' = Queue(k) /\ mode'[k] = mode[k]
        BY <1>1, <1>7, <3>4 DEF Queue, Enqueue, Registered, TypeInv, TypeOK
      <4> QED BY <1>1, <2>4, <3>2, <4>1, AwareKept
    <3> QED BY <3>3, <3>4
  <2> HIDE DEF sz
  <2> QED BY <1>7, <2>1, <2>3, <2>4, RecalcTells DEF sz
<1>8. ASSUME NEW c \in Candidates(Registered), Remove(c, "kicked", calls), outbox' = outbox
      PROVE  WelcomeInv'
  <2> SUFFICES ASSUME NEW k \in Registered', ~blocked[k], wpc[k] # "dead"
               PROVE  Aware(k)'
    BY <1>1 DEF WelcomeInv
  <2>1. k \in Registered /\ (Telling(k)' \/ last' = last)
    BY <1>1, <1>6, <1>8, RemoveTells
  <2>2. CASE Telling(k)'
    BY <2>2 DEF Aware
  <2>3. CASE last' = last
    <3>1. Aware(k) /\ ~Telling(k) /\ Queue(k)' = Queue(k) /\ mode' = mode
      BY <1>1, <1>3, <1>8, <2>1 DEF WelcomeInv, Telling, Queue, Remove
    <3> QED BY <1>1, <2>3, <3>1, AwareKept
  <2> QED BY <2>1, <2>2, <2>3
<1> QED BY <1>1, <1>5, <1>7, <1>8 DEF PromoteNext, Remove

\* The writer goroutine of c: what is written was sent, and what is given back
\* ends with a Welcome.
LEMMA WriterAware ==
  ASSUME TypeInv, IdleInv, WelcomeInv, NEW c \in Clients, WriterStep(c)
  PROVE  WelcomeInv'
<1> USE DEF regVars, boxVars, credVars, arbVars
<1>1. UNCHANGED <<phase, mode, calls, last>>
  BY DEF WriterStep, Drain, WriteFrame, WriteFails, AfterDrain
<1>2. \A k \in Clients \ {c} : /\ wpc'[k] = wpc[k] /\ blocked'[k] = blocked[k]
                               /\ view'[k] = view[k] /\ Queue(k)' = Queue(k)
  <2>1. CASE Drain(c) \/ WriteFails(c)
    BY <2>1 DEF Drain, WriteFails, Queue, TypeInv, TypeOK
  <2>2. CASE WriteFrame(c)
    BY <2>2 DEF WriteFrame, Queue, TypeInv, TypeOK
  <2>3. CASE AfterDrain(c)
    BY <2>3 DEF AfterDrain, Queue, TypeInv, TypeOK
  <2> QED BY <2>1, <2>2, <2>3 DEF WriterStep
<1>3. \A k : Telling(k) => Telling(k)'
  BY <1>1 DEF Telling
<1>4. ASSUME NEW k \in Registered, k # c, ~blocked'[k], wpc'[k] # "dead"
      PROVE  Aware(k)'
  <2>1. Aware(k)
    BY <1>2, <1>4 DEF WelcomeInv, Registered
  <2> QED BY <1>1, <1>2, <1>3, <1>4, <2>1, AwareKept DEF Registered
<1>5. ASSUME c \in Registered, ~blocked'[c], wpc'[c] # "dead"
      PROVE  Aware(c)'
  <2>1. CASE Drain(c)
    <3>1. batch'[c] = outbox[c] /\ outbox'[c] = <<>> /\ batch[c] = <<>> /\ view' = view
          /\ blocked' = blocked /\ wpc[c] # "dead"
      BY <2>1 DEF Drain, IdleInv, TypeInv, TypeOK
    <3>2. Queue(c)' = Queue(c)
      <4> DEFINE q == outbox[c]
      <4>1. q \in Seq(Frame)
        BY QueueType
      <4>2. Queue(c)' = q \o <<>> /\ Queue(c) = <<>> \o q
        BY <3>1 DEF Queue
      <4> HIDE DEF q
      <4> QED BY <4>1, <4>2
    <3> QED BY <1>1, <1>3, <1>5, <3>1, <3>2, AwareKept DEF WelcomeInv
  <2>2. CASE WriteFrame(c)
    <3> DEFINE f == Head(batch[c])
               w == Welcome(mode[c], SessionDims)
    <3>1. /\ UNCHANGED <<outbox, blocked>> /\ wpc[c] = "write" /\ batch[c] # <<>>
          /\ batch'[c] = Tail(batch[c])
          /\ f.kind = "O" => view'[c] = view[c]
          /\ f.kind # "O" => view'[c] = f
      BY <2>2 DEF WriteFrame, TypeInv, TypeOK
    <3>2. /\ Queue(c) \in Seq(Frame) /\ Queue(c) # <<>> /\ Head(Queue(c)) = f
          /\ Queue(c)' = Tail(Queue(c)) /\ f \in Frame
      <4> DEFINE p == batch[c]
                 q == outbox[c]
      <4>1. p \in Seq(Frame) /\ q \in Seq(Frame) /\ p # <<>>
        BY <3>1, QueueType
      <4>2. Queue(c)' = Tail(p) \o q /\ Queue(c) = p \o q /\ f = Head(p)
        BY <3>1 DEF Queue
      <4> HIDE DEF p, q, f
      <4>3. /\ p \o q \in Seq(Frame) /\ p \o q # <<>> /\ Head(p \o q) = Head(p)
            /\ Tail(p \o q) = Tail(p) \o q /\ Head(p) \in Frame
        BY <4>1
      <4> QED BY <4>1, <4>2, <4>3
    <3>3. w' = w
      BY <1>1 DEF SessionDims
    <3>4. f.kind = "O" \/ f.kind = "W"
      BY <3>2, FrameKinds
    <3>5. CASE Telling(c)
      BY <1>3, <3>5 DEF Aware
    <3>6. CASE Told(Queue(c), view[c], w)
      <4> HIDE DEF f, w
      <4>1. Told(Queue(c)', view'[c], w)
        BY <3>1, <3>2, <3>4, <3>6, ToldTail
      <4>2. Told(Queue(c)', view'[c], w')
        BY <3>3, <4>1
      <4> QED BY <4>2 DEF Aware, w
    <3>7. Aware(c)
      BY <1>5, <3>1 DEF WelcomeInv
    <3> QED BY <3>5, <3>6, <3>7 DEF Aware
  <2>3. CASE WriteFails(c)
    BY <1>5, <2>3 DEF WriteFails, TypeInv, TypeOK
  <2>4. CASE AfterDrain(c) /\ UNCHANGED <<boxVars, credVars>>
    <3>1. wpc[c] # "dead" /\ view' = view /\ Queue(c)' = Queue(c)
      BY <2>4 DEF AfterDrain, Queue
    <3> QED BY <1>1, <1>3, <1>5, <2>4, <3>1, AwareKept DEF WelcomeInv
  <2>5. CASE /\ AfterDrain(c) /\ blocked[c]
             /\ outbox' = [outbox EXCEPT ![c] = @ \o Redelivery(c)]
    <3> DEFINE p == pending[c]
               w == Welcome(mode[c], SessionDims)
               q == outbox[c]
               b == batch[c]
    <3>1. p \in Frame /\ w \in Frame /\ q \in Seq(Frame) /\ b \in Seq(Frame) /\ w.kind = "W"
      <4>1. p \in Frame
        BY <2>5 DEF TypeInv, TypeOK
      <4> QED BY <4>1, WelcomeType, QueueType
    <3>2. outbox'[c] = q \o <<p, w>> /\ batch' = batch
      BY <2>5 DEF TypeInv, TypeOK, Redelivery, AfterDrain
    <3>3. Queue(c)' = b \o (q \o <<p, w>>)
      BY <3>2 DEF Queue
    <3>4. w' = w
      BY <1>1 DEF SessionDims
    <3> HIDE DEF p, w, q, b
    <3>5. Queue(c)' = Append(Append(b \o q, p), w) /\ Append(b \o q, p) \in Seq(Frame)
      BY <3>1, <3>3, ConcatTwo
    <3>6. Told(Queue(c)', view'[c], w)
      BY <3>1, <3>5, ToldWelcome
    <3>7. Told(Queue(c)', view'[c], w')
      BY <3>4, <3>6
    <3> QED BY <3>7 DEF Aware, w
  <2> QED BY <2>1, <2>2, <2>3, <2>4, <2>5 DEF WriterStep, AfterDrain
<1> QED BY <1>1, <1>4, <1>5 DEF WelcomeInv, Registered

\* Steps between critical sections that may change the dimensions.
LEMMA RecalcAware ==
  ASSUME TypeInv, WelcomeInv, Free, NEW sz \in Sizes, NEW rest \in Seq(Call),
         Recalc(sz, Registered, rest), UNCHANGED <<phase, blocked, outbox, wpc, batch, view>>,
         \A k \in Registered : mode'[k] = mode[k]
  PROVE  WelcomeInv'
<1> SUFFICES ASSUME NEW k \in Registered, ~blocked[k], wpc[k] # "dead"
             PROVE  Aware(k)'
  BY DEF WelcomeInv, Registered
<1>1. Telling(k)' \/ last' = last
  <2>1. Registered \in SUBSET Clients
    BY DEF Registered
  <2> QED BY <2>1, RecalcTells
<1>2. CASE Telling(k)'
  BY <1>2 DEF Aware
<1>3. CASE last' = last
  <2>1. Aware(k) /\ ~Telling(k) /\ Queue(k)' = Queue(k)
    BY TellingNobody DEF WelcomeInv, Telling, Free, Queue
  <2> QED BY <1>3, <2>1, AwareKept
<1> QED BY <1>1, <1>2, <1>3

\* Steps that leave the hub's clients alone, and what pushes have left to do.
LEMMA WelcomeKept ==
  ASSUME WelcomeInv, UNCHANGED <<phase, blocked, outbox, wpc, batch, view, last>>,
         \A k \in Registered : mode'[k] = mode[k],
         \A k \in Registered : Telling(k) => Telling(k)'
  PROVE  WelcomeInv'
<1> SUFFICES ASSUME NEW k \in Registered, ~blocked[k], wpc[k] # "dead"
             PROVE  Aware(k)'
  BY DEF WelcomeInv, Registered
<1>1. Aware(k) /\ Queue(k)' = Queue(k)
  BY DEF WelcomeInv, Queue
<1> QED BY <1>1, AwareKept

LEMMA WelcomeStep ==
  TypeInv /\ CreditInv /\ PermissionInv /\ ArbiterInv /\ IdleInv /\ WelcomeInv /\ [Next]_vars
  => WelcomeInv'
<1> SUFFICES ASSUME TypeInv, CreditInv, PermissionInv, ArbiterInv, IdleInv, WelcomeInv, [Next]_vars
             PROVE  WelcomeInv'
  OBVIOUS
<1> USE DEF regVars, boxVars, credVars, arbVars, wireVars
<1>0. Free => \A k : ~Telling(k)
  BY TellingNobody DEF Free, Telling
<1>1. ASSUME NEW c \in Clients, NEW t \in Tickets, NEW d \in HelloDims, Attach(c, t, d)
      PROVE  WelcomeInv'
  <2>1. /\ Free /\ UNCHANGED <<phase, blocked, outbox, wpc, batch, view>>
        /\ \A k \in Registered : mode'[k] = mode[k]
    BY <1>1 DEF Attach, Registered, TypeInv, TypeOK
  <2>2. [sizes EXCEPT ![c] = d] \in Sizes /\ <<Register(c)>> \in Seq(Call)
    <3>1. <<Register(c)>> \in Seq(Call)
      BY JobTypes
    <3> QED BY <3>1, TypeParts, DimsTypes DEF HubTypes, Sizes
  <2>3. CASE Recalc([sizes EXCEPT ![c] = d], Registered, <<Register(c)>>)
    BY <2>1, <2>2, <2>3, RecalcAware
  <2>4. CASE last' = last
    BY <1>0, <2>1, <2>4, WelcomeKept
  <2> QED BY <1>1, <2>3, <2>4 DEF Attach
<1>2. CASE RegisterClient
  <2> DEFINE c == Head(calls).client
             w == Welcome(mode[c], SessionDims)
  <2>1. calls \in Seq(Call) /\ calls # <<>> /\ Head(calls).op = "register"
    BY <1>2 DEF RegisterClient, Running, TypeInv, TypeOK
  <2>2. c \in Clients /\ calls = <<Head(calls)>> /\ Tail(calls) = <<>>
    BY <2>1, HeadTypes, AloneAtBottom DEF PermissionInv, Running
  <2>3. \A k : ~Telling(k)
    <3> SUFFICES ASSUME NEW k PROVE ~Telling(k)
      OBVIOUS
    <3>1. ~Tells(Head(calls), last, k) /\ ~TellingIn(Tail(calls), last, k)
      BY <2>1, <2>2, TellingNobody DEF Tells
    <3> QED BY <2>1, <3>1, TellingHead DEF Telling
  <2>4. /\ UNCHANGED <<mode, last, blocked, wpc, batch, view>>
        /\ phase' = [phase EXCEPT ![c] = "in"]
        /\ outbox' = [outbox EXCEPT ![c] = Append(@, w)]
    BY <1>2 DEF RegisterClient, Enqueue
  <2>5. \A m : Welcome(m, SessionDims)' = Welcome(m, SessionDims)
    BY <2>4 DEF SessionDims
  <2>6. w \in Frame /\ w.kind = "W"
    BY <2>2, WelcomeType
  <2> SUFFICES ASSUME NEW k \in Registered', ~blocked[k], wpc[k] # "dead"
               PROVE  Aware(k)'
    BY <2>4 DEF WelcomeInv
  <2>7. CASE k = c
    <3> DEFINE f == Welcome(mode[k], SessionDims)
    <3>1. w = f /\ k \in Clients
      BY <2>2, <2>7
    <3>2. outbox'[k] = Append(outbox[k], f)
      BY <2>4, <2>7, <3>1 DEF TypeInv, TypeOK
    <3>3. f' = f
      BY <2>4, <2>5
    <3>4. Queue(k) \in Seq(Frame) /\ f \in Frame /\ f.kind = "W"
      BY <2>6, <3>1, QueueType
    <3> HIDE DEF w, f
    <3>5. Queue(k)' = Append(Queue(k), f)
      BY <2>4, <3>1, <3>2, <3>4, QueueGrows
    <3>6. Told(Queue(k)', view'[k], f')
      BY <3>3, <3>4, <3>5, ToldWelcome
    <3> QED BY <3>6 DEF Aware, f
  <2>8. CASE k # c
    <3>1. k \in Registered /\ Queue(k)' = Queue(k)
      BY <2>4, <2>8 DEF Registered, Queue, TypeInv, TypeOK
    <3>2. Aware(k)
      BY <3>1 DEF WelcomeInv
    <3> QED BY <2>3, <2>4, <3>1, <3>2, AwareKept
  <2> QED BY <2>7, <2>8
<1>3. ASSUME NEW c \in Clients, Detach(c)
      PROVE  WelcomeInv'
  <2>1. Free /\ c \in Registered /\ Remove(c, "detached", <<>>)
        /\ UNCHANGED <<outbox, blocked, wpc, batch, view, mode>>
    BY <1>3 DEF Detach, Remove
  <2> SUFFICES ASSUME NEW k \in Registered', ~blocked[k], wpc[k] # "dead"
               PROVE  Aware(k)'
    BY <2>1 DEF WelcomeInv
  <2>2. k \in Registered /\ (Telling(k)' \/ last' = last)
    BY <2>1, EmptyCalls, RemoveTells
  <2>3. CASE Telling(k)'
    BY <2>3 DEF Aware
  <2>4. CASE last' = last
    <3>1. Aware(k) /\ Queue(k)' = Queue(k)
      BY <2>1, <2>2 DEF WelcomeInv, Queue
    <3> QED BY <1>0, <2>1, <2>4, <3>1, AwareKept
  <2> QED BY <2>2, <2>3, <2>4
<1>4. CASE DebounceFires
  <2>1. Free /\ Recalc(sizes, Registered, <<>>) /\ sizes \in Sizes
        /\ UNCHANGED <<phase, mode, outbox, blocked, wpc, batch, view>>
    BY <1>4, TypeParts DEF DebounceFires, HubTypes
  <2> QED BY <2>1, EmptyCalls, RecalcAware
<1>5. CASE LoopDone
  <2>1. /\ calls \in Seq(Call) /\ calls # <<>> /\ calls' = Tail(calls)
        /\ UNCHANGED <<phase, mode, blocked, outbox, wpc, batch, view, last>>
    BY <1>5 DEF LoopDone, Running, TypeInv, TypeOK
  <2>2. ASSUME NEW k \in Registered PROVE ~Tells(Head(calls), last, k)
    BY <1>5 DEF LoopDone, Running, Stale, Tells
  <2>3. ASSUME NEW k \in Registered, Telling(k) PROVE Telling(k)'
    <3>1. TellingIn(Tail(calls), last, k)
      BY <2>1, <2>2, <2>3, TellingHead DEF Telling
    <3> QED BY <2>1, <3>1 DEF Telling
  <2> QED BY <2>1, <2>3, WelcomeKept
<1>6. CASE \/ ReadChunk \/ Recheck \/ UNCHANGED vars
           \/ \E c \in Clients, d \in HelloDims : ReportResize(c, d)
  <2>1. UNCHANGED <<phase, mode, blocked, outbox, wpc, batch, view, last>>
    BY <1>6 DEF ReadChunk, Recheck, vars, ReportResize
  <2>2. Free \/ calls' = calls
    BY <1>6 DEF ReadChunk, Recheck, vars, ReportResize
  <2>3. \A k \in Registered : Telling(k) => Telling(k)'
    BY <1>0, <2>1, <2>2 DEF Telling
  <2> QED BY <2>1, <2>3, WelcomeKept
<1> QED BY <1>1, <1>2, <1>3, <1>4, <1>5, <1>6, FanAware, PushAware, PromoteAware, WriterAware
        DEF Next, HubStep

\* Whoever has not run out of credit will know its mode and the dimensions of the
\* PTY, however pushes are refused, nested or made stale (pushSessionDimsLocked,
\* afterDrain, promoteNextLocked, Attach).
THEOREM WelcomesConverge == Spec => []WelcomeConverges
<1>1. Init => WelcomeInv
  BY DEF Init, WelcomeInv, Registered
<1>2. TypeInv /\ WelcomeInv => WelcomeConverges
  <2> SUFFICES ASSUME TypeInv, WelcomeInv, Free, NEW c \in Registered, ~blocked[c], wpc[c] # "dead"
               PROVE  LastWelcome(c) = Welcome(mode[c], SessionDims)
    BY DEF WelcomeConverges
  <2>1. ~Telling(c)
    BY TellingNobody DEF Free, Telling
  <2>2. Told(Queue(c), view[c], Welcome(mode[c], SessionDims)) /\ c \in Clients
    BY <2>1 DEF WelcomeInv, Aware, Registered
  <2> QED BY <2>2, ToldIsLast
<1>3. Spec => []WelcomeInv
  <2>1. DeliveryInv => TypeInv /\ CreditInv /\ PermissionInv /\ ArbiterInv /\ IdleInv
    BY DEF DeliveryInv
  <2> QED BY <1>1, <2>1, WelcomeStep, DeliveryHolds, PTL DEF Spec
<1>4. DeliveryInv => TypeInv
  BY DEF DeliveryInv
<1> QED BY <1>2, <1>3, <1>4, DeliveryHolds, PTL
=============================================================================

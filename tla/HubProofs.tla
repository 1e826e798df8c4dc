----------------------------- MODULE HubProofs -----------------------------
(***************************************************************************)
(* Proofs about Hub, for every set of clients, every capacity and every    *)
(* configuration.                                                          *)
(***************************************************************************)
EXTENDS Hub, SequenceTheorems, NaturalsInduction, WellFoundedInduction, TLAPS

\* Numbers are well ordered.
LEMMA NatLeast ==
  ASSUME NEW T, T \subseteq Nat, T # {}
  PROVE  \E x \in T : \A y \in T : x <= y
<1> DEFINE Smaller == {p \in Nat \X Nat : p[1] < p[2]}
<1>1. IsWellFoundedOn(Smaller, Nat)
  BY NatLessThanWellFounded DEF OpToRel
<1>2. PICK x \in T : \A y \in T : ~(<<y, x>> \in Smaller)
  <2> HIDE DEF Smaller
  <2> QED BY <1>1, WFMin
<1>3. \A y \in T : ~(y < x)
  BY <1>2
<1> QED BY <1>3

Sizes == [Clients -> ArbiterDims \cup {ZeroDims}]

\* Who takes part makes the arbiter's verdict a rectangle.
LEMMA ArbitrateRectangle ==
  ASSUME NEW sz \in Sizes, Members(sz) # {}
  PROVE  Arbitrate(sz) \in Dims
<1> DEFINE m == Members(sz)
           L(i) == CHOOSE x \in {sz[c][i] : c \in m} : \A c \in m : x <= sz[c][i]
<1>1. ArbiterDims \subseteq Dims /\ \A c \in m : sz[c] \in ArbiterDims
  BY HubAssumption DEF ArbiterDims, Members, Sizes
<1>2. ASSUME NEW i \in {1, 2}
      PROVE  L(i) \in Nat \ {0}
  <2>1. PICK k \in m : \A c \in m : sz[k][i] <= sz[c][i]
    <3> DEFINE T == {sz[c][i] : c \in m}
    <3>1. T \subseteq Nat /\ T # {}
      BY <1>1 DEF Dims
    <3>2. \E x \in T : \A y \in T : x <= y
      <4> HIDE DEF T
      <4> QED BY <3>1, NatLeast
    <3> QED BY <3>2
  <2>2. L(i) \in {sz[c][i] : c \in m}
    BY <2>1
  <2> QED BY <2>2, <1>1 DEF Dims
<1>3. Arbitrate(sz) = <<L(1), L(2)>>
  BY DEF Arbitrate
<1>4. L(1) \in Nat \ {0} /\ L(2) \in Nat \ {0}
  BY <1>2
<1> HIDE DEF L, m
<1> QED BY <1>3, <1>4 DEF Dims

\* The arbiter's verdict is a rectangle, or ZeroDims when nobody takes part.
LEMMA ArbitrateType ==
  ASSUME NEW sz \in Sizes
  PROVE  Arbitrate(sz) \in Dims \cup {ZeroDims}
<1>1. CASE Members(sz) = {}
  BY <1>1 DEF Arbitrate
<1>2. CASE Members(sz) # {}
  BY <1>2, ArbitrateRectangle
<1> QED BY <1>1, <1>2

-----------------------------------------------------------------------------
(* The stack of the critical section.                                      *)

LEMMA JobTypes ==
  /\ \A n \in Nat, S \in SUBSET Clients : Fan(n, S) \in Call
  /\ \A d \in Dims, S \in SUBSET Clients : Push(d, S) \in Call
  /\ Promote \in Call
  /\ \A c \in Clients : Register(c) \in Call
BY DEF Call, Fan, Push, Promote, Register

LEMMA HeadTypes ==
  ASSUME calls \in Seq(Call), calls # <<>>
  PROVE  /\ Head(calls) \in Call
         /\ Tail(calls) \in Seq(Call)
         /\ Running("fan") => Head(calls).n \in Nat /\ Head(calls).todo \in SUBSET Clients
         /\ Running("push") => Head(calls).dims \in Dims /\ Head(calls).todo \in SUBSET Clients
         /\ Running("register") => Head(calls).client \in Clients
<1>1. Head(calls) \in Call /\ Tail(calls) \in Seq(Call)
  OBVIOUS
<1> QED BY <1>1 DEF Running, Call

LEMMA LoopType ==
  ASSUME NEW job \in Call, NEW rest \in Seq(Call)
  PROVE  Loop(job, rest) \in Seq(Call)
BY DEF Loop

\* recalcNow leaves well-typed dimensions and work to do.
LEMMA RecalcType ==
  ASSUME last \in Dims \cup {ZeroDims}, NEW sz \in Sizes, NEW reg \in SUBSET Clients,
         NEW rest \in Seq(Call), Recalc(sz, reg, rest)
  PROVE  /\ sizes' \in Sizes
         /\ last' \in Dims \cup {ZeroDims}
         /\ calls' \in Seq(Call)
<1>1. Arbitrate(sz) \in Dims \cup {ZeroDims}
  BY ArbitrateType
<1>2. CASE Arbitrate(sz) \in {ZeroDims, last}
  BY <1>2 DEF Recalc
<1>3. CASE Arbitrate(sz) \notin {ZeroDims, last}
  <2>1. Push(Arbitrate(sz), reg) \in Call
    BY <1>1, <1>3, JobTypes
  <2>2. Loop(Push(Arbitrate(sz), reg), rest) \in Seq(Call)
    BY <2>1, LoopType
  <2> QED BY <1>1, <1>3, <2>2 DEF Recalc
<1> QED BY <1>2, <1>3

-----------------------------------------------------------------------------
(* The handlers the actions share.                                         *)

\* The registry and the arbiter, the part of the type invariant that the
\* critical section works on.
HubTypes ==
  /\ phase \in [Clients -> {"new", "in", "detached", "kicked"}]
  /\ attachSeq \in [Clients -> Nat]
  /\ seq \in Nat
  /\ mode \in [Clients -> Modes]
  /\ rwEligible \in [Clients -> BOOLEAN]
  /\ hello \in [Clients -> ArbiterDims]
  /\ owner \in Clients \cup {NoClient}
  /\ sizes \in Sizes
  /\ last \in Dims \cup {ZeroDims}
  /\ calls \in Seq(Call)
  /\ reader \in {"free", "wait", "woken"}

BoxTypes ==
  /\ outbox \in [Clients -> Seq(Frame)]
  /\ bytes \in [Clients -> Nat]

CreditTypes ==
  /\ blocked \in [Clients -> BOOLEAN]
  /\ pending \in [Clients -> Frame \cup {NoFrame}]
  /\ \A c \in Clients : blocked[c] => pending[c] # NoFrame

RestTypes ==
  /\ armed \in BOOLEAN
  /\ resizes \in Nat
  /\ chunks \in Nat
  /\ wpc \in [Clients -> {"idle", "write", "after", "dead"}]
  /\ batch \in [Clients -> Seq(Frame)]
  /\ since \in [Clients -> Nat]
  /\ recv \in [Clients -> Seq(Nat)]
  /\ view \in [Clients -> Frame \cup {NoFrame}]
  /\ \A c \in Clients : wpc[c] = "write" => batch[c] # <<>>

\* The inductive form of TypeOK: a writer goroutine that writes has something to
\* write, and a client that holds a credit has a frame to be paid back.
TypeInv ==
  /\ TypeOK
  /\ \A c \in Clients : blocked[c] => pending[c] # NoFrame
  /\ \A c \in Clients : wpc[c] = "write" => batch[c] # <<>>

LEMMA TypeParts == TypeInv <=> HubTypes /\ BoxTypes /\ CreditTypes /\ RestTypes
BY DEF TypeInv, TypeOK, HubTypes, BoxTypes, CreditTypes, RestTypes, Sizes

LEMMA TypePartsNext ==
  ASSUME HubTypes', BoxTypes', CreditTypes', RestTypes'
  PROVE  TypeInv'
BY DEF TypeInv, TypeOK, HubTypes, BoxTypes, CreditTypes, RestTypes, Sizes

LEMMA FrameTypes ==
  /\ \A n \in Nat : Output(n) \in Frame
  /\ \A m \in Modes, d \in Dims : Welcome(m, d) \in Frame
  /\ NoFrame \notin Frame
BY DEF Output, Welcome, Frame, NoFrame

LEMMA EnqueueType ==
  ASSUME BoxTypes, NEW c \in Clients, NEW f \in Frame, Enqueue(c, f)
  PROVE  BoxTypes'
<1>1. Size(f) \in Nat
  BY HubAssumption DEF Size
<1>2. Append(outbox[c], f) \in Seq(Frame)
  BY DEF BoxTypes
<1> QED BY <1>1, <1>2 DEF BoxTypes, Enqueue

LEMMA WithoutType ==
  ASSUME NEW sz \in Sizes, NEW c
  PROVE  Without(sz, c) \in Sizes
BY DEF Without, Sizes

LEMMA EmptyCalls == <<>> \in Seq(Call)
OBVIOUS

LEMMA RemoveType ==
  ASSUME TypeInv, NEW c \in Clients, NEW fate \in {"detached", "kicked"},
         NEW rest \in Seq(Call), Remove(c, fate, rest)
  PROVE  HubTypes'
<1> DEFINE next == IF owner = c THEN <<Promote>> \o rest ELSE rest
<1>1. next \in Seq(Call)
  BY JobTypes
<1>2. Without(sizes, c) \in Sizes
  BY WithoutType DEF TypeInv, TypeOK, Sizes
<1>3. Registered \ {c} \in SUBSET Clients
  BY DEF Registered
<1>4. Recalc(Without(sizes, c), Registered \ {c}, next)
  BY DEF Remove
<1> HIDE DEF next
<1>5. sizes' \in Sizes /\ last' \in Dims \cup {ZeroDims} /\ calls' \in Seq(Call)
  BY <1>1, <1>2, <1>3, <1>4, RecalcType, TypeParts DEF HubTypes
<1> QED BY <1>5 DEF Remove, HubTypes, TypeInv, TypeOK, Broadcast

LEMMA OfferType ==
  ASSUME TypeInv, NEW c \in Clients, NEW f \in Frame, NEW rest \in Seq(Call),
         Offer(c, f, rest)
  PROVE  HubTypes' /\ BoxTypes' /\ CreditTypes'
<1> USE DEF Offer, boxVars, credVars, regVars, arbVars
<1>0. HubTypes /\ BoxTypes /\ CreditTypes
  BY TypeParts
<1>1. CASE Fits(c, f)
  <2>1. BoxTypes'
    BY <1>0, <1>1, EnqueueType
  <2> QED BY <1>0, <1>1, <2>1 DEF HubTypes, CreditTypes
<1>2. CASE ~Fits(c, f) /\ Remove(c, "kicked", rest) /\ UNCHANGED <<boxVars, credVars>>
  <2>1. HubTypes'
    BY <1>2, RemoveType
  <2> QED BY <1>0, <1>2, <2>1 DEF BoxTypes, CreditTypes
<1>3. CASE /\ ~Fits(c, f)
           /\ blocked' = [blocked EXCEPT ![c] = TRUE]
           /\ pending' = [pending EXCEPT ![c] = Kept(c, f)]
           /\ calls' = rest
           /\ UNCHANGED <<regVars, arbVars, reader, boxVars>>
  <2>1. CreditTypes'
    BY <1>0, <1>3, FrameTypes DEF CreditTypes, Kept
  <2> QED BY <1>0, <1>3, <2>1 DEF HubTypes, BoxTypes
<1> QED BY <1>1, <1>2, <1>3 DEF KickOrCredit

-----------------------------------------------------------------------------
(* Type correctness.                                                       *)

LEMMA DimsTypes ==
  /\ SpawnDims \in ArbiterDims
  /\ HelloDims \subseteq ArbiterDims
  /\ ArbiterDims \subseteq Dims
BY HubAssumption DEF ArbiterDims

LEMMA SessionDimsType ==
  ASSUME TypeInv
  PROVE  SessionDims \in Dims
BY HubAssumption DEF TypeInv, TypeOK, SessionDims

LEMMA TypeInit == Init => TypeInv
<1> SUFFICES ASSUME Init PROVE TypeInv
  OBVIOUS
<1>1. HubTypes
  BY DimsTypes DEF Init, HubTypes, Modes, Sizes
<1>2. BoxTypes /\ CreditTypes
  BY DEF Init, BoxTypes, CreditTypes
<1>3. RestTypes
  <2>1. <<>> \in Seq(Frame) /\ <<>> \in Seq(Nat)
    OBVIOUS
  <2> QED BY <2>1 DEF Init, RestTypes
<1> QED BY <1>1, <1>2, <1>3, TypeParts

\* One step per action: the hub's state by the lemmas above, the rest untouched.
LEMMA TypeStep == TypeInv /\ [Next]_vars => TypeInv'
<1> SUFFICES ASSUME TypeInv, [Next]_vars PROVE TypeInv'
  OBVIOUS
<1> USE DEF regVars, boxVars, credVars, arbVars, wireVars
<1>0. HubTypes /\ BoxTypes /\ CreditTypes /\ RestTypes
  BY TypeParts
<1>1. ASSUME NEW c \in Clients, NEW t \in Tickets, NEW d \in HelloDims, Attach(c, t, d)
      PROVE  TypeInv'
  <2> DEFINE sz == [sizes EXCEPT ![c] = d]
             rest == <<Register(c)>>
  <2>1. sz \in Sizes
    BY <1>0, DimsTypes DEF HubTypes, Sizes
  <2>2. rest \in Seq(Call)
    BY JobTypes
  <2>3. Registered \in SUBSET Clients
    BY DEF Registered
  <2>4. \/ Recalc(sz, Registered, rest)
        \/ calls' = rest /\ UNCHANGED <<sizes, last>>
    BY <1>1 DEF Attach, arbVars
  <2> HIDE DEF sz, rest
  <2>5. sizes' \in Sizes /\ last' \in Dims \cup {ZeroDims} /\ calls' \in Seq(Call)
    <3>1. CASE Recalc(sz, Registered, rest)
      BY <1>0, <2>1, <2>2, <2>3, <3>1, RecalcType DEF HubTypes
    <3>2. CASE calls' = rest /\ UNCHANGED <<sizes, last>>
      BY <1>0, <2>2, <3>2 DEF HubTypes
    <3> QED BY <2>4, <3>1, <3>2
  <2>6. EffectiveMode(t) \in Modes /\ Eligible(t) \in BOOLEAN
    BY HubAssumption DEF EffectiveMode, Eligible, Modes
  <2>7. HubTypes'
    BY <1>0, <1>1, <2>5, <2>6, DimsTypes DEF Attach, HubTypes
  <2>8. BoxTypes' /\ CreditTypes' /\ RestTypes'
    BY <1>0, <1>1 DEF Attach, BoxTypes, CreditTypes, RestTypes
  <2> QED BY <2>7, <2>8, TypePartsNext
<1>2. ASSUME RegisterClient
      PROVE  TypeInv'
  <2> DEFINE c == Head(calls).client
  <2>1. c \in Clients /\ Tail(calls) \in Seq(Call)
    BY <1>0, <1>2, HeadTypes DEF RegisterClient, Running, HubTypes
  <2>2. Welcome(mode[c], SessionDims) \in Frame
    BY <1>0, <2>1, FrameTypes, SessionDimsType DEF HubTypes
  <2>3. Enqueue(c, Welcome(mode[c], SessionDims))
    BY <1>2 DEF RegisterClient
  <2>4. BoxTypes'
    BY <1>0, <2>1, <2>2, <2>3, EnqueueType
  <2>5. HubTypes'
    BY <1>0, <1>2, <2>1 DEF RegisterClient, HubTypes, Broadcast
  <2>6. CreditTypes' /\ RestTypes'
    BY <1>0, <1>2, <2>1 DEF RegisterClient, CreditTypes, RestTypes
  <2> QED BY <2>4, <2>5, <2>6, TypePartsNext
<1>3. ASSUME NEW c \in Clients, Detach(c)
      PROVE  TypeInv'
  <2>1. Remove(c, "detached", <<>>)
    BY <1>3 DEF Detach
  <2>2. HubTypes'
    BY <2>1, EmptyCalls, RemoveType
  <2>3. BoxTypes' /\ CreditTypes' /\ RestTypes'
    BY <1>0, <1>3 DEF Detach, BoxTypes, CreditTypes, RestTypes
  <2> QED BY <2>2, <2>3, TypePartsNext
<1>4. ASSUME NEW c \in Clients, NEW d \in HelloDims, ReportResize(c, d)
      PROVE  TypeInv'
  <2>1. HubTypes'
    BY <1>0, <1>4, DimsTypes DEF ReportResize, HubTypes, Sizes
  <2>2. BoxTypes' /\ CreditTypes' /\ RestTypes'
    BY <1>0, <1>4 DEF ReportResize, BoxTypes, CreditTypes, RestTypes
  <2> QED BY <2>1, <2>2, TypePartsNext
<1>5. ASSUME DebounceFires
      PROVE  TypeInv'
  <2>1. sizes' \in Sizes /\ last' \in Dims \cup {ZeroDims} /\ calls' \in Seq(Call)
    <3>1. Registered \in SUBSET Clients
      BY DEF Registered
    <3>2. Recalc(sizes, Registered, <<>>)
      BY <1>5 DEF DebounceFires
    <3> QED BY <1>0, <3>1, <3>2, EmptyCalls, RecalcType DEF HubTypes
  <2>2. HubTypes'
    BY <1>0, <1>5, <2>1 DEF DebounceFires, HubTypes
  <2>3. BoxTypes' /\ CreditTypes' /\ RestTypes'
    BY <1>0, <1>5 DEF DebounceFires, BoxTypes, CreditTypes, RestTypes
  <2> QED BY <2>2, <2>3, TypePartsNext
<1>6. ASSUME ReadChunk \/ Recheck
      PROVE  TypeInv'
  <2>1. Loop(Fan(chunks + 1, Registered), <<>>) \in Seq(Call)
    <3>1. chunks + 1 \in Nat /\ Registered \in SUBSET Clients
      BY <1>0 DEF RestTypes, Registered
    <3>2. Fan(chunks + 1, Registered) \in Call
      BY <3>1, JobTypes
    <3> QED BY <3>2, LoopType, EmptyCalls
  <2>2. HubTypes' /\ chunks' \in Nat
    BY <1>0, <1>6, <2>1 DEF ReadChunk, Recheck, PassGate, HubTypes, RestTypes
  <2>3. BoxTypes' /\ CreditTypes' /\ RestTypes'
    BY <1>0, <1>6, <2>2 DEF ReadChunk, Recheck, BoxTypes, CreditTypes, RestTypes
  <2> QED BY <2>2, <2>3, TypePartsNext
<1>7. ASSUME NEW c \in Clients, FanOut(c)
      PROVE  TypeInv'
  <2> DEFINE job == Head(calls)
             rest == Loop(Fan(job.n, job.todo \ {c}), Tail(calls))
  <2>1. job.n \in Nat /\ job.todo \in SUBSET Clients /\ Tail(calls) \in Seq(Call)
    BY <1>0, <1>7, HeadTypes DEF FanOut, Running, HubTypes
  <2>2. rest \in Seq(Call) /\ Output(job.n) \in Frame
    BY <2>1, JobTypes, LoopType, FrameTypes
  <2>3. Offer(c, Output(job.n), rest)
    BY <1>7 DEF FanOut
  <2> HIDE DEF job, rest
  <2>4. HubTypes' /\ BoxTypes' /\ CreditTypes'
    BY <2>2, <2>3, OfferType
  <2>5. RestTypes'
    BY <1>0, <1>7 DEF FanOut, RestTypes
  <2> QED BY <2>4, <2>5, TypePartsNext
<1>8. ASSUME NEW c \in Clients, PushDims(c)
      PROVE  TypeInv'
  <2> DEFINE job == Head(calls)
             rest == Loop(Push(job.dims, job.todo \ {c}), Tail(calls))
  <2>1. job.dims \in Dims /\ job.todo \in SUBSET Clients /\ Tail(calls) \in Seq(Call)
    BY <1>0, <1>8, HeadTypes DEF PushDims, Running, HubTypes
  <2>2. rest \in Seq(Call) /\ Welcome(mode[c], job.dims) \in Frame
    BY <1>0, <2>1, JobTypes, LoopType, FrameTypes DEF HubTypes
  <2>3. Offer(c, Welcome(mode[c], job.dims), rest)
    BY <1>8 DEF PushDims
  <2> HIDE DEF job, rest
  <2>4. HubTypes' /\ BoxTypes' /\ CreditTypes'
    BY <2>2, <2>3, OfferType
  <2>5. RestTypes'
    BY <1>0, <1>8 DEF PushDims, RestTypes
  <2> QED BY <2>4, <2>5, TypePartsNext
<1>9. ASSUME LoopDone
      PROVE  TypeInv'
  <2>1. HubTypes'
    BY <1>0, <1>9, HeadTypes DEF LoopDone, Running, HubTypes
  <2>2. BoxTypes' /\ CreditTypes' /\ RestTypes'
    BY <1>0, <1>9 DEF LoopDone, BoxTypes, CreditTypes, RestTypes
  <2> QED BY <2>1, <2>2, TypePartsNext
<1>10. ASSUME PromoteNext
       PROVE  TypeInv'
  <2>1. Tail(calls) \in Seq(Call)
    BY <1>0, <1>10, HeadTypes DEF PromoteNext, Running, HubTypes
  <2>2. CreditTypes' /\ RestTypes'
    BY <1>0, <1>10 DEF PromoteNext, CreditTypes, RestTypes
  <2>3. CASE Candidates(Registered) = {}
    BY <1>0, <1>10, <2>1, <2>2, <2>3, TypePartsNext DEF PromoteNext, HubTypes, BoxTypes
  <2>4. CASE Candidates(Registered) # {}
    <3>1. PICK c \in Candidates(Registered) :
            IF Fits(c, Welcome("rw", hello[c]))
              THEN /\ Enqueue(c, Welcome("rw", hello[c]))
                   /\ owner' = c
                   /\ mode' = [mode EXCEPT ![c] = "rw"]
                   /\ Recalc([sizes EXCEPT ![c] = hello[c]], Registered, Tail(calls))
                   /\ Broadcast
                   /\ UNCHANGED <<phase, attachSeq, seq, rwEligible, hello>>
              ELSE Remove(c, "kicked", calls) /\ UNCHANGED boxVars
      BY <1>10, <2>4 DEF PromoteNext
    <3>2. c \in Clients /\ Registered \in SUBSET Clients
      BY DEF Candidates, Registered
    <3>3. CASE Fits(c, Welcome("rw", hello[c]))
      <4>1. Welcome("rw", hello[c]) \in Frame /\ [sizes EXCEPT ![c] = hello[c]] \in Sizes
        BY <1>0, <3>2, DimsTypes, FrameTypes DEF HubTypes, Modes, Sizes
      <4>2. BoxTypes'
        BY <1>0, <3>1, <3>2, <3>3, <4>1, EnqueueType
      <4>3. sizes' \in Sizes /\ last' \in Dims \cup {ZeroDims} /\ calls' \in Seq(Call)
        BY <1>0, <2>1, <3>1, <3>2, <3>3, <4>1, RecalcType DEF HubTypes
      <4>4. HubTypes'
        BY <1>0, <3>1, <3>2, <3>3, <4>3 DEF HubTypes, Broadcast, Modes
      <4> QED BY <2>2, <4>2, <4>4, TypePartsNext
    <3>4. CASE ~Fits(c, Welcome("rw", hello[c]))
      <4>1. HubTypes'
        BY <1>0, <3>1, <3>2, <3>4, RemoveType DEF HubTypes
      <4>2. BoxTypes'
        BY <1>0, <3>1, <3>4 DEF BoxTypes
      <4> QED BY <2>2, <4>1, <4>2, TypePartsNext
    <3> QED BY <3>3, <3>4
  <2> QED BY <2>3, <2>4
<1>11. ASSUME NEW c \in Clients, Drain(c) \/ WriteFails(c)
       PROVE  TypeInv'
  <2>1. HubTypes' /\ CreditTypes'
    BY <1>0, <1>11 DEF Drain, WriteFails, HubTypes, CreditTypes
  <2>2. CASE Drain(c)
    <3>1. <<>> \in Seq(Frame) /\ outbox[c] \in Seq(Frame)
      BY <1>0 DEF BoxTypes
    <3>2. BoxTypes'
      BY <1>0, <2>2, <3>1 DEF Drain, BoxTypes
    <3>3. RestTypes'
      BY <1>0, <2>2, <3>1 DEF Drain, RestTypes
    <3> QED BY <2>1, <3>2, <3>3, TypePartsNext
  <2>3. CASE WriteFails(c)
    <3>1. <<>> \in Seq(Frame)
      OBVIOUS
    <3>2. BoxTypes'
      BY <1>0, <2>3 DEF WriteFails, BoxTypes
    <3>3. RestTypes'
      BY <1>0, <2>3, <3>1 DEF WriteFails, RestTypes
    <3> QED BY <2>1, <3>2, <3>3, TypePartsNext
  <2> QED BY <1>11, <2>2, <2>3
<1>12. ASSUME NEW c \in Clients, WriteFrame(c)
       PROVE  TypeInv'
  <2>1. HubTypes' /\ BoxTypes' /\ CreditTypes'
    BY <1>0, <1>12 DEF WriteFrame, HubTypes, BoxTypes, CreditTypes
  <2>2. RestTypes'
    <3> DEFINE f == Head(batch[c])
    <3>1. /\ f \in Frame
          /\ Tail(batch[c]) \in Seq(Frame)
          /\ Len(batch[c]) # 1 => Tail(batch[c]) # <<>>
      <4>1. batch[c] \in Seq(Frame) /\ batch[c] # <<>>
        BY <1>0, <1>12 DEF WriteFrame, RestTypes
      <4>2. Len(batch[c]) \in Nat /\ Len(batch[c]) > 0 /\ Len(Tail(batch[c])) = Len(batch[c]) - 1
        BY <4>1
      <4>3. Len(batch[c]) # 1 => Len(Tail(batch[c])) # Len(<<>>)
        BY <4>2
      <4>4. Head(batch[c]) \in Frame /\ Tail(batch[c]) \in Seq(Frame)
        BY <4>1
      <4>5. Len(batch[c]) # 1 => Tail(batch[c]) # <<>>
        BY <4>3
      <4> QED BY <4>4, <4>5
    <3>2. f.kind = "O" => Append(recv[c], f.n) \in Seq(Nat)
      BY <1>0, <3>1 DEF RestTypes, Frame
    <3>3. recv' \in [Clients -> Seq(Nat)] /\ view' \in [Clients -> Frame \cup {NoFrame}]
      BY <1>0, <1>12, <3>1, <3>2 DEF WriteFrame, RestTypes
    <3>4. /\ batch' = [batch EXCEPT ![c] = Tail(@)]
          /\ wpc' = [wpc EXCEPT ![c] = IF Len(batch[c]) = 1 THEN "after" ELSE "write"]
          /\ UNCHANGED <<armed, resizes, chunks, since>>
      BY <1>12 DEF WriteFrame
    <3> QED BY <1>0, <3>1, <3>3, <3>4 DEF RestTypes
  <2> QED BY <2>1, <2>2, TypePartsNext
<1>13. ASSUME NEW c \in Clients, AfterDrain(c)
       PROVE  TypeInv'
  <2>1. HubTypes' /\ RestTypes'
    BY <1>0, <1>13 DEF AfterDrain, HubTypes, RestTypes, Broadcast
  <2>2. BoxTypes' /\ CreditTypes'
    <3>1. CASE blocked[c] /\ bytes[c] < Cap \div 2 /\ Fits(c, pending[c])
      <4>1. pending[c] \in Frame /\ Welcome(mode[c], SessionDims) \in Frame
        BY <1>0, <3>1, FrameTypes, SessionDimsType DEF CreditTypes, HubTypes
      <4>2. outbox[c] \o Redelivery(c) \in Seq(Frame)
        BY <1>0, <4>1 DEF BoxTypes, Redelivery
      <4>3. bytes[c] + Size(pending[c]) + WelcomeSize \in Nat
        BY <1>0, HubAssumption DEF BoxTypes, Size
      <4> QED BY <1>0, <1>13, <3>1, <4>2, <4>3 DEF AfterDrain, BoxTypes, CreditTypes
    <3>2. CASE ~(blocked[c] /\ bytes[c] < Cap \div 2 /\ Fits(c, pending[c]))
      BY <1>0, <1>13, <3>2 DEF AfterDrain, BoxTypes, CreditTypes
    <3> QED BY <3>1, <3>2
  <2> QED BY <2>1, <2>2, TypePartsNext
<1>14. ASSUME UNCHANGED vars
       PROVE  TypeInv'
  BY <1>14 DEF vars, TypeInv, TypeOK
<1> QED
  BY <1>1, <1>2, <1>3, <1>4, <1>5, <1>6, <1>7, <1>8, <1>9, <1>10, <1>11, <1>12,
     <1>13, <1>14 DEF Next, HubStep, WriterStep

\* Every variable keeps its type, whatever the clients and the configuration.
THEOREM TypeCorrect == Spec => []TypeOK
<1>1. TypeInv => TypeOK
  BY DEF TypeInv
<1> QED BY <1>1, TypeInit, TypeStep, PTL DEF Spec

-----------------------------------------------------------------------------
(* The gate.                                                               *)

LEMMA GateKept ==
  ASSUME UNCHANGED <<phase, mode, blocked>>
  PROVE  GateClosed' = GateClosed
BY DEF GateClosed, Writers, Registered

LEMMA BroadcastWakes ==
  ASSUME Broadcast
  PROVE  reader' # "wait"
BY DEF Broadcast

\* A push or a fan-out either wakes the reader or closes the gate further.
LEMMA OfferKeepsGate ==
  ASSUME TypeInv, NoLostWakeup, NEW c \in Clients, NEW f, NEW rest, Offer(c, f, rest)
  PROVE  NoLostWakeup'
<1> USE DEF Offer, NoLostWakeup, regVars, boxVars, credVars
<1>1. CASE Fits(c, f)
  BY <1>1, GateKept
<1>2. CASE Remove(c, "kicked", rest)
  BY <1>2, BroadcastWakes DEF Remove
<1>3. CASE /\ blocked' = [blocked EXCEPT ![c] = TRUE]
           /\ UNCHANGED <<regVars, reader>>
  <2>1. blocked \in [Clients -> BOOLEAN]
    BY DEF TypeInv, TypeOK
  <2>2. GateClosed => GateClosed'
    BY <1>3, <2>1 DEF GateClosed, Writers, Registered
  <2> QED BY <1>3, <2>2
<1> QED BY <1>1, <1>2, <1>3 DEF KickOrCredit

LEMMA WakeupStep == TypeInv /\ NoLostWakeup /\ [Next]_vars => NoLostWakeup'
<1> SUFFICES ASSUME TypeInv, NoLostWakeup, [Next]_vars PROVE NoLostWakeup'
  OBVIOUS
<1> USE DEF NoLostWakeup, regVars, credVars
<1>1. ASSUME NEW c \in Clients, NEW t \in Tickets, NEW d \in HelloDims, Attach(c, t, d)
      PROVE  NoLostWakeup'
  <2>1. c \notin Registered /\ mode' = [mode EXCEPT ![c] = EffectiveMode(t)]
    BY <1>1 DEF Attach, Registered
  <2>2. Writers' = Writers
    BY <1>1, <2>1 DEF Attach, Writers, Registered, TypeInv, TypeOK
  <2> QED BY <1>1, <2>2 DEF Attach, GateClosed
<1>2. ASSUME RegisterClient
      PROVE  NoLostWakeup'
  BY <1>2, BroadcastWakes DEF RegisterClient
<1>3. ASSUME NEW c \in Clients, Detach(c)
      PROVE  NoLostWakeup'
  BY <1>3, BroadcastWakes DEF Detach, Remove
<1>4. ASSUME \/ \E c \in Clients, d \in HelloDims : ReportResize(c, d)
             \/ DebounceFires
             \/ LoopDone
             \/ \E c \in Clients : Drain(c) \/ WriteFrame(c) \/ WriteFails(c)
      PROVE  NoLostWakeup'
  <2>1. UNCHANGED <<phase, mode, blocked, reader>>
    BY <1>4 DEF ReportResize, DebounceFires, LoopDone, Drain, WriteFrame, WriteFails
  <2> QED BY <2>1, GateKept
<1>5. ASSUME ReadChunk \/ Recheck
      PROVE  NoLostWakeup'
  <2>1. UNCHANGED <<phase, mode, blocked>> /\ PassGate
    BY <1>5 DEF ReadChunk, Recheck
  <2> QED BY <2>1, GateKept DEF PassGate
<1>6. ASSUME NEW c \in Clients, FanOut(c)
      PROVE  NoLostWakeup'
  BY <1>6, OfferKeepsGate DEF FanOut
<1>7. ASSUME NEW c \in Clients, PushDims(c)
      PROVE  NoLostWakeup'
  BY <1>7, OfferKeepsGate DEF PushDims
<1>8. ASSUME PromoteNext
      PROVE  NoLostWakeup'
  <2>1. CASE Candidates(Registered) = {}
    BY <1>8, <2>1, GateKept DEF PromoteNext
  <2>2. CASE Candidates(Registered) # {}
    BY <1>8, <2>2, BroadcastWakes DEF PromoteNext, Remove
  <2> QED BY <2>1, <2>2
<1>9. ASSUME NEW c \in Clients, AfterDrain(c)
      PROVE  NoLostWakeup'
  <2>1. CASE blocked[c] /\ bytes[c] < Cap \div 2 /\ Fits(c, pending[c])
    BY <1>9, <2>1, BroadcastWakes DEF AfterDrain
  <2>2. CASE ~(blocked[c] /\ bytes[c] < Cap \div 2 /\ Fits(c, pending[c]))
    BY <1>9, <2>2, GateKept DEF AfterDrain
  <2> QED BY <2>1, <2>2
<1>10. ASSUME UNCHANGED vars
       PROVE  NoLostWakeup'
  BY <1>10, GateKept DEF vars
<1> QED
  BY <1>1, <1>2, <1>3, <1>4, <1>5, <1>6, <1>7, <1>8, <1>9, <1>10
     DEF Next, HubStep, WriterStep

\* ReadLoop never sleeps on an open gate: each step that opens it broadcasts.
THEOREM GateNeverSleepsOpen == Spec => []NoLostWakeup
<1>1. Init => NoLostWakeup
  BY DEF Init, NoLostWakeup
<1> QED BY <1>1, TypeInit, TypeStep, WakeupStep, PTL DEF Spec

-----------------------------------------------------------------------------
(* Credit.                                                                 *)

\* The inductive form of CreditIsRepaid, of every client that ever attached: an
\* empty outbox counts no byte, so it never refuses a frame.
CreditInv ==
  \A c \in Clients :
    /\ outbox[c] = <<>> => bytes[c] = 0
    /\ blocked[c] => /\ mode[c] = "rw"
                     /\ phase[c] # "new"
                     /\ outbox[c] # <<>> \/ wpc[c] # "idle"

LEMMA CreditImplies == TypeInv /\ CreditInv => CreditIsRepaid
BY DEF TypeInv, CreditInv, CreditIsRepaid, Registered

\* The capacity is enough for a frame, and half of it for two more.
LEMMA CapFacts ==
  /\ \A f \in Frame : Size(f) \in Nat /\ Size(f) <= Cap
  /\ \A f \in Frame, n \in Nat : n < Cap \div 2 => n + Size(f) <= Cap
  /\ 0 < Cap \div 2
<1>1. Cap \in Nat /\ Cap >= 2 /\ OutputSize \in Nat /\ WelcomeSize \in Nat
      /\ OutputSize >= 1 /\ WelcomeSize >= 1
  BY HubAssumption
<1>2. Cap \div 2 \in Nat /\ 0 < Cap \div 2
  BY <1>1
<1>3. OutputSize + (Cap \div 2) <= Cap /\ WelcomeSize + (Cap \div 2) <= Cap
  BY <1>1, <1>2, HubAssumption
<1> QED BY <1>1, <1>2, <1>3 DEF Size

LEMMA EnqueueKeepsCredit ==
  ASSUME TypeInv, CreditInv, NEW c \in Clients, NEW f \in Frame, Enqueue(c, f),
         UNCHANGED <<blocked, wpc>>,
         \A k \in Clients : blocked[k] => mode'[k] = "rw" /\ phase'[k] # "new"
  PROVE  CreditInv'
<1>1. Append(outbox[c], f) # <<>> /\ outbox \in [Clients -> Seq(Frame)] /\ bytes \in [Clients -> Nat]
  <2>1. outbox \in [Clients -> Seq(Frame)] /\ bytes \in [Clients -> Nat]
    BY DEF TypeInv, TypeOK
  <2>2. outbox[c] \in Seq(Frame)
    BY <2>1
  <2>3. Append(outbox[c], f) # <<>>
    BY <2>2
  <2> QED BY <2>1, <2>3
<1>2. \A k \in Clients : outbox'[k] # <<>> \/ (outbox'[k] = outbox[k] /\ bytes'[k] = bytes[k])
  BY <1>1 DEF Enqueue
<1>3. \A k \in Clients : outbox[k] # <<>> => outbox'[k] # <<>>
  BY <1>1 DEF Enqueue
<1> QED BY <1>2, <1>3 DEF CreditInv

LEMMA BoxesKeepCredit ==
  ASSUME CreditInv, UNCHANGED <<outbox, bytes, blocked, wpc>>,
         \A k \in Clients : blocked[k] => mode'[k] = "rw" /\ phase'[k] # "new"
  PROVE  CreditInv'
BY DEF CreditInv

\* Whoever refuses a frame has something queued.
LEMMA OfferKeepsCredit ==
  ASSUME TypeInv, CreditInv, NEW c \in Registered, NEW f \in Frame, NEW rest,
         Offer(c, f, rest), wpc' = wpc
  PROVE  CreditInv'
<1> USE DEF Offer, regVars, boxVars, credVars
<1>0. c \in Clients /\ phase[c] = "in"
  BY DEF Registered
<1>1. CASE Fits(c, f)
  BY <1>0, <1>1, EnqueueKeepsCredit DEF CreditInv
<1>2. CASE ~Fits(c, f) /\ Remove(c, "kicked", rest) /\ UNCHANGED <<boxVars, credVars>>
  <2>1. \A k \in Clients : phase[k] # "new" => phase'[k] # "new"
    BY <1>2 DEF Remove, TypeInv, TypeOK
  <2>2. mode' = mode
    BY <1>2 DEF Remove
  <2> QED BY <1>2, <2>1, <2>2, BoxesKeepCredit DEF CreditInv
<1>3. CASE /\ ~Fits(c, f)
           /\ Creditable(c)
           /\ blocked' = [blocked EXCEPT ![c] = TRUE]
           /\ UNCHANGED <<regVars, boxVars>>
  <2>1. outbox[c] # <<>>
    <3>1. bytes[c] # 0
      BY <1>0, <1>3, CapFacts DEF Fits
    <3> QED BY <1>0, <3>1 DEF CreditInv
  <2>2. \A k \in Clients : blocked'[k] => blocked[k] \/ k = c
    BY <1>3 DEF TypeInv, TypeOK
  <2> QED BY <1>0, <1>3, <2>1, <2>2 DEF CreditInv, Creditable
<1> QED BY <1>1, <1>2, <1>3 DEF KickOrCredit

LEMMA CreditStep == TypeInv /\ CreditInv /\ [Next]_vars => CreditInv'
<1> SUFFICES ASSUME TypeInv, CreditInv, [Next]_vars PROVE CreditInv'
  OBVIOUS
<1> USE DEF regVars, boxVars, credVars
<1>0. HubTypes /\ BoxTypes /\ CreditTypes /\ RestTypes
  BY TypeParts
<1>1. ASSUME NEW c \in Clients, NEW t \in Tickets, NEW d \in HelloDims, Attach(c, t, d)
      PROVE  CreditInv'
  <2>1. ~blocked[c] /\ phase' = phase
    BY <1>1 DEF Attach, CreditInv
  <2>2. \A k \in Clients : k # c => mode'[k] = mode[k]
    BY <1>0, <1>1 DEF Attach, HubTypes
  <2>3. UNCHANGED <<outbox, bytes, blocked, wpc>>
    BY <1>1 DEF Attach, wireVars
  <2> QED BY <2>1, <2>2, <2>3, BoxesKeepCredit DEF CreditInv
<1>2. ASSUME RegisterClient
      PROVE  CreditInv'
  <2> DEFINE c == Head(calls).client
  <2>1. c \in Clients
    BY <1>0, <1>2, HeadTypes DEF RegisterClient, Running, HubTypes
  <2>2. Enqueue(c, Welcome(mode[c], SessionDims)) /\ phase' = [phase EXCEPT ![c] = "in"]
        /\ UNCHANGED <<mode, blocked, wpc>>
    BY <1>2 DEF RegisterClient, wireVars
  <2>3. \A k \in Clients : phase[k] # "new" => phase'[k] # "new"
    BY <1>0, <2>1, <2>2 DEF HubTypes
  <2>4. Welcome(mode[c], SessionDims) \in Frame
    BY <1>0, <2>1, FrameTypes, SessionDimsType DEF HubTypes
  <2> HIDE DEF c
  <2> QED BY <2>1, <2>2, <2>3, <2>4, EnqueueKeepsCredit DEF CreditInv
<1>3. ASSUME NEW c \in Clients, Detach(c)
      PROVE  CreditInv'
  <2>1. \A k \in Clients : phase[k] # "new" => phase'[k] # "new"
    BY <1>0, <1>3 DEF Detach, Remove, HubTypes
  <2>2. UNCHANGED <<mode, outbox, bytes, blocked, wpc>>
    BY <1>3 DEF Detach, Remove, wireVars
  <2> QED BY <2>1, <2>2, BoxesKeepCredit DEF CreditInv
<1>4. ASSUME \/ \E c \in Clients, d \in HelloDims : ReportResize(c, d)
             \/ DebounceFires \/ LoopDone \/ ReadChunk \/ Recheck
      PROVE  CreditInv'
  <2>1. UNCHANGED <<phase, mode, outbox, bytes, blocked, wpc>>
    BY <1>4 DEF ReportResize, DebounceFires, LoopDone, ReadChunk, Recheck, wireVars
  <2> QED BY <2>1 DEF CreditInv
<1>5. ASSUME NEW c \in Clients, FanOut(c)
      PROVE  CreditInv'
  <2> DEFINE job == Head(calls)
             rest == Loop(Fan(job.n, job.todo \ {c}), Tail(calls))
  <2>1. Output(job.n) \in Frame
    BY <1>0, <1>5, HeadTypes, FrameTypes DEF FanOut, Running, HubTypes
  <2>2. Offer(c, Output(job.n), rest) /\ c \in Registered /\ wpc' = wpc
    BY <1>5 DEF FanOut, wireVars
  <2> HIDE DEF job, rest
  <2> QED BY <2>1, <2>2, OfferKeepsCredit
<1>6. ASSUME NEW c \in Clients, PushDims(c)
      PROVE  CreditInv'
  <2> DEFINE job == Head(calls)
             rest == Loop(Push(job.dims, job.todo \ {c}), Tail(calls))
  <2>1. Welcome(mode[c], job.dims) \in Frame
    BY <1>0, <1>6, HeadTypes, FrameTypes DEF PushDims, Running, HubTypes
  <2>2. Offer(c, Welcome(mode[c], job.dims), rest) /\ c \in Registered /\ wpc' = wpc
    BY <1>6 DEF PushDims, wireVars
  <2> HIDE DEF job, rest
  <2> QED BY <2>1, <2>2, OfferKeepsCredit
<1>7. ASSUME PromoteNext
      PROVE  CreditInv'
  <2>0. UNCHANGED <<blocked, wpc>>
    BY <1>7 DEF PromoteNext, wireVars
  <2>1. \A k \in Clients : mode[k] = "rw" => mode'[k] = "rw"
    BY <1>0, <1>7 DEF PromoteNext, Remove, HubTypes
  <2>2. \A k \in Clients : phase[k] # "new" => phase'[k] # "new"
    BY <1>0, <1>7 DEF PromoteNext, Remove, HubTypes
  <2>3. UNCHANGED <<outbox, bytes>> \/ \E c \in Clients, f \in Frame : Enqueue(c, f)
    <3>1. \A k \in Clients : Welcome("rw", hello[k]) \in Frame
      BY <1>0, DimsTypes, FrameTypes DEF HubTypes, Modes
    <3> QED BY <1>7, <3>1 DEF PromoteNext, Candidates, Registered
  <2>4. \A k \in Clients : blocked[k] => mode'[k] = "rw" /\ phase'[k] # "new"
    BY <2>1, <2>2 DEF CreditInv
  <2> QED BY <2>0, <2>3, <2>4, EnqueueKeepsCredit, BoxesKeepCredit
<1>8. ASSUME NEW c \in Clients, Drain(c) \/ WriteFrame(c) \/ WriteFails(c)
      PROVE  CreditInv'
  <2>1. UNCHANGED <<phase, mode, blocked>> /\ wpc'[c] # "idle"
        /\ \A k \in Clients \ {c} : wpc'[k] = wpc[k] /\ outbox'[k] = outbox[k] /\ bytes'[k] = bytes[k]
    BY <1>0, <1>8 DEF Drain, WriteFrame, WriteFails, RestTypes, BoxTypes
  <2>2. outbox'[c] = <<>> => bytes'[c] = 0
    BY <1>0, <1>8 DEF Drain, WriteFrame, WriteFails, BoxTypes, CreditInv
  <2> QED BY <2>1, <2>2 DEF CreditInv
<1>9. ASSUME NEW c \in Clients, AfterDrain(c)
      PROVE  CreditInv'
  <2>0. UNCHANGED <<phase, mode>> /\ wpc' = [wpc EXCEPT ![c] = "idle"]
    BY <1>9 DEF AfterDrain
  <2>1. CASE blocked[c] /\ bytes[c] < Cap \div 2 /\ Fits(c, pending[c])
    <3>1. ~blocked'[c] /\ outbox'[c] # <<>>
      <4>1. Len(outbox[c] \o Redelivery(c)) = Len(outbox[c]) + 2
        <5>1. outbox[c] \in Seq(Frame) /\ pending[c] \in Frame
          BY <1>0, <2>1 DEF BoxTypes, CreditTypes
        <5>2. Redelivery(c) \in Seq(Frame) /\ Len(Redelivery(c)) = 2
          BY <1>0, <5>1, FrameTypes, SessionDimsType DEF Redelivery, HubTypes
        <5> HIDE DEF Redelivery
        <5>3. \A p, q \in Seq(Frame) : Len(p \o q) = Len(p) + Len(q)
          BY ConcatProperties
        <5> QED BY <5>1, <5>2, <5>3
      <4>2. Len(outbox[c]) \in Nat
        BY <1>0 DEF BoxTypes
      <4>3. outbox[c] \o Redelivery(c) # <<>>
        BY <4>1, <4>2
      <4> QED BY <1>0, <1>9, <2>1, <4>3 DEF AfterDrain, BoxTypes, CreditTypes
    <3>2. \A k \in Clients \ {c} : outbox'[k] = outbox[k] /\ bytes'[k] = bytes[k]
                                  /\ blocked'[k] = blocked[k] /\ wpc'[k] = wpc[k]
      BY <1>0, <1>9, <2>1 DEF AfterDrain, BoxTypes, CreditTypes, RestTypes
    <3> QED BY <2>0, <3>1, <3>2 DEF CreditInv
  <2>2. CASE ~(blocked[c] /\ bytes[c] < Cap \div 2 /\ Fits(c, pending[c]))
    <3>1. UNCHANGED <<outbox, bytes, blocked>>
      BY <1>9, <2>2 DEF AfterDrain
    <3>2. blocked[c] => outbox[c] # <<>>
      <4> SUFFICES ASSUME blocked[c], outbox[c] = <<>> PROVE FALSE
        OBVIOUS
      <4>1. bytes[c] = 0 /\ pending[c] \in Frame
        BY <1>0 DEF CreditInv, CreditTypes
      <4> QED BY <2>2, <4>1, CapFacts DEF Fits
    <3>3. \A k \in Clients \ {c} : wpc'[k] = wpc[k]
      BY <1>0, <2>0 DEF RestTypes
    <3> QED BY <2>0, <3>1, <3>2, <3>3 DEF CreditInv
  <2> QED BY <2>1, <2>2
<1>10. ASSUME UNCHANGED vars
       PROVE  CreditInv'
  BY <1>10 DEF vars, wireVars, CreditInv
<1> QED
  BY <1>1, <1>2, <1>3, <1>4, <1>5, <1>6, <1>7, <1>8, <1>9, <1>10
     DEF Next, HubStep, WriterStep

\* A writer that was credited keeps its refused frame and will be drained again.
THEOREM CreditAlwaysRepaid == Spec => []CreditIsRepaid
<1>1. Init => CreditInv
  BY DEF Init, CreditInv
<1> QED BY <1>1, TypeInit, TypeStep, CreditStep, CreditImplies, PTL DEF Spec
=============================================================================

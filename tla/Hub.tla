-------------------------------- MODULE Hub --------------------------------
(***************************************************************************)
(* The shared-session hub of internal/server: the client registry, the     *)
(* write-permission owner and its FIFO succession, the per-client bounded  *)
(* outboxes and their writer goroutines, the credit gate that stops        *)
(* reading the PTY, and the arbiter of the session dimensions.             *)
(*                                                                         *)
(* Everything but the outboxes is guarded by one mutex, hubMu.  A critical *)
(* section may nest (a failed push kicks a client, the kick recomputes the *)
(* dimensions, which pushes again), and writer goroutines drain outboxes   *)
(* while it runs.  "calls" is the stack of what the holder of hubMu still  *)
(* has to do, innermost first; hubMu is free exactly when it is empty.     *)
(*                                                                         *)
(* Each element of Clients is one attach: a reconnecting browser is a new  *)
(* element, as the code allocates a new client struct.                     *)
(***************************************************************************)
EXTENDS Naturals, Sequences

CONSTANTS
  Clients,        \* attach instances
  NoClient,       \* nil
  Tickets,        \* modes of the tickets issued: share tokens bind one, else "rw"
  HelloDims,      \* dimensions a Hello or a RESIZE may report
  SpawnDims,      \* pty.SpawnCols x pty.SpawnRows
  Writable,       \* --writable
  AllWrite,       \* --write-policy=all (owner otherwise)
  Cap,            \* byte capacity of an outbox
  OutputSize,     \* bytes of an OUTPUT frame
  WelcomeSize,    \* bytes of a Welcome frame
  MaxChunks,      \* bound: chunks the PTY produces
  MaxResizes      \* bound: RESIZE frames accepted

Dims == (Nat \ {0}) \X (Nat \ {0})     \* <<cols, rows>>, clamped by DecodeHello
ZeroDims == <<0, 0>>

\* A Welcome fits an empty outbox, and an outbox under its half mark has room
\* for the largest frame and a Welcome.  In the code both are constants, an
\* outbox of 512 KiB and chunks of 32 KiB; only tests set others.
ASSUME HubAssumption ==
  /\ NoClient \notin Clients
  /\ Tickets \subseteq {"ro", "rw"}
  /\ HelloDims \subseteq Dims
  /\ SpawnDims \in Dims
  /\ Writable \in BOOLEAN
  /\ AllWrite \in BOOLEAN
  /\ Cap \in Nat \ {0, 1}
  /\ OutputSize \in Nat \ {0}
  /\ WelcomeSize \in Nat \ {0}
  /\ OutputSize + WelcomeSize + (Cap \div 2) <= Cap + 1
  /\ 2 * WelcomeSize + (Cap \div 2) <= Cap + 1
  /\ MaxChunks \in Nat
  /\ MaxResizes \in Nat

\* Dimensions the arbiter can see.
ArbiterDims == HelloDims \cup {SpawnDims}

VARIABLES
  phase,      \* "new", "in" (a member of registry.set), "detached", "kicked"
  attachSeq,  \* FIFO number given by registerLocked, 0 before
  seq,        \* registry.seq
  mode,       \* effective mode of each client
  rwEligible, \* candidate for the owner succession
  hello,      \* dimensions of the client's Hello
  owner,      \* registry.owner
  outbox,     \* queued frames of each client
  bytes,      \* bytes queued, as outbox.bytes counts them
  blocked,    \* creditBlocked
  pending,    \* creditPending
  sizes,      \* arbiter.sizes, ZeroDims for a client that is no member
  last,       \* arbiter.last, the dimensions of the PTY once set
  armed,      \* the debounce timer is running
  resizes,    \* RESIZE frames accepted so far
  calls,      \* the critical section in progress, innermost first
  reader,     \* ReadLoop: "free", "wait" in hubCond.Wait, "woken"
  chunks,     \* chunks framed and fanned out so far
  wpc,        \* writer goroutine: "idle", "write", "after", "dead"
  batch,      \* frames the writer drained and has not written yet
  since,      \* history: value of chunks when the client was registered
  recv,       \* history: OUTPUT chunks written to the client, in order
  view        \* history: last Welcome written to the client

regVars  == <<phase, attachSeq, seq, mode, rwEligible, hello, owner>>
boxVars  == <<outbox, bytes>>
credVars == <<blocked, pending>>
arbVars  == <<sizes, last>>
wireVars == <<wpc, batch, recv, view>>
vars == <<regVars, boxVars, credVars, arbVars, armed, resizes, calls, reader,
          chunks, since, wireVars>>

-----------------------------------------------------------------------------
(* Frames and outboxes.                                                    *)

Modes == {"ro", "rw"}

Output(n) == [kind |-> "O", n |-> n]
Welcome(m, d) == [kind |-> "W", mode |-> m, dims |-> d]
NoFrame == [kind |-> "none"]
Frame == [kind : {"O"}, n : Nat] \cup [kind : {"W"}, mode : Modes, dims : Dims]

Size(f) == IF f.kind = "O" THEN OutputSize ELSE WelcomeSize

Fits(c, f) == bytes[c] + Size(f) <= Cap

\* outbox.trySend, when the frame fits.
Enqueue(c, f) ==
  /\ outbox' = [outbox EXCEPT ![c] = Append(@, f)]
  /\ bytes' = [bytes EXCEPT ![c] = @ + Size(f)]

-----------------------------------------------------------------------------
(* Registry, credit gate and arbiter: pure functions of the hub's state.   *)

Registered == {c \in Clients : phase[c] = "in"}

Writers == {c \in Registered : mode[c] = "rw"}

GateClosed == Writers # {} /\ \A c \in Writers : blocked[c]

\* Fault: a second writer is let in while the owner is there.
EffectiveModeUnowned(t) == IF Writable /\ t = "rw" THEN "rw" ELSE "ro"

\* decideModeLocked: the mode a ticket of mode t is given.
EffectiveMode(t) ==
  IF Writable /\ t = "rw" /\ (AllWrite \/ owner = NoClient) THEN "rw" ELSE "ro"

Eligible(t) == Writable /\ t = "rw" /\ ~AllWrite

Participates(m) == m = "rw" \/ ~Writable

Members(sz) == {c \in Clients : sz[c] # ZeroDims}

\* Fault: the fall-back to the spawn dimensions is forgotten.
SessionDimsRaw == last

\* The common rectangle of the members (the only one's dimensions when there is
\* one), ZeroDims when there is none.
Arbitrate(sz) ==
  LET m == Members(sz)
      Least(i) == CHOOSE x \in {sz[c][i] : c \in m} : \A c \in m : x <= sz[c][i]
  IN  IF m = {} THEN ZeroDims ELSE <<Least(1), Least(2)>>

SessionDims == IF last = ZeroDims THEN SpawnDims ELSE last

\* Fault: succession looks only at the head of the queue, or takes the last comer.
CandidatesHead(reg) ==
  {c \in reg : rwEligible[c] /\ \A o \in reg : attachSeq[c] <= attachSeq[o]}
CandidatesLifo(reg) ==
  {c \in reg : rwEligible[c] /\ \A o \in reg : rwEligible[o] => attachSeq[c] >= attachSeq[o]}

\* promoteNextLocked's scan of registry.order.
Candidates(reg) ==
  {c \in reg : rwEligible[c] /\ \A o \in reg : rwEligible[o] => attachSeq[c] <= attachSeq[o]}

-----------------------------------------------------------------------------
(* The stack of the critical section.                                      *)

Fan(n, todo)  == [op |-> "fan", n |-> n, todo |-> todo]
Push(d, todo) == [op |-> "push", dims |-> d, todo |-> todo]
Promote       == [op |-> "promote"]
Register(c)   == [op |-> "register", client |-> c]

Call == [op : {"fan"}, n : Nat, todo : SUBSET Clients]
          \cup [op : {"push"}, dims : Dims, todo : SUBSET Clients]
          \cup [op : {"promote"}]
          \cup [op : {"register"}, client : Clients]

Free == calls = <<>>
Running(op) == calls # <<>> /\ Head(calls).op = op

\* A loop with "job" left to do, unless nothing is.
Loop(job, rest) == IF job.todo = {} THEN rest ELSE <<job>> \o rest

\* Fault: a change of the gate is not signalled.
BroadcastMissing == UNCHANGED reader

\* hubCond.Broadcast, seen from ReadLoop.
Broadcast == reader' = IF reader = "wait" THEN "woken" ELSE reader

\* Fault: a client that left stays in the arbiter.
WithoutForgotten(sz, c) == sz

Without(sz, c) == [sz EXCEPT ![c] = ZeroDims]

\* recalcNow with members sz and registry reg; "rest" is what follows it.
Recalc(sz, reg, rest) ==
  LET target == Arbitrate(sz)
  IN  /\ sizes' = sz
      /\ IF target \in {ZeroDims, last}
           THEN last' = last /\ calls' = rest
           ELSE last' = target /\ calls' = Loop(Push(target, reg), rest)

\* What detach and kickSlowConsumerLocked share: out of the registry, out of
\* the arbiter, succession when the owner leaves, and a wake-up of the gate.
Remove(c, fate, rest) ==
  /\ phase' = [phase EXCEPT ![c] = fate]
  /\ Recalc(Without(sizes, c), Registered \ {c},
            IF owner = c THEN <<Promote>> \o rest ELSE rest)
  /\ Broadcast
  /\ UNCHANGED <<attachSeq, seq, mode, rwEligible, hello, owner>>

\* Fault: the comparison with the other writers includes the client itself.
ExpendableSelf(c) == mode[c] = "ro" \/ \E o \in Writers : ~blocked[o]

\* Fault: spectators are given credit too.
CreditableAll(c) == TRUE

\* A full client may be cut off when it is a spectator, or a writer that lags
\* behind another one whose frames still flow.
Expendable(c) == mode[c] = "ro" \/ \E o \in Writers \ {c} : ~blocked[o]

Creditable(c) == mode[c] = "rw"

\* Fault: the refused frame is not kept.
KeptNothing(c, f) == pending[c]

\* creditPending after frame f was refused: only the first one is kept.
Kept(c, f) == IF blocked[c] THEN pending[c] ELSE f

\* kickOrCreditLocked for frame f, which c's outbox refused.  Within 500 ms of
\* its attach a writer is credited although another one flows; the time itself
\* is not modelled, so either may happen then.
KickOrCredit(c, f, rest) ==
  \/ /\ Expendable(c)
     /\ Remove(c, "kicked", rest)
     /\ UNCHANGED credVars
  \/ /\ Creditable(c)
     /\ blocked' = [blocked EXCEPT ![c] = TRUE]
     /\ pending' = [pending EXCEPT ![c] = Kept(c, f)]
     /\ calls' = rest
     /\ UNCHANGED <<regVars, arbVars, reader>>

\* Hand f to c from a loop that continues with "rest".
Offer(c, f, rest) ==
  IF Fits(c, f)
    THEN Enqueue(c, f) /\ calls' = rest /\ UNCHANGED <<regVars, credVars, arbVars, reader>>
    ELSE KickOrCredit(c, f, rest) /\ UNCHANGED boxVars

-----------------------------------------------------------------------------
(* Attach, detach, RESIZE.                                                 *)

\* Attach's shared branch up to the recalculation: a newcomer that takes part is
\* a member of the arbiter but not of the registry yet, so the push misses it.
\* A spectator changes no dimensions.  RegisterClient is the rest.
Attach(c, t, d) ==
  /\ Free
  /\ phase[c] = "new"
  /\ mode' = [mode EXCEPT ![c] = EffectiveMode(t)]
  /\ rwEligible' = [rwEligible EXCEPT ![c] = Eligible(t)]
  /\ hello' = [hello EXCEPT ![c] = d]
  /\ IF Participates(EffectiveMode(t))
       THEN Recalc([sizes EXCEPT ![c] = d], Registered, <<Register(c)>>)
       ELSE calls' = <<Register(c)>> /\ UNCHANGED arbVars
  /\ UNCHANGED <<phase, attachSeq, seq, owner, boxVars, credVars, armed,
                 resizes, reader, chunks, since, wireVars>>

\* The end of Attach's critical section: Welcome, registerLocked, owner, and
\* the wake-up (a new writer opens a closed gate).
RegisterClient ==
  /\ Running("register")
  /\ LET c == Head(calls).client
     IN  /\ Enqueue(c, Welcome(mode[c], SessionDims))
         /\ phase' = [phase EXCEPT ![c] = "in"]
         /\ attachSeq' = [attachSeq EXCEPT ![c] = seq + 1]
         /\ owner' = IF rwEligible[c] /\ mode[c] = "rw" THEN c ELSE owner
         /\ since' = [since EXCEPT ![c] = chunks]
  /\ seq' = seq + 1
  /\ calls' = Tail(calls)
  /\ Broadcast
  /\ UNCHANGED <<mode, rwEligible, hello, credVars, arbVars, armed, resizes,
                 chunks, wireVars>>

\* The reader of c ended: closed by the peer, a network error, a pong timeout.
Detach(c) ==
  /\ Free
  /\ c \in Registered
  /\ Remove(c, "detached", <<>>)
  /\ UNCHANGED <<boxVars, credVars, armed, resizes, chunks, since, wireVars>>

\* A RESIZE frame of a read-write client: recorded, applied by the timer.
ReportResize(c, d) ==
  /\ Free
  /\ resizes < MaxResizes
  /\ c \in Writers
  /\ sizes[c] # ZeroDims
  /\ sizes' = [sizes EXCEPT ![c] = d]
  /\ armed' = TRUE
  /\ resizes' = resizes + 1
  /\ UNCHANGED <<regVars, boxVars, credVars, last, calls, reader, chunks, since,
                 wireVars>>

DebounceFires ==
  /\ Free
  /\ armed
  /\ armed' = FALSE
  /\ Recalc(sizes, Registered, <<>>)
  /\ UNCHANGED <<regVars, boxVars, credVars, resizes, reader, chunks, since,
                 wireVars>>

-----------------------------------------------------------------------------
(* The fan-out of PTY output (onChunk), run by the only reader of the PTY. *)

\* The loop on hubCond.Wait, then framing and the range over the registry.
PassGate ==
  IF GateClosed
    THEN reader' = "wait" /\ UNCHANGED <<calls, chunks>>
    ELSE /\ reader' = "free"
         /\ chunks' = chunks + 1
         /\ calls' = Loop(Fan(chunks + 1, Registered), <<>>)

ReadChunk ==
  /\ Free
  /\ reader = "free"
  /\ chunks < MaxChunks
  /\ PassGate
  /\ UNCHANGED <<regVars, boxVars, credVars, arbVars, armed, resizes, since, wireVars>>

Recheck ==
  /\ Free
  /\ reader = "woken"
  /\ PassGate
  /\ UNCHANGED <<regVars, boxVars, credVars, arbVars, armed, resizes, since, wireVars>>

\* One iteration of a range over registry.set: entries deleted meanwhile are
\* not produced, the order is unspecified.
FanOut(c) ==
  /\ Running("fan")
  /\ LET job == Head(calls)
     IN  /\ c \in job.todo \cap Registered
         /\ Offer(c, Output(job.n), Loop(Fan(job.n, job.todo \ {c}), Tail(calls)))
  /\ UNCHANGED <<armed, resizes, chunks, since, wireVars>>

\* A push nested in this one has moved the PTY to other dimensions.
Stale(job) == job.dims # last

\* One iteration of pushSessionDimsLocked; a stale one stops.
PushDims(c) ==
  /\ Running("push")
  /\ LET job == Head(calls)
     IN  /\ ~Stale(job)
         /\ c \in job.todo \cap Registered
         /\ Offer(c, Welcome(mode[c], job.dims),
                  Loop(Push(job.dims, job.todo \ {c}), Tail(calls)))
  /\ UNCHANGED <<armed, resizes, chunks, since, wireVars>>

\* A loop ends early: the rest of its clients left, or its dimensions are stale.
LoopDone ==
  /\ \/ Running("fan") /\ Head(calls).todo \cap Registered = {}
     \/ Running("push") /\ (Head(calls).todo \cap Registered = {} \/ Stale(Head(calls)))
  /\ calls' = Tail(calls)
  /\ UNCHANGED <<regVars, boxVars, credVars, arbVars, armed, resizes, reader,
                 chunks, since, wireVars>>

\* One round of promoteNextLocked: the first eligible client becomes owner if
\* the Welcome that tells it so fits; else it is kicked and the scan restarts.
PromoteNext ==
  /\ Running("promote")
  /\ IF Candidates(Registered) = {}
       THEN /\ owner' = NoClient
            /\ calls' = Tail(calls)
            /\ UNCHANGED <<phase, attachSeq, seq, mode, rwEligible, hello,
                           boxVars, arbVars, reader>>
       ELSE \E c \in Candidates(Registered) :
              LET notice == Welcome("rw", hello[c])
              IN  IF Fits(c, notice)
                    THEN /\ Enqueue(c, notice)
                         /\ owner' = c
                         /\ mode' = [mode EXCEPT ![c] = "rw"]
                         /\ Recalc([sizes EXCEPT ![c] = hello[c]], Registered, Tail(calls))
                         /\ Broadcast
                         /\ UNCHANGED <<phase, attachSeq, seq, rwEligible, hello>>
                    ELSE Remove(c, "kicked", calls) /\ UNCHANGED boxVars
  /\ UNCHANGED <<credVars, armed, resizes, chunks, since, wireVars>>

-----------------------------------------------------------------------------
(* The writer goroutine of each client.  It only needs hubMu in afterDrain. *)

Drain(c) ==
  /\ phase[c] # "new"
  /\ wpc[c] = "idle"
  /\ outbox[c] # <<>>
  /\ batch' = [batch EXCEPT ![c] = outbox[c]]
  /\ outbox' = [outbox EXCEPT ![c] = <<>>]
  /\ bytes' = [bytes EXCEPT ![c] = 0]
  /\ wpc' = [wpc EXCEPT ![c] = "write"]
  /\ UNCHANGED <<regVars, credVars, arbVars, armed, resizes, calls, reader,
                 chunks, since, recv, view>>

\* A successful conn.Write.  mergeBatch may put several OUTPUT frames in one
\* message; the client sees the same bytes as from these single writes.
WriteFrame(c) ==
  /\ wpc[c] = "write"
  /\ LET f == Head(batch[c])
     IN  IF f.kind = "O"
           THEN recv' = [recv EXCEPT ![c] = Append(@, f.n)] /\ view' = view
           ELSE recv' = recv /\ view' = [view EXCEPT ![c] = f]
  /\ batch' = [batch EXCEPT ![c] = Tail(@)]
  /\ wpc' = [wpc EXCEPT ![c] = IF Len(batch[c]) = 1 THEN "after" ELSE "write"]
  /\ UNCHANGED <<regVars, boxVars, credVars, arbVars, armed, resizes, calls,
                 reader, chunks, since>>

\* conn.Write fails: the goroutine returns, the reader will detach the client.
WriteFails(c) ==
  /\ wpc[c] = "write"
  /\ wpc' = [wpc EXCEPT ![c] = "dead"]
  /\ batch' = [batch EXCEPT ![c] = <<>>]
  /\ UNCHANGED <<regVars, boxVars, credVars, arbVars, armed, resizes, calls,
                 reader, chunks, since, recv, view>>

\* Fault: the Welcome, or the refused frame, is not sent again.
RedeliveryNoWelcome(c) == <<pending[c]>>
RedeliveryNoFrame(c) == <<Welcome(mode[c], SessionDims)>>

\* What a client gets when its credit is given back: the frame it was refused,
\* and the dimensions, for pushes refused meanwhile were not kept.
Redelivery(c) == <<pending[c], Welcome(mode[c], SessionDims)>>

\* The credit is given back under half of the capacity, and the gate reopens.
AfterDrain(c) ==
  /\ wpc[c] = "after"
  /\ Free
  /\ wpc' = [wpc EXCEPT ![c] = "idle"]
  /\ IF blocked[c] /\ bytes[c] < Cap \div 2 /\ Fits(c, pending[c])
       THEN /\ outbox' = [outbox EXCEPT ![c] = @ \o Redelivery(c)]
            /\ bytes' = [bytes EXCEPT ![c] = @ + Size(pending[c]) + WelcomeSize]
            /\ blocked' = [blocked EXCEPT ![c] = FALSE]
            /\ pending' = [pending EXCEPT ![c] = NoFrame]
            /\ Broadcast
       ELSE UNCHANGED <<boxVars, credVars, reader>>
  /\ UNCHANGED <<regVars, arbVars, armed, resizes, calls, chunks, since, batch,
                 recv, view>>

-----------------------------------------------------------------------------
Init ==
  /\ phase = [c \in Clients |-> "new"]
  /\ attachSeq = [c \in Clients |-> 0]
  /\ seq = 0
  /\ mode = [c \in Clients |-> "ro"]
  /\ rwEligible = [c \in Clients |-> FALSE]
  /\ hello = [c \in Clients |-> SpawnDims]
  /\ owner = NoClient
  /\ outbox = [c \in Clients |-> <<>>]
  /\ bytes = [c \in Clients |-> 0]
  /\ blocked = [c \in Clients |-> FALSE]
  /\ pending = [c \in Clients |-> NoFrame]
  /\ sizes = [c \in Clients |-> ZeroDims]
  /\ last = ZeroDims
  /\ armed = FALSE
  /\ resizes = 0
  /\ calls = <<>>
  /\ reader = "free"
  /\ chunks = 0
  /\ wpc = [c \in Clients |-> "idle"]
  /\ batch = [c \in Clients |-> <<>>]
  /\ since = [c \in Clients |-> 0]
  /\ recv = [c \in Clients |-> <<>>]
  /\ view = [c \in Clients |-> NoFrame]

\* What the holder of hubMu does next.
HubStep ==
  \/ RegisterClient
  \/ \E c \in Clients : FanOut(c) \/ PushDims(c)
  \/ LoopDone
  \/ PromoteNext

WriterStep(c) == Drain(c) \/ WriteFrame(c) \/ WriteFails(c) \/ AfterDrain(c)

Next ==
  \/ HubStep
  \/ \E c \in Clients, t \in Tickets, d \in HelloDims : Attach(c, t, d)
  \/ \E c \in Clients, d \in HelloDims : ReportResize(c, d)
  \/ \E c \in Clients : Detach(c) \/ WriterStep(c)
  \/ DebounceFires
  \/ ReadChunk
  \/ Recheck

Spec == Init /\ [][Next]_vars

\* hubMu is never held forever; a signalled goroutine runs and gets hubMu; a
\* Write ends (the pinger closes a connection whose peer stopped answering);
\* the reader of a broken connection reaches detach.  Nothing obliges clients
\* to come, leave or resize, or the PTY to produce.
Fairness ==
  /\ WF_vars(HubStep)
  /\ SF_vars(Recheck)
  /\ SF_vars(DebounceFires)
  /\ \A c \in Clients :
       /\ WF_vars(Drain(c))
       /\ WF_vars(WriteFrame(c) \/ WriteFails(c))
       /\ SF_vars(AfterDrain(c))
       /\ SF_vars(wpc[c] = "dead" /\ Detach(c))

FairSpec == Spec /\ Fairness

-----------------------------------------------------------------------------
(* Properties.                                                             *)

\* Every variable has its type.
TypeOK ==
  /\ phase \in [Clients -> {"new", "in", "detached", "kicked"}]
  /\ attachSeq \in [Clients -> Nat]
  /\ seq \in Nat
  /\ mode \in [Clients -> Modes]
  /\ rwEligible \in [Clients -> BOOLEAN]
  /\ hello \in [Clients -> ArbiterDims]
  /\ owner \in Clients \cup {NoClient}
  /\ outbox \in [Clients -> Seq(Frame)]
  /\ bytes \in [Clients -> Nat]
  /\ blocked \in [Clients -> BOOLEAN]
  /\ pending \in [Clients -> Frame \cup {NoFrame}]
  /\ sizes \in [Clients -> ArbiterDims \cup {ZeroDims}]
  /\ last \in Dims \cup {ZeroDims}
  /\ armed \in BOOLEAN
  /\ resizes \in Nat
  /\ calls \in Seq(Call)
  /\ reader \in {"free", "wait", "woken"}
  /\ chunks \in Nat
  /\ wpc \in [Clients -> {"idle", "write", "after", "dead"}]
  /\ batch \in [Clients -> Seq(Frame)]
  /\ since \in [Clients -> Nat]
  /\ recv \in [Clients -> Seq(Nat)]
  /\ view \in [Clients -> Frame \cup {NoFrame}]

\* With write-policy owner the clients that may type are exactly the owner,
\* whenever hubMu is free; with all, or without --writable, nobody is owner.
\* (decideModeLocked, promoteNextLocked, kick and detach)
SingleWriter ==
  IF Writable /\ ~AllWrite
    THEN Free => Writers = (IF owner = NoClient THEN {} ELSE {owner})
    ELSE owner = NoClient

\* A client that may write is never left waiting while nobody has the right:
\* the succession runs in the critical section that removes the owner.
NoVacantOwner ==
  Free /\ owner = NoClient => \A c \in Registered : ~rwEligible[c]

\* The succession is first come first served: an owner that takes over from
\* another was registered before every other candidate still there.
FifoSuccession ==
  [][\A c \in Registered :
       owner' = c /\ owner # c /\ phase'[c] = "in" =>
         \A o \in Registered : rwEligible[o] => attachSeq[c] <= attachSeq[o]]_vars

\* ReadLoop sleeps in hubCond.Wait only while the gate is closed: every way of
\* opening it (afterDrain, attach, promotion, detach, kick) wakes it.
NoLostWakeup ==
  reader = "wait" => GateClosed

\* A client that holds a credit is a writer, its refused frame is kept, and a
\* drain that will give the credit back is on its way (or its connection is
\* broken and the detach will).
CreditIsRepaid ==
  \A c \in Registered :
    blocked[c] =>
      /\ mode[c] = "rw"
      /\ pending[c] # NoFrame
      /\ outbox[c] # <<>> \/ wpc[c] # "idle"

\* The OUTPUT bytes a client gets are the PTY's, in order and without a gap,
\* from its attach on; a client too slow is cut off, never skipped.
StreamExact ==
  \A c \in Clients : \A i \in DOMAIN recv[c] : recv[c][i] = since[c] + i

\* The same for the clients that are, or were when they left, spectators.
SpectatorStreamExact ==
  \A c \in Clients : mode[c] = "ro" =>
    \A i \in DOMAIN recv[c] : recv[c][i] = since[c] + i

\* The fan-out implements OrderedStream.
Ordered == INSTANCE OrderedStream
             WITH published <- chunks, joined <- {c \in Clients : phase[c] # "new"}
OrderedSpec == Ordered!Spec

\* The arbiter weighs the registered clients that take part and no other: a
\* client that left, whatever the way, no longer shrinks the PTY for the rest.
\* Unless a RESIZE awaits the debounce timer, the PTY has their common rectangle.
NoGhostMember ==
  Free => /\ Members(sizes) = {c \in Registered : Participates(mode[c])}
          /\ ~armed /\ Members(sizes) # {} => last = Arbitrate(sizes)

\* The last Welcome queued for a client (or, with none queued, seen by it).
LastWelcome(c) ==
  LET q == batch[c] \o outbox[c]
      w == {i \in DOMAIN q : q[i].kind = "W"}
  IN  IF w = {} THEN view[c] ELSE q[CHOOSE i \in w : \A j \in w : j <= i]

\* Every client whose credit is not exhausted will know the dimensions of the
\* PTY and its own mode: they are in the last Welcome it was or will be sent,
\* whatever pushes were refused, made stale or reordered on the way.
WelcomeConverges ==
  Free => \A c \in Registered :
            ~blocked[c] /\ wpc[c] # "dead" => LastWelcome(c) = Welcome(mode[c], SessionDims)

\* A slow consumer is kicked only if a writer stays: the presenter, or with
\* policy all the last writer that still flows, is never cut off with 1013.
KickSparesLastWriter ==
  [][\A c \in Writers : phase'[c] = "kicked" => Writers' # {}]_vars

\* A closed gate opens again: no set of slow writers stops the session for good.
GateReopens == (reader = "wait") ~> (reader = "free")

\* Each chunk fanned out reaches each client of that moment, or the client leaves.
Delivered ==
  \A c \in Clients, n \in 1..MaxChunks :
    (phase[c] = "in" /\ since[c] < n /\ n <= chunks)
      ~> (phase[c] # "in" \/ \E i \in DOMAIN recv[c] : recv[c][i] = n)
=============================================================================

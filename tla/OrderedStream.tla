--------------------------- MODULE OrderedStream ---------------------------
(***************************************************************************)
(* What the fan-out of the shared session promises its clients: everybody  *)
(* gets the chunks of PTY output published after it joined, each of them   *)
(* once, in order and without a gap.  A client may stop receiving at any   *)
(* point, for it may be cut off, but is never skipped a chunk.             *)
(***************************************************************************)
EXTENDS Naturals, Sequences

CONSTANT Clients

VARIABLES
  published,  \* number of chunks published
  joined,     \* clients that joined, also those that left since
  since,      \* chunks published when each client joined
  recv        \* chunk numbers each client received

vars == <<published, joined, since, recv>>

Init ==
  /\ published = 0
  /\ joined = {}
  /\ since = [c \in Clients |-> 0]
  /\ recv = [c \in Clients |-> <<>>]

Publish ==
  /\ published' = published + 1
  /\ UNCHANGED <<joined, since, recv>>

Join(c) ==
  /\ c \notin joined
  /\ joined' = joined \cup {c}
  /\ since' = [since EXCEPT ![c] = published]
  /\ UNCHANGED <<published, recv>>

Deliver(c) ==
  LET n == since[c] + Len(recv[c]) + 1
  IN  /\ c \in joined
      /\ n <= published
      /\ recv' = [recv EXCEPT ![c] = Append(@, n)]
      /\ UNCHANGED <<published, joined, since>>

Next == Publish \/ \E c \in Clients : Join(c) \/ Deliver(c)

Spec == Init /\ [][Next]_vars
=============================================================================

------------------------------- MODULE Logins -------------------------------
(***************************************************************************)
(* The login sessions of internal/server/sessions.go and the file several  *)
(* instances of the program share: each reads it when a cookie is unknown, *)
(* and replaces it by a read, a merge, a write of a temporary file and a   *)
(* rename.  The mutex of an instance serialises its own requests; nothing  *)
(* serialises the instances.  An instance may crash between two system     *)
(* calls, and is started again.                                            *)
(*                                                                         *)
(* A file is an inode under a name: the temporary name is shared too, so   *)
(* an instance may write to an inode that another one has renamed.         *)
(***************************************************************************)
EXTENDS FiniteSets, Naturals

CONSTANTS
  Instances,   \* processes that were given the same --session-file
  Tokens,      \* sessions issued
  Inodes,      \* inodes of the file system, enough of them
  NoInode,     \* a name that names nothing; a descriptor that is closed
  NoToken,     \* a request that issues nothing
  Overlap      \* instances may write the file at the same time

ASSUME LoginsAssumption ==
  /\ NoInode \notin Inodes
  /\ NoToken \notin Tokens
  /\ Overlap \in BOOLEAN
  /\ IsFiniteSet(Tokens)

VARIABLES
  mem,         \* sessionStore.m of each instance
  fresh,       \* the instance has noted the mtime and size the file has now
  pc,          \* the next step of the request an instance serves, or "idle"
  drawn,       \* the token that request issues, or NoToken
  buf,         \* the table it is going to write
  fd,          \* the inode it writes to
  path,        \* the session file
  tmp,         \* the temporary file
  data,        \* the contents of the inodes
  issued,      \* tokens that were drawn
  expired,     \* those that are past their time
  kept         \* history: sessions the file was given, and nobody ended

fileVars == <<path, tmp, data>>
vars == <<mem, fresh, pc, drawn, buf, fd, fileVars, issued, expired, kept>>

Empty == [whole |-> FALSE, logins |-> {}]

\* What ReadFile and Unmarshal give: nothing, of a file that is torn.
InFile == IF path # NoInode /\ data[path].whole THEN data[path].logins \ expired ELSE {}
Readable == path # NoInode /\ data[path].whole

\* Whoever changes the file makes what all instances noted about it stale.
Touched(n) == IF n = path THEN [i \in Instances |-> FALSE] ELSE fresh

Goto(i, l) == pc' = [pc EXCEPT ![i] = l]

\* Where a request goes on after a reload.
AfterLoad(i) == IF drawn[i] # NoToken THEN "enter" ELSE "idle"

-----------------------------------------------------------------------------
(* Requests. *)

Login(i, t) ==
  /\ pc[i] = "idle"
  /\ t \notin issued
  /\ issued' = issued \cup {t}
  /\ drawn' = [drawn EXCEPT ![i] = t]
  /\ Goto(i, IF path # NoInode /\ ~fresh[i] THEN "load" ELSE "enter")
  /\ UNCHANGED <<mem, fresh, buf, fd, fileVars, expired, kept>>

\* issue, after its reload.
Enter(i) ==
  /\ pc[i] = "enter"
  /\ mem' = [mem EXCEPT ![i] = (@ \ expired) \cup {drawn[i]}]
  /\ drawn' = [drawn EXCEPT ![i] = NoToken]
  /\ Goto(i, "merge")
  /\ UNCHANGED <<fresh, buf, fd, fileVars, issued, expired, kept>>

\* validate: a known session may be due for renewal, which is persisted unless
\* that was done less than an hour ago.  A session that is not known makes a stale
\* instance reload.
Request(i, t) ==
  /\ pc[i] = "idle"
  /\ t \in issued
  /\ \/ t \in mem[i] \ expired /\ Goto(i, "merge") /\ UNCHANGED mem
     \/ t \in mem[i] \cap expired /\ mem' = [mem EXCEPT ![i] = @ \ {t}] /\ UNCHANGED pc
     \/ t \notin mem[i] /\ path # NoInode /\ ~fresh[i] /\ Goto(i, "load") /\ UNCHANGED mem
  /\ UNCHANGED <<fresh, drawn, buf, fd, fileVars, issued, expired, kept>>

\* revoke.
Logout(i, t) ==
  /\ pc[i] = "idle"
  /\ t \in issued
  /\ mem' = [mem EXCEPT ![i] = @ \ {t}]
  /\ Goto(i, "merge")
  /\ kept' = kept \ {t}
  /\ UNCHANGED <<fresh, drawn, buf, fd, fileVars, issued, expired>>

Expire(t) ==
  /\ t \in issued \ expired
  /\ expired' = expired \cup {t}
  /\ kept' = kept \ {t}
  /\ UNCHANGED <<mem, fresh, pc, drawn, buf, fd, fileVars, issued>>

-----------------------------------------------------------------------------
(* loadLocked: what is on the disk is added to what is in memory. *)

Load(i) ==
  /\ pc[i] = "load"
  /\ mem' = [mem EXCEPT ![i] = @ \cup InFile]
  /\ Goto(i, IF Readable THEN "note" ELSE AfterLoad(i))
  /\ UNCHANGED <<fresh, drawn, buf, fd, fileVars, issued, expired, kept>>

Note(i) ==
  /\ pc[i] = "note"
  /\ fresh' = [fresh EXCEPT ![i] = TRUE]
  /\ Goto(i, AfterLoad(i))
  /\ UNCHANGED <<mem, drawn, buf, fd, fileVars, issued, expired, kept>>

-----------------------------------------------------------------------------
(* persistLocked. *)

Writing(i) == pc[i] \in {"open", "fill", "rename"}

Merged(i) == InFile \cup (mem[i] \ expired)

Merge(i) ==
  /\ pc[i] = "merge"
  /\ Overlap \/ \A j \in Instances \ {i} : ~Writing(j)
  /\ buf' = [buf EXCEPT ![i] = Merged(i)]
  /\ Goto(i, "open")
  /\ UNCHANGED <<mem, fresh, drawn, fd, fileVars, issued, expired, kept>>

Unused == Inodes \ ({path, tmp} \cup {fd[i] : i \in Instances})

\* Fault: the session file itself is written.
TargetsInPlace == IF path = NoInode THEN Unused ELSE {path}

\* The inode that has the temporary name, or a new one.
Targets == IF tmp = NoInode THEN Unused ELSE {tmp}

\* WriteFile opens and truncates.
OpenTmp(i) ==
  /\ pc[i] = "open"
  /\ \E n \in Targets :
       /\ fd' = [fd EXCEPT ![i] = n]
       /\ data' = [data EXCEPT ![n] = Empty]
       /\ fresh' = Touched(n)
       /\ tmp' = n
  /\ Goto(i, "fill")
  /\ UNCHANGED <<mem, drawn, buf, path, issued, expired, kept>>

\* WriteFile writes, over what another instance may have written to the same inode:
\* a longer table keeps its tail, and the file is torn.
Fill(i) ==
  /\ pc[i] = "fill"
  /\ LET old == data[fd[i]].logins
         longer == Cardinality(old) > Cardinality(buf[i])
     IN data' = [data EXCEPT ![fd[i]] =
          IF longer THEN [whole |-> FALSE, logins |-> old] ELSE [whole |-> TRUE, logins |-> buf[i]]]
  /\ fresh' = Touched(fd[i])
  /\ fd' = [fd EXCEPT ![i] = NoInode]
  /\ Goto(i, "rename")
  /\ UNCHANGED <<mem, drawn, buf, path, tmp, issued, expired, kept>>

\* The disk is full: a warning, and the session lives in memory.
FillFails(i) ==
  /\ pc[i] = "fill"
  /\ fd' = [fd EXCEPT ![i] = NoInode]
  /\ Goto(i, "idle")
  /\ buf' = [buf EXCEPT ![i] = {}]
  /\ UNCHANGED <<mem, fresh, drawn, fileVars, issued, expired, kept>>

\* It fails when another instance has renamed the temporary file.
Rename(i) ==
  /\ pc[i] = "rename"
  /\ IF tmp # NoInode
       THEN /\ path' = tmp
            /\ tmp' = NoInode
            /\ data' = [n \in Inodes |-> IF n = path THEN Empty ELSE data[n]]
            /\ fresh' = [j \in Instances |-> FALSE]
            /\ kept' = kept \cup (buf[i] \cap (mem[i] \ expired))
            /\ Goto(i, "stat")
       ELSE Goto(i, "idle") /\ UNCHANGED <<fileVars, fresh, kept>>
  /\ buf' = [buf EXCEPT ![i] = {}]
  /\ UNCHANGED <<mem, drawn, fd, issued, expired>>

StatFile(i) ==
  /\ pc[i] = "stat"
  /\ fresh' = [fresh EXCEPT ![i] = TRUE]
  /\ Goto(i, "idle")
  /\ UNCHANGED <<mem, drawn, buf, fd, fileVars, issued, expired, kept>>

-----------------------------------------------------------------------------
\* The process ends anywhere; newSessionStore of the next one loads the file.
Crash(i) ==
  /\ mem' = [mem EXCEPT ![i] = {}]
  /\ fresh' = [fresh EXCEPT ![i] = FALSE]
  /\ fd' = [fd EXCEPT ![i] = NoInode]
  /\ buf' = [buf EXCEPT ![i] = {}]
  /\ drawn' = [drawn EXCEPT ![i] = NoToken]
  /\ Goto(i, "load")
  /\ UNCHANGED <<fileVars, issued, expired, kept>>

Init ==
  /\ mem = [i \in Instances |-> {}]
  /\ fresh = [i \in Instances |-> FALSE]
  /\ pc = [i \in Instances |-> "load"]
  /\ drawn = [i \in Instances |-> NoToken]
  /\ buf = [i \in Instances |-> {}]
  /\ fd = [i \in Instances |-> NoInode]
  /\ path = NoInode
  /\ tmp = NoInode
  /\ data = [n \in Inodes |-> Empty]
  /\ issued = {}
  /\ expired = {}
  /\ kept = {}

Next ==
  \/ \E i \in Instances :
       \/ \E t \in Tokens : Login(i, t) \/ Request(i, t) \/ Logout(i, t)
       \/ Enter(i) \/ Load(i) \/ Note(i)
       \/ Merge(i) \/ OpenTmp(i) \/ Fill(i) \/ FillFails(i) \/ Rename(i) \/ StatFile(i)
       \/ Crash(i)
  \/ \E t \in Tokens : Expire(t)

Spec == Init /\ [][Next]_vars

-----------------------------------------------------------------------------
(* Properties. *)

Calls == {"idle", "load", "note", "enter", "merge", "open", "fill", "rename", "stat"}

TypeOK ==
  /\ mem \in [Instances -> SUBSET Tokens]
  /\ fresh \in [Instances -> BOOLEAN]
  /\ pc \in [Instances -> Calls]
  /\ drawn \in [Instances -> Tokens \cup {NoToken}]
  /\ buf \in [Instances -> SUBSET Tokens]
  /\ fd \in [Instances -> Inodes \cup {NoInode}]
  /\ path \in Inodes \cup {NoInode}
  /\ tmp \in Inodes \cup {NoInode}
  /\ data \in [Inodes -> [whole : BOOLEAN, logins : SUBSET Tokens]]
  /\ issued \subseteq Tokens
  /\ expired \subseteq issued
  /\ kept \subseteq Tokens

\* Where no two instances write the file at the same time, a session that was once
\* persisted is in a whole file until it expires or is revoked, whatever
\* instances crash and wherever: the rename replaces the file as one piece, and
\* every instance merges what the others wrote.
LoginsDurable == kept \subseteq InFile
=============================================================================

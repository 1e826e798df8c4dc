---------------------------- MODULE LoginsProofs ----------------------------
(***************************************************************************)
(* Proofs about Logins, for every set of instances, sessions and inodes.   *)
(***************************************************************************)
EXTENDS Logins, FiniteSetTheorems, TLAPS

\* The token that is entered was drawn.
Drawn == \A i \in Instances : pc[i] = "enter" => drawn[i] \in Tokens

LEMMA InFileType == TypeOK => InFile \subseteq Tokens
  BY DEF TypeOK, InFile

LEMMA TypeStep == TypeOK /\ Drawn /\ [Next]_vars => TypeOK' /\ Drawn'
<1> SUFFICES ASSUME TypeOK, Drawn, [Next]_vars PROVE TypeOK' /\ Drawn'
  OBVIOUS
<1> USE LoginsAssumption DEF TypeOK, Drawn, Calls, Goto, AfterLoad
<1>1. InFile \subseteq Tokens
  BY InFileType
<1>2. ASSUME NEW i \in Instances, NEW t \in Tokens, Login(i, t)
      PROVE  TypeOK' /\ Drawn'
  BY <1>2 DEF Login, fileVars
<1>3. ASSUME NEW i \in Instances, NEW t \in Tokens, Request(i, t)
      PROVE  TypeOK' /\ Drawn'
  BY <1>3 DEF Request, fileVars
<1>4. ASSUME NEW i \in Instances, NEW t \in Tokens, Logout(i, t)
      PROVE  TypeOK' /\ Drawn'
  BY <1>4 DEF Logout, fileVars
<1>5. ASSUME NEW i \in Instances, Enter(i)
      PROVE  TypeOK' /\ Drawn'
  BY <1>5 DEF Enter, fileVars
<1>6. ASSUME NEW i \in Instances, Load(i)
      PROVE  TypeOK' /\ Drawn'
  BY <1>6, <1>1 DEF Load, fileVars
<1>7. ASSUME NEW i \in Instances, Note(i)
      PROVE  TypeOK' /\ Drawn'
  BY <1>7 DEF Note, fileVars
<1>8. ASSUME NEW i \in Instances, Merge(i)
      PROVE  TypeOK' /\ Drawn'
  BY <1>8, <1>1 DEF Merge, Merged, fileVars
<1>9. ASSUME NEW i \in Instances, OpenTmp(i)
      PROVE  TypeOK' /\ Drawn'
  <2>1. PICK n \in Targets : /\ fd' = [fd EXCEPT ![i] = n]
                             /\ data' = [data EXCEPT ![n] = Empty]
                             /\ fresh' = Touched(n)
                             /\ tmp' = n
    BY <1>9 DEF OpenTmp
  <2>2. n \in Inodes \cup {NoInode}
    BY DEF Targets, Unused
  <2>3. data' \in [Inodes -> [whole : BOOLEAN, logins : SUBSET Tokens]]
    BY <2>1 DEF Empty
  <2>4. fresh' \in [Instances -> BOOLEAN]
    BY <2>1 DEF Touched
  <2> QED BY <1>9, <2>1, <2>2, <2>3, <2>4 DEF OpenTmp
<1>10. ASSUME NEW i \in Instances, Fill(i)
       PROVE  TypeOK' /\ Drawn'
  <2>1. data' \in [Inodes -> [whole : BOOLEAN, logins : SUBSET Tokens]]
    <3>1. CASE fd[i] \in Inodes
      BY <3>1, <1>10 DEF Fill
    <3>2. CASE fd[i] = NoInode
      BY <3>2, <1>10 DEF Fill
    <3> QED BY <3>1, <3>2
  <2>2. fresh' \in [Instances -> BOOLEAN]
    BY <1>10 DEF Fill, Touched
  <2> QED BY <1>10, <2>1, <2>2 DEF Fill
<1>11. ASSUME NEW i \in Instances, FillFails(i)
       PROVE  TypeOK' /\ Drawn'
  BY <1>11 DEF FillFails, fileVars
<1>12. ASSUME NEW i \in Instances, Rename(i)
       PROVE  TypeOK' /\ Drawn'
  <2>1. data' \in [Inodes -> [whole : BOOLEAN, logins : SUBSET Tokens]]
    <3>1. CASE tmp # NoInode
      <4>1. data' = [n \in Inodes |-> IF n = path THEN Empty ELSE data[n]]
        BY <1>12, <3>1 DEF Rename
      <4>2. Empty \in [whole : BOOLEAN, logins : SUBSET Tokens]
        BY DEF Empty
      <4> QED BY <4>1, <4>2
    <3>2. CASE tmp = NoInode
      BY <1>12, <3>2 DEF Rename, fileVars
    <3> QED BY <3>1, <3>2
  <2>2. kept' \subseteq Tokens
    BY <1>12 DEF Rename, fileVars
  <2>3. path' \in Inodes \cup {NoInode} /\ tmp' \in Inodes \cup {NoInode}
    BY <1>12 DEF Rename, fileVars
  <2>4. fresh' \in [Instances -> BOOLEAN]
    BY <1>12 DEF Rename, fileVars
  <2>5. pc' \in [Instances -> Calls] /\ pc'[i] # "enter"
    BY <1>12 DEF Rename
  <2>6. \A j \in Instances : pc'[j] = "enter" => pc[j] = "enter"
    BY <1>12 DEF Rename
  <2> QED BY <1>12, <2>1, <2>2, <2>3, <2>4, <2>5, <2>6 DEF Rename
<1>13. ASSUME NEW i \in Instances, StatFile(i)
       PROVE  TypeOK' /\ Drawn'
  BY <1>13 DEF StatFile, fileVars
<1>14. ASSUME NEW i \in Instances, Crash(i)
       PROVE  TypeOK' /\ Drawn'
  BY <1>14 DEF Crash, fileVars
<1>15. ASSUME NEW t \in Tokens, Expire(t)
       PROVE  TypeOK' /\ Drawn'
  BY <1>15 DEF Expire, fileVars
<1>16. CASE UNCHANGED vars
  BY <1>16 DEF vars, fileVars
<1> QED
  BY <1>2, <1>3, <1>4, <1>5, <1>6, <1>7, <1>8, <1>9, <1>10, <1>11, <1>12, <1>13, <1>14,
     <1>15, <1>16 DEF Next

\* Every variable has its type (sessionStore, and what the file system holds).
THEOREM LoginsTypeCorrect == Spec => [](TypeOK /\ Drawn)
<1>1. Init => TypeOK /\ Drawn
  BY LoginsAssumption DEF Init, TypeOK, Drawn, Calls, Empty
<1> QED BY <1>1, TypeStep, PTL DEF Spec

-----------------------------------------------------------------------------
(* Where the instances do not write at the same time, nothing that was     *)
(* persisted is lost.  The inductive invariant follows the table that is   *)
(* being written: what the file keeps is in it from the merge on, it is in *)
(* an inode of its own from the truncation on, and whole before the rename.*)

Alone == \A i, j \in Instances : Writing(i) /\ Writing(j) => i = j
Carried == \A i \in Instances : Writing(i) => kept \subseteq buf[i]
Filling == \A i \in Instances :
             pc[i] = "fill" => fd[i] = tmp /\ tmp \in Inodes /\ data[tmp] = Empty
Filled == \A i \in Instances :
             pc[i] = "rename" => /\ tmp \in Inodes
                                 /\ data[tmp] = [whole |-> TRUE, logins |-> buf[i]]
Apart == tmp \in Inodes => tmp # path
Current == kept \cap expired = {}

DurableInv ==
  TypeOK /\ Alone /\ Carried /\ Filling /\ Filled /\ Apart /\ Current /\ LoginsDurable

\* A step that leaves the file, what is being written and the history alone, and
\* by which nobody begins to write, keeps the invariant.
LEMMA Elsewhere ==
  ASSUME DurableInv, TypeOK',
         fileVars' = fileVars, expired' = expired,
         kept' \subseteq kept,
         \A j \in Instances :
           Writing(j)' => pc'[j] = pc[j] /\ buf'[j] = buf[j] /\ fd'[j] = fd[j]
  PROVE  DurableInv'
<1> USE DEF DurableInv, fileVars, Writing
<1>1. Alone'
  BY DEF Alone
<1>2. Carried'
  BY DEF Carried
<1>3. Filling'
  BY DEF Filling
<1>4. Filled'
  BY DEF Filled
<1>5. Apart' /\ Current'
  BY DEF Apart, Current
<1>6. LoginsDurable'
  BY DEF LoginsDurable, InFile
<1> QED BY <1>1, <1>2, <1>3, <1>4, <1>5, <1>6

LEMMA DurableMerge ==
  ASSUME Overlap = FALSE, DurableInv, TypeOK', NEW i \in Instances, Merge(i)
  PROVE  DurableInv'
<1> USE DEF DurableInv, Merge, Goto, fileVars
<1>1. \A j \in Instances : pc'[j] = (IF j = i THEN "open" ELSE pc[j])
  BY DEF TypeOK
<1>2. \A j \in Instances \ {i} : ~Writing(j)'
  BY <1>1 DEF Writing
<1>3. Alone'
  BY <1>2 DEF Alone
<1>4. Carried'
  <2>1. buf'[i] = Merged(i)
    BY DEF TypeOK
  <2>2. kept \subseteq Merged(i)
    BY DEF Merged, LoginsDurable
  <2> QED BY <1>2, <2>1, <2>2 DEF Carried
<1>5. Filling' /\ Filled'
  BY <1>1, <1>2 DEF Filling, Filled, Writing
<1>6. Apart' /\ Current' /\ LoginsDurable'
  BY DEF Apart, Current, LoginsDurable, InFile
<1> QED BY <1>3, <1>4, <1>5, <1>6

LEMMA DurableOpen ==
  ASSUME DurableInv, TypeOK', NEW i \in Instances, OpenTmp(i)
  PROVE  DurableInv'
<1> USE DEF DurableInv, Goto
<1>1. PICK n \in Targets : /\ fd' = [fd EXCEPT ![i] = n]
                           /\ data' = [data EXCEPT ![n] = Empty]
                           /\ tmp' = n
  BY DEF OpenTmp
<1>2. n # path \/ path = NoInode
  BY DEF Targets, Unused, Apart, TypeOK
<1>3. \A j \in Instances : pc'[j] = (IF j = i THEN "fill" ELSE pc[j])
  BY DEF TypeOK, OpenTmp
<1>4. \A j \in Instances \ {i} : ~Writing(j) /\ ~Writing(j)'
  BY <1>3 DEF Alone, Writing, OpenTmp
<1>5. Alone' /\ Carried'
  BY <1>4 DEF Alone, Carried, Writing, OpenTmp
<1>6. n \in Inodes
  BY LoginsAssumption DEF Targets, Unused, TypeOK
<1>7. Filling' /\ Filled'
  BY <1>1, <1>3, <1>4, <1>6 DEF Filling, Filled, Writing, TypeOK
<1>8. Apart' /\ Current'
  BY <1>1, <1>2, <1>6, LoginsAssumption DEF Apart, Current, OpenTmp
<1>9. InFile' = InFile
  BY <1>1, <1>2 DEF InFile, OpenTmp, TypeOK
<1> QED BY <1>5, <1>7, <1>8, <1>9 DEF LoginsDurable, OpenTmp

LEMMA DurableFill ==
  ASSUME DurableInv, TypeOK', NEW i \in Instances, Fill(i)
  PROVE  DurableInv'
<1> USE DEF DurableInv, Goto
<1>1. fd[i] = tmp /\ tmp \in Inodes /\ tmp # path /\ data[tmp] = Empty
  BY DEF Filling, Apart, Fill
<1>2. data' = [data EXCEPT ![tmp] = [whole |-> TRUE, logins |-> buf[i]]]
  <2>1. IsFiniteSet(buf[i])
    BY LoginsAssumption, FS_Subset DEF TypeOK
  <2>2. ~(Cardinality({}) > Cardinality(buf[i]))
    BY <2>1, FS_EmptySet, FS_CardinalityType
  <2> QED BY <1>1, <2>2 DEF Fill, Empty
<1>3. \A j \in Instances : pc'[j] = (IF j = i THEN "rename" ELSE pc[j])
  BY DEF TypeOK, Fill
<1>4. \A j \in Instances \ {i} : ~Writing(j) /\ ~Writing(j)'
  BY <1>3 DEF Alone, Writing, Fill
<1>5. Alone' /\ Carried'
  BY <1>4 DEF Alone, Carried, Writing, Fill
<1>6. Filling' /\ Filled'
  <2>1. data'[tmp] = [whole |-> TRUE, logins |-> buf[i]]
    BY <1>1, <1>2 DEF TypeOK
  <2>2. tmp' = tmp /\ buf' = buf
    BY DEF Fill
  <2> QED BY <1>1, <1>3, <1>4, <2>1, <2>2 DEF Filling, Filled, Writing
<1>7. Apart' /\ Current'
  BY DEF Apart, Current, Fill
<1>8. InFile' = InFile
  BY <1>1, <1>2 DEF InFile, Fill, TypeOK
<1> QED BY <1>5, <1>6, <1>7, <1>8 DEF LoginsDurable, Fill

LEMMA DurableRename ==
  ASSUME DurableInv, TypeOK', NEW i \in Instances, Rename(i)
  PROVE  DurableInv'
<1> USE DEF DurableInv, Goto
<1>1. tmp \in Inodes /\ tmp # path /\ data[tmp] = [whole |-> TRUE, logins |-> buf[i]]
  BY DEF Filled, Apart, Rename
<1>2. /\ path' = tmp
      /\ tmp' = NoInode
      /\ data' = [n \in Inodes |-> IF n = path THEN Empty ELSE data[n]]
      /\ kept' = kept \cup (buf[i] \cap (mem[i] \ expired))
      /\ expired' = expired
  BY <1>1, LoginsAssumption DEF Rename
<1>3. \A j \in Instances : ~Writing(j)'
  <2>1. \A j \in Instances \ {i} : ~Writing(j)
    BY DEF Alone, Writing, Rename
  <2>2. pc'[i] \in {"stat", "idle"} /\ \A j \in Instances \ {i} : pc'[j] = pc[j]
    BY DEF Rename, TypeOK
  <2> QED BY <2>1, <2>2 DEF Writing
<1>4. Alone' /\ Carried' /\ Filling' /\ Filled'
  BY <1>3 DEF Alone, Carried, Filling, Filled, Writing
<1>5. Apart'
  BY <1>2, LoginsAssumption DEF Apart
<1>6. kept \subseteq buf[i]
  BY DEF Carried, Writing, Rename
<1>7. Current'
  BY <1>2 DEF Current
<1>8. InFile' = buf[i] \ expired
  BY <1>1, <1>2, LoginsAssumption DEF InFile
<1>9. LoginsDurable'
  BY <1>2, <1>6, <1>7, <1>8 DEF LoginsDurable, Current
<1> QED BY <1>4, <1>5, <1>7, <1>9

LEMMA DurableExpire ==
  ASSUME DurableInv, TypeOK', NEW t \in Tokens, Expire(t)
  PROVE  DurableInv'
<1> USE DEF DurableInv, Expire, fileVars
<1>1. Alone' /\ Carried' /\ Filling' /\ Filled' /\ Apart'
  BY DEF Alone, Carried, Filling, Filled, Apart, Writing
<1>2. Current' /\ LoginsDurable'
  BY DEF Current, LoginsDurable, InFile
<1> QED BY <1>1, <1>2

LEMMA DurableStep ==
  ASSUME Overlap = FALSE, DurableInv, TypeOK', [Next]_vars
  PROVE  DurableInv'
<1> USE DEF Goto, AfterLoad, Writing, fileVars
<1>t. TypeOK
  BY DEF DurableInv
<1>1. ASSUME NEW i \in Instances, NEW t \in Tokens, Login(i, t) \/ Request(i, t) \/ Logout(i, t)
      PROVE  DurableInv'
  <2>1. CASE Login(i, t)
    BY <2>1, <1>t, Elsewhere DEF Login, TypeOK
  <2>2. CASE Request(i, t)
    BY <2>2, <1>t, Elsewhere DEF Request, TypeOK
  <2>3. CASE Logout(i, t)
    BY <2>3, <1>t, Elsewhere DEF Logout, TypeOK
  <2> QED BY <1>1, <2>1, <2>2, <2>3
<1>2. ASSUME NEW i \in Instances, Enter(i) \/ Load(i) \/ Note(i) \/ FillFails(i) \/ StatFile(i)
      PROVE  DurableInv'
  <2>1. CASE Enter(i)
    BY <2>1, <1>t, Elsewhere DEF Enter, TypeOK
  <2>2. CASE Load(i)
    BY <2>2, <1>t, Elsewhere DEF Load, TypeOK
  <2>3. CASE Note(i)
    BY <2>3, <1>t, Elsewhere DEF Note, TypeOK
  <2>4. CASE FillFails(i)
    BY <2>4, <1>t, Elsewhere DEF FillFails, TypeOK
  <2>5. CASE StatFile(i)
    BY <2>5, <1>t, Elsewhere DEF StatFile, TypeOK
  <2> QED BY <1>2, <2>1, <2>2, <2>3, <2>4, <2>5
<1>3. ASSUME NEW i \in Instances, Crash(i)
      PROVE  DurableInv'
  BY <1>3, <1>t, Elsewhere DEF Crash, TypeOK
<1>4. CASE UNCHANGED vars
  BY <1>4, Elsewhere DEF vars
<1> QED
  BY <1>1, <1>2, <1>3, <1>4, DurableMerge, DurableOpen, DurableFill, DurableRename,
     DurableExpire DEF Next

\* A persisted session stays in a whole file until it expires or is revoked,
\* through crashes anywhere, if no two instances write at the same time.
THEOREM LoginsAreDurable ==
  ASSUME Overlap = FALSE
  PROVE  Spec => []LoginsDurable
<1>1. Init => DurableInv
  BY LoginsAssumption
  DEF Init, DurableInv, TypeOK, Calls, Empty, Alone, Carried, Filling, Filled, Apart, Current,
      LoginsDurable, InFile, Writing
<1>2. DurableInv /\ TypeOK' /\ [Next]_vars => DurableInv'
  BY DurableStep
<1>3. DurableInv => LoginsDurable
  BY DEF DurableInv
<1> QED BY <1>1, <1>2, <1>3, LoginsTypeCorrect, PTL DEF Spec
=============================================================================

---------------------------- MODULE ServiceProofs ----------------------------
(***************************************************************************)
(* Proofs about the handshake of Service, for every set of clients, every  *)
(* command line and every number of half-open places.                      *)
(***************************************************************************)
EXTENDS Service, FiniteSetTheorems, TLAPS

\* Past the handshake, or on the way to it.
Admitted == {"checked", "released", "in"}

\* A ticket that can be redeemed was issued; one that admitted somebody cannot be
\* redeemed again, and admitted nobody else; with a credential nobody is admitted
\* without one.
Spent ==
  /\ \A t \in live : grant[t] # "none"
  /\ \A c \in Conns : by[c] # NoConn =>
       /\ by[c] \notin live
       /\ grant[by[c]] # "none"
       /\ \A d \in Conns \ {c} : by[d] # by[c]
  /\ conf.credential => \A c \in Conns : phase[c] \in Admitted => by[c] # NoConn

AdmissionInv == TypeOK /\ HalfOpenExact /\ Spent

-----------------------------------------------------------------------------
(* Places. *)

LEMMA HalfOpenFinite == IsFiniteSet(HalfOpen)
<1>1. HalfOpen \subseteq Conns
  BY DEF HalfOpen
<1> QED BY <1>1, ServiceAssumption, FS_Subset

\* A client that enters the set takes a place, one that leaves gives it back.
LEMMA PlaceTaken ==
  ASSUME HalfOpenExact, places < MaxHalfOpen, places' = places + 1,
         NEW c \in Conns \ HalfOpen, HalfOpen' = HalfOpen \cup {c}
  PROVE  HalfOpenExact'
<1>1. Cardinality(HalfOpen \cup {c}) = Cardinality(HalfOpen) + 1
  BY HalfOpenFinite, FS_AddElement
<1>2. Cardinality(HalfOpen) \in Nat
  BY HalfOpenFinite, FS_CardinalityType
<1> QED BY <1>1, <1>2, ServiceAssumption DEF HalfOpenExact

LEMMA PlaceGivenBack ==
  ASSUME HalfOpenExact, ReleasePlace,
         NEW c \in HalfOpen, HalfOpen' = HalfOpen \ {c}
  PROVE  HalfOpenExact'
<1>1. Cardinality(HalfOpen \ {c}) = Cardinality(HalfOpen) - 1
  BY HalfOpenFinite, FS_RemoveElement
<1>2. Cardinality(HalfOpen) \in Nat
  BY HalfOpenFinite, FS_CardinalityType
<1> QED BY <1>1, <1>2, ServiceAssumption DEF HalfOpenExact, ReleasePlace

\* Without a handshake nothing happens to the places.
LEMMA PlacesKept ==
  ASSUME HalfOpenExact, places' = places, HalfOpen' = HalfOpen
  PROVE  HalfOpenExact'
  BY DEF HalfOpenExact

LEMMA PlacesTyped ==
  ASSUME HalfOpenExact'
  PROVE  places' \in Nat
<1>1. IsFiniteSet(HalfOpen')
  <2>1. HalfOpen' \subseteq Conns
    BY DEF HalfOpen
  <2> QED BY <2>1, ServiceAssumption, FS_Subset
<1> QED BY <1>1, FS_CardinalityType DEF HalfOpenExact

-----------------------------------------------------------------------------
(* The steps of the handshake. *)

LEMMA PostStep ==
  ASSUME AdmissionInv, NEW c \in Conns, NEW cred \in {"right", "wrong", "ro"}, Post(c, cred, FALSE)
  PROVE  AdmissionInv'
<1> DEFINE a == AttachAnswer(cred, FALSE)
<1> USE DEF AdmissionInv
<1>1. GrantOf(cred) \in Modes /\ GrantOf(cred) # "none"
  BY DEF GrantOf, ShareHit, FullMode, Modes
<1>2. /\ grant[c] = "none"
      /\ grant' = [grant EXCEPT ![c] = IF a = 200 THEN GrantOf(cred) ELSE @]
      /\ live' = IF a = 200 THEN live \cup {c} ELSE live
      /\ UNCHANGED <<conf, phase, by, places>>
  BY DEF Post, Up
<1>3. blocked' \in BOOLEAN
  BY DEF Post
<1> HIDE DEF a
<1>4. TypeOK'
  BY <1>1, <1>2, <1>3 DEF TypeOK
<1>5. HalfOpenExact'
  BY <1>2, PlacesKept DEF HalfOpen
<1>6. Spent'
  <2>1. \A d \in Conns : by[d] # c
    BY <1>2, ServiceAssumption DEF Spent
  <2>2. \A t \in Conns : grant[t] # "none" => grant'[t] # "none"
    BY <1>1, <1>2 DEF TypeOK
  <2>3. live' \subseteq live \cup {c} /\ (c \in live' => grant'[c] # "none")
    BY <1>1, <1>2 DEF TypeOK, Spent
  <2>4. \A t \in live' : grant'[t] # "none"
    BY <2>2, <2>3 DEF TypeOK, Spent
  <2>5. \A d \in Conns : by[d] # NoConn => by[d] \notin live' /\ grant'[by[d]] # "none"
    BY <2>1, <2>2, <2>3 DEF TypeOK, Spent
  <2> QED BY <1>2, <2>4, <2>5 DEF Spent
<1> QED BY <1>4, <1>5, <1>6

LEMMA DialStep ==
  ASSUME AdmissionInv, NEW c \in Conns, NEW asks, Dial(c, asks)
  PROVE  AdmissionInv'
<1> USE DEF AdmissionInv, Dial, Up
<1>1. CASE UpgradeAnswer(asks) = 0
  <2>1. HalfOpen' = HalfOpen \cup {c} /\ c \notin HalfOpen
    BY <1>1 DEF HalfOpen, TypeOK
  <2>2. places < MaxHalfOpen
    BY <1>1, ServiceAssumption DEF UpgradeAnswer, TypeOK
  <2>3. HalfOpenExact'
    BY <1>1, <2>1, <2>2, PlaceTaken
  <2>4. TypeOK'
    BY <1>1 DEF TypeOK
  <2>5. Spent'
    BY <1>1 DEF Spent, TypeOK, Admitted
  <2> QED BY <2>3, <2>4, <2>5
<1>2. CASE UpgradeAnswer(asks) # 0
  <2>1. phase' = phase /\ places' = places
    BY <1>2 DEF TypeOK
  <2>2. HalfOpenExact'
    BY <2>1, PlacesKept DEF HalfOpen
  <2> QED BY <2>1, <2>2 DEF TypeOK, Spent
<1> QED BY <1>1, <1>2

\* The capacity gate and Accept: the place is given back, or kept by the handshake.
LEMMA AdmitStep ==
  ASSUME AdmissionInv, NEW c \in Conns, Admit(c) \/ AcceptFails(c)
  PROVE  AdmissionInv'
<1> USE DEF AdmissionInv, Admit, AcceptFails, Up
<1>1. phase[c] = "dialled" /\ UNCHANGED <<conf, grant, live, by, blocked>>
  OBVIOUS
<1>2. CASE \E p \in {"new", "out"} : phase' = [phase EXCEPT ![c] = p] /\ ReleasePlace
  <2>1. c \in HalfOpen /\ HalfOpen' = HalfOpen \ {c}
    BY <1>1, <1>2 DEF HalfOpen, TypeOK
  <2>2. HalfOpenExact'
    BY <1>2, <2>1, PlaceGivenBack
  <2>3. places' \in Nat
    BY <2>2, PlacesTyped
  <2> QED BY <1>1, <1>2, <2>2, <2>3 DEF TypeOK, Spent, Admitted
<1>3. CASE phase' = [phase EXCEPT ![c] = "upgraded"] /\ UNCHANGED places
  <2>1. HalfOpenExact'
    BY <1>1, <1>3, PlacesKept DEF HalfOpen, TypeOK
  <2> QED BY <1>1, <1>3, <2>1 DEF TypeOK, Spent, Admitted
<1> QED BY <1>2, <1>3

LEMMA EndingStep ==
  ASSUME AdmissionInv, NEW c \in Conns, phase[c] = "upgraded",
         phase' = [phase EXCEPT ![c] = "ending"],
         UNCHANGED <<conf, grant, live, by, places>>, blocked' \in BOOLEAN
  PROVE  AdmissionInv'
<1> USE DEF AdmissionInv
<1>1. HalfOpenExact'
  BY PlacesKept DEF HalfOpen, TypeOK
<1> QED BY <1>1 DEF TypeOK, Spent, Admitted

LEMMA HelloPassesStep ==
  ASSUME AdmissionInv, NEW c \in Conns, NEW t \in Procs, NEW d, HelloPasses(c, t, d)
  PROVE  AdmissionInv'
<1> USE DEF AdmissionInv, HelloPasses, Awaited, Up
<1>1. HalfOpenExact'
  BY PlacesKept DEF HalfOpen, TypeOK
<1>2. TypeOK'
  BY ServiceAssumption DEF TypeOK, Procs, Spend
<1>3. CASE t = NoConn /\ ~conf.credential /\ UNCHANGED live
  <2>1. by' = [by EXCEPT ![c] = NoConn] /\ live' = live /\ grant' = grant /\ conf' = conf
    BY <1>3
  <2>2. \A e \in Conns : by'[e] = (IF e = c THEN NoConn ELSE by[e])
    BY <2>1 DEF TypeOK
  <2>3. ~conf'.credential
    BY <1>3, <2>1
  <2>4. Spent'
    BY <2>1, <2>2, <2>3 DEF Spent
  <2> QED BY <1>1, <1>2, <2>4
<1>4. CASE t \in live /\ Spend(t)
  <2>1. t \in Conns /\ t # NoConn
    BY <1>4, ServiceAssumption DEF TypeOK
  <2>2. by' = [by EXCEPT ![c] = t] /\ live' = live \ {t}
    BY <1>4 DEF Spend
  <2>3. grant' = grant /\ grant[t] # "none" /\ \A e \in Conns : by[e] # t
    BY <1>4, <2>1 DEF Spent
  <2>4. \A e \in Conns \ {c} : by'[e] = by[e] /\ phase'[e] = phase[e]
    BY <2>2 DEF TypeOK
  <2>5. by'[c] = t
    BY <2>2 DEF TypeOK
  <2>6. \A e \in Conns : by'[e] # NoConn =>
           /\ by'[e] \notin live' /\ grant'[by'[e]] # "none"
           /\ \A f \in Conns \ {e} : by'[f] # by'[e]
    BY <2>2, <2>3, <2>4, <2>5 DEF Spent
  <2>7. conf' = conf /\ \A e \in Conns : phase'[e] \in Admitted /\ conf.credential => by'[e] # NoConn
    BY <2>1, <2>4, <2>5 DEF Spent
  <2> QED BY <1>1, <1>2, <2>2, <2>3, <2>6, <2>7 DEF Spent
<1> QED BY <1>1, <1>2, <1>3, <1>4

LEMMA HandlerEndsStep ==
  ASSUME AdmissionInv, NEW c \in Conns, HandlerEnds(c)
  PROVE  AdmissionInv'
<1> USE DEF AdmissionInv, HandlerEnds, Up
<1>1. c \in HalfOpen /\ HalfOpen' = HalfOpen \ {c}
  BY DEF HalfOpen, TypeOK
<1>2. HalfOpenExact'
  BY <1>1, PlaceGivenBack
<1>3. places' \in Nat
  BY <1>2, PlacesTyped
<1> QED BY <1>2, <1>3 DEF TypeOK, Spent, Admitted

LEMMA ReleaseStep ==
  ASSUME AdmissionInv, NEW c \in Conns, Release(c)
  PROVE  AdmissionInv'
<1> USE DEF AdmissionInv, Release, Up
<1>1. c \in HalfOpen /\ HalfOpen' = HalfOpen \ {c}
  BY DEF HalfOpen, TypeOK
<1>2. HalfOpenExact'
  BY <1>1, PlaceGivenBack
<1>3. places' \in Nat
  BY <1>2, PlacesTyped
<1> QED BY <1>2, <1>3 DEF TypeOK, Spent, Admitted

\* Registration, refusal and departure: behind the handshake.
LEMMA BehindStep ==
  ASSUME AdmissionInv, NEW c \in Conns, phase[c] \in {"released", "in"},
         NEW p \in {"in", "out"}, phase[c] = "in" => p = "out",
         phase' = [phase EXCEPT ![c] = p],
         UNCHANGED <<conf, grant, live, by, places, blocked>>
  PROVE  AdmissionInv'
<1> USE DEF AdmissionInv
<1>1. HalfOpenExact'
  BY PlacesKept DEF HalfOpen, TypeOK
<1> QED BY <1>1 DEF TypeOK, Spent, Admitted

\* Nothing of the admission changes but that tickets and blocks run out.
LEMMA AsideStep ==
  ASSUME AdmissionInv, UNCHANGED <<conf, phase, grant, by, places>>,
         live' \subseteq live, blocked' \in BOOLEAN
  PROVE  AdmissionInv'
<1> USE DEF AdmissionInv
<1>1. HalfOpenExact'
  BY PlacesKept DEF HalfOpen
<1> QED BY <1>1 DEF TypeOK, Spent

-----------------------------------------------------------------------------
LEMMA ServeStep == AdmissionInv /\ Serve => AdmissionInv'
<1> SUFFICES ASSUME AdmissionInv, Serve PROVE AdmissionInv'
  OBVIOUS
<1> USE DEF admVars, Up
<1>t. blocked \in BOOLEAN
  BY DEF AdmissionInv, TypeOK
<1>1. ASSUME NEW c \in Conns, HandlerEnds(c) \/ Release(c)
      PROVE  AdmissionInv'
  BY <1>1, HandlerEndsStep, ReleaseStep
<1>2. ASSUME NEW c \in Conns, JoinShared(c) \/ JoinOwn(c)
      PROVE  AdmissionInv'
  <2>1. /\ phase[c] = "released" /\ phase' = [phase EXCEPT ![c] = "in"]
        /\ UNCHANGED <<conf, grant, live, by, places, blocked>>
    BY <1>2 DEF JoinShared, JoinOwn
  <2> QED BY <2>1, BehindStep
<1>3. ASSUME NEW c \in Conns, RefuseOwn(c)
      PROVE  AdmissionInv'
  <2>1. /\ phase[c] = "released" /\ phase' = [phase EXCEPT ![c] = "out"]
        /\ UNCHANGED <<conf, grant, live, by, places, blocked>>
    BY <1>3 DEF RefuseOwn
  <2> QED BY <2>1, BehindStep
<1>4. ASSUME NEW c \in Conns, Detach(c) \/ Kick(c)
      PROVE  AdmissionInv'
  <2>1. /\ phase[c] = "in" /\ phase' = [phase EXCEPT ![c] = "out"]
        /\ UNCHANGED <<conf, grant, live, by, places, blocked>>
    BY <1>4 DEF Detach, Kick, Leave, In
  <2> QED BY <2>1, BehindStep
<1>5. ASSUME NEW p \in Procs, ChildEnds(p)
      PROVE  AdmissionInv'
  BY <1>5, <1>t, AsideStep DEF ChildEnds
<1>6. CASE Terminate
  BY <1>6, <1>t, AsideStep DEF Terminate
<1>7. ASSUME NEW c \in Conns, Admit(c)
      PROVE  AdmissionInv'
  BY <1>7, AdmitStep
<1> QED BY <1>1, <1>2, <1>3, <1>4, <1>5, <1>6, <1>7 DEF Serve, Work

LEMMA KnockStep == AdmissionInv /\ Knock => AdmissionInv'
<1> SUFFICES ASSUME AdmissionInv, NEW c \in Conns,
                    \/ \E cred \in {"right", "wrong", "ro"} : Post(c, cred, FALSE)
                    \/ Dial(c, "ok")
                    \/ AcceptFails(c)
                    \/ BadHello(c, 1008)
                    \/ \E t \in Procs : (\E d \in Sizes : HelloPasses(c, t, d)) \/ HelloFails(c, t)
                    \/ HelloTimeout(c)
                    \/ Hangup(c)
                    \/ TicketExpires(c)
             PROVE  AdmissionInv'
  BY DEF Knock
<1> USE DEF admVars, Up
<1>t. blocked \in BOOLEAN
  BY DEF AdmissionInv, TypeOK
<1>1. CASE BadHello(c, 1008)
  BY <1>1, <1>t, EndingStep DEF BadHello, Awaited
<1>2. CASE \E t \in Procs : HelloFails(c, t)
  <2>1. PICK t \in Procs : HelloFails(c, t)
    BY <1>2
  <2>2. blocked' \in BOOLEAN
    BY <2>1 DEF HelloFails
  <2> QED BY <2>1, <2>2, EndingStep DEF HelloFails, Awaited
<1>3. CASE HelloTimeout(c) \/ Hangup(c)
  BY <1>3, <1>t, AsideStep DEF HelloTimeout, Hangup
<1>4. CASE TicketExpires(c)
  BY <1>4, <1>t, AsideStep DEF TicketExpires, Spend
<1>5. CASE \E cred \in {"right", "wrong", "ro"} : Post(c, cred, FALSE)
  BY <1>5, PostStep
<1>6. CASE Dial(c, "ok") \/ AcceptFails(c)
  BY <1>6, DialStep, AdmitStep
<1>7. CASE \E t \in Procs : \E d \in Sizes : HelloPasses(c, t, d)
  BY <1>7, HelloPassesStep
<1>8. CASE \E t \in Procs : (\E d \in Sizes : HelloPasses(c, t, d)) \/ HelloFails(c, t)
  BY <1>2, <1>7, <1>8
<1> QED BY <1>1, <1>3, <1>4, <1>5, <1>6, <1>8, ZenonT(60)

LEMMA AdmissionStep == AdmissionInv /\ [Next]_vars => AdmissionInv'
<1> SUFFICES ASSUME AdmissionInv, [Next]_vars PROVE AdmissionInv'
  OBVIOUS
<1>t. blocked \in BOOLEAN
  BY DEF AdmissionInv, TypeOK
<1>1. CASE BlockEnds
  BY <1>1, AsideStep DEF BlockEnds, Up
<1>2. CASE UNCHANGED vars
  BY <1>2, <1>t, AsideStep DEF vars, admVars
<1> QED BY <1>1, <1>2, ServeStep, KnockStep DEF Next

LEMMA AdmissionInit == Init => AdmissionInv
<1> SUFFICES ASSUME Init PROVE AdmissionInv
  OBVIOUS
<1>1. HalfOpen = {}
  BY DEF Init, HalfOpen
<1>2. HalfOpenExact
  BY <1>1, FS_EmptySet, ServiceAssumption DEF HalfOpenExact, Init
<1> QED BY <1>2 DEF AdmissionInv, Init, TypeOK, Spent, Admitted

LEMMA AdmissionHolds == Spec => []AdmissionInv
  BY AdmissionInit, AdmissionStep, PTL DEF Spec

-----------------------------------------------------------------------------
\* The variables of the handshake have their types (Attach and attachHandler).
THEOREM ServiceTypeCorrect == Spec => []TypeOK
<1>1. AdmissionInv => TypeOK
  BY DEF AdmissionInv
<1> QED BY <1>1, AdmissionHolds, PTL

\* The counter of half-open places is the number of handshakes under way, and
\* does not pass its limit (halfOpenCounter, and release in Attach).
THEOREM PlacesExact == Spec => []HalfOpenExact
<1>1. AdmissionInv => HalfOpenExact
  BY DEF AdmissionInv
<1> QED BY <1>1, AdmissionHolds, PTL

\* A ticket admits one client, and only a ticket of mode rw makes a writer
\* (checkTicket, redeem, and the succession of the owner).
THEOREM TicketsAreHonoured == Spec => []TicketsHonoured
<1>1. AdmissionInv => TicketsHonoured
  BY DEF AdmissionInv, Spent, Admitted, TicketsHonoured, Mode, ModeIn, Eligible, Bound
<1> QED BY <1>1, AdmissionHolds, PTL
=============================================================================

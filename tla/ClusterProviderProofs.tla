------------------------ MODULE ClusterProviderProofs ------------------------
(***************************************************************************)
(* Theorems about ClusterProvider for every value of its constants.        *)
(***************************************************************************)
EXTENDS ClusterProvider, TLAPS

\* The inductive invariant behind the first two theorems.
SafeInv == TypeOK /\ Equipped /\ NoneForgotten

\* Cancelling a published cluster that is not in discover's hands.
LEMMA DisengageSafe ==
    ASSUME SafeInv, NEW n \in Published, DisengageCluster(n), dw.pc # "publish"
    PROVE  /\ clusters' \in [Names -> Engaged \cup {None}] /\ clusters'[n] = None
           /\ running' \in [Names -> Nat]
           /\ \A m \in Names :
                 running'[m] = IF clusters'[m] # None THEN 1 ELSE 0
           /\ \A m \in Names \ {n} : clusters'[m] = clusters[m]
           /\ ix' \in Walkers \cup {Waiting}
           /\ ix'.pc = "walk" => ix'.index \in indexes
<1>1. n \in Names /\ clusters[n] # None
  BY DEF Published
<1>2. \A m \in Names : running[m] = IF clusters[m] # None THEN 1 ELSE 0
  BY DEF SafeInv, NoneForgotten
<1>3. /\ clusters' = [clusters EXCEPT ![n] = None]
      /\ running' = [running EXCEPT ![n] = 0]
  <2>1. running[n] - 1 = 0
    BY <1>1, <1>2
  <2> QED  BY <2>1 DEF DisengageCluster
<1>4. /\ ix' \in Walkers \cup {Waiting}
      /\ ix'.pc = "walk" => ix'.index \in indexes
  BY DEF DisengageCluster, SafeInv, Equipped, TypeOK, Walkers, Waiting
<1> QED  BY <1>1, <1>2, <1>3, <1>4 DEF SafeInv, TypeOK

\* Putting one more index on one cluster.
LEMMA ApplyTyped ==
    ASSUME TypeOK, NEW n \in Names, NEW i \in Indexes, Apply(n, i)
    PROVE  applied' \in [Names -> [Indexes -> Nat]]
<1>1. applied \in [Names -> [Indexes -> Nat]]
  BY DEF TypeOK
<1>2. applied[n] \in [Indexes -> Nat]
  BY <1>1
<1>3. [applied[n] EXCEPT ![i] = @ + 1] \in [Indexes -> Nat]
  BY <1>2
<1>4. applied' = [applied EXCEPT ![n] = [applied[n] EXCEPT ![i] = @ + 1]]
  BY DEF Apply
<1> QED  BY <1>1, <1>3, <1>4

\* Each step of discover keeps the types, and loses no started cluster.
LEMMA DiscoverSafe ==
    ASSUME SafeInv, Discover
    PROVE  SafeInv'
<1> USE DEF SafeInv
<1>names. \A p \in Profiles : NameOf[p] \in Names
  BY DEF Names
<1>unapplied. Unapplied \in [Indexes -> Nat]
  BY DEF Unapplied
<1>1. CASE List
  <2>1. dw' \in Discoverers
    BY <1>1, <1>names DEF List, Discoverers, TypeOK, Keys
  <2>2. dw'.pc = "next" /\ dw.pc = "idle"
    BY <1>1 DEF List
  <2> QED
    BY <1>1, <2>1, <2>2 DEF List, provider, TypeOK, Equipped, NoneForgotten
<1>2. ASSUME dw.pc # "idle"
      PROVE  dw \in Discoverers
  BY <1>2 DEF TypeOK, Waiting
<1>3. ASSUME NEW p \in Profiles, Examine(p)
      PROVE  SafeInv'
  <2> DEFINE n == NameOf[p]
  <2>0. dw \in Discoverers /\ dw.pc = "next"
    BY <1>2, <1>3 DEF Examine
  <2>1. disturbances' \in Nat
    BY <1>3 DEF Examine, Disturb, TypeOK
  <2>2. \A q \in Profiles : KeyOf(q) \in Keys
    BY DEF KeyOf, Keys, TypeOK, Secrets
  <2>3. PICK key \in Keys :
           IF UpToDate(n, key)
           THEN /\ dw' = [dw EXCEPT !.todo = @ \ {p}]
                /\ UNCHANGED <<provider, ix>>
           ELSE /\ dw' = [dw EXCEPT !.pc = "build", !.todo = @ \ {p},
                                    !.cp = p, !.key = key]
                /\ IF clusters[n] = None
                   THEN UNCHANGED <<clusters, running, ix>>
                   ELSE DisengageCluster(n)
                /\ UNCHANGED <<applied, refused>>
    BY <1>3, <2>2 DEF Examine, Keys
  <2>4. CASE UpToDate(n, key)
    <3>1. dw' \in Discoverers /\ dw'.pc = "next"
      BY <2>0, <2>3, <2>4 DEF Discoverers
    <3> QED
      BY <1>3, <2>0, <2>1, <2>3, <2>4, <3>1
         DEF Examine, provider, TypeOK, Equipped, NoneForgotten
  <2>5. CASE ~UpToDate(n, key)
    <3>0. dw' = [dw EXCEPT !.pc = "build", !.todo = @ \ {p}, !.cp = p, !.key = key]
      BY <2>3, <2>5
    <3>1. dw' \in Discoverers /\ dw'.pc = "build" /\ dw'.cp = p
      BY <2>0, <3>0 DEF Discoverers
    <3>2. n \in Names
      BY <1>names
    <3>3. /\ clusters' \in [Names -> Engaged \cup {None}] /\ clusters'[n] = None
          /\ running' \in [Names -> Nat] /\ ix' \in Walkers \cup {Waiting}
          /\ ix'.pc = "walk" => ix'.index \in indexes
          /\ \A m \in Names : running'[m] = IF clusters'[m] # None THEN 1 ELSE 0
      <4>1. CASE clusters[n] = None
        BY <2>0, <2>3, <2>5, <4>1 DEF TypeOK, NoneForgotten, Equipped
      <4>2. CASE clusters[n] # None
        BY <2>0, <2>3, <2>5, <3>2, <4>2, DisengageSafe DEF Published
      <4> QED  BY <4>1, <4>2
    <3>4. TypeOK'
      BY <1>3, <2>1, <2>3, <2>5, <3>1, <3>3 DEF Examine, TypeOK
    <3>5. UNCHANGED indexes
      BY <1>3 DEF Examine
    <3> QED  BY <3>1, <3>3, <3>4, <3>5 DEF Equipped, NoneForgotten
  <2> QED  BY <2>4, <2>5
<1>4. CASE Build
  <2>0. dw \in Discoverers /\ dw.cp \in Profiles /\ clusters[NameOf[dw.cp]] = None
    BY <1>2, <1>4 DEF Build, Equipped
  <2>1. CASE dw'.pc = "publish"
    <3> DEFINE n == NameOf[dw.cp]
    <3>0. n \in Names
      BY <1>names, <2>0
    <3>1. /\ running' = [running EXCEPT ![n] = @ + 1]
          /\ dw' = [dw EXCEPT !.pc = "publish",
                              !.identity = secrets[dw.cp].identity]
      BY <1>4, <2>0, <2>1 DEF Build, Discoverers
    <3>2. dw' \in Discoverers /\ dw'.cp = dw.cp
      BY <2>0, <3>1 DEF Discoverers, TypeOK, Secrets
    <3>3. TypeOK'
      BY <1>4, <3>0, <3>1, <3>2 DEF Build, Disturb, TypeOK
    <3>4. \A m \in Names : running[m] = IF clusters[m] # None THEN 1 ELSE 0
      BY <1>4 DEF Build, NoneForgotten
    <3>5. NoneForgotten'
      BY <1>4, <2>0, <2>1, <3>0, <3>1, <3>2, <3>4 DEF Build, NoneForgotten, TypeOK
    <3> QED  BY <1>4, <2>0, <2>1, <3>2, <3>3, <3>5 DEF Build, Equipped
  <2>2. CASE dw'.pc # "publish"
    <3>1. /\ dw' = [dw EXCEPT !.pc = "next"] /\ UNCHANGED running
          /\ disturbances' \in Nat
      <4>1. dw' # [dw EXCEPT !.pc = "publish",
                             !.identity = secrets[dw.cp].identity]
        BY <2>0, <2>2 DEF Discoverers
      <4> QED  BY <1>4, <4>1 DEF Build, Disturb, TypeOK
    <3>2. dw' \in Discoverers /\ dw'.pc = "next"
      BY <2>0, <3>1 DEF Discoverers
    <3> QED
      BY <1>4, <3>1, <3>2 DEF Build, TypeOK, Equipped, NoneForgotten
  <2> QED  BY <2>1, <2>2
<1>5. CASE Publish
  <2> DEFINE n == NameOf[dw.cp]
  <2>0. /\ dw \in Discoverers /\ dw.cp \in Profiles /\ clusters[n] = None
        /\ n \in Names
    BY <1>2, <1>5, <1>names DEF Publish, Equipped
  <2>1. [identity |-> dw.identity, key |-> dw.key] \in Engaged
    BY <2>0 DEF Discoverers, Engaged
  <2>2. [identity |-> dw.identity, key |-> dw.key] # None
    BY <2>1, ClusterProviderAssumption
  <2>3. dw' \in Discoverers /\ dw'.pc = "index" /\ dw'.cp = dw.cp
    BY <1>5, <2>0 DEF Publish, Discoverers, TypeOK
  <2>4. clusters' \in [Names -> Engaged \cup {None}] /\ clusters'[n] # None
    BY <1>5, <2>0, <2>1, <2>2 DEF Publish, TypeOK
  <2>5. /\ applied' \in [Names -> [Indexes -> Nat]]
        /\ refused' \in [Names -> SUBSET Indexes]
    BY <1>5, <1>unapplied DEF Publish, TypeOK
  <2>6. TypeOK'
    BY <1>5, <2>3, <2>4, <2>5 DEF Publish, TypeOK
  <2>7. NoneForgotten'
    BY <1>5, <2>0, <2>3, <2>4 DEF Publish, TypeOK, NoneForgotten
  <2>8. UNCHANGED <<indexes, ix>>
    BY <1>5 DEF Publish
  <2> QED  BY <2>0, <2>3, <2>4, <2>6, <2>7, <2>8 DEF Equipped
<1>6. CASE IndexNew
  <2>0. dw \in Discoverers /\ dw.cp \in Profiles /\ NameOf[dw.cp] \in Names
    BY <1>2, <1>6, <1>names DEF IndexNew, Equipped
  <2>1. dw' \in Discoverers /\ dw'.pc \in {"index", "engage"} /\ dw'.cp = dw.cp
    BY <1>6, <2>0 DEF IndexNew, Discoverers
  <2> DEFINE Typed == /\ applied' \in [Names -> [Indexes -> Nat]]
                      /\ refused' \in [Names -> SUBSET Indexes]
                      /\ disturbances' \in Nat
  <2>2. Typed
    <3>1. CASE UNCHANGED <<applied, refused, disturbances>>
      BY <3>1 DEF TypeOK
    <3>2. ASSUME NEW i \in dw.pending, Apply(NameOf[dw.cp], i),
                 UNCHANGED <<refused, disturbances>>
          PROVE  Typed
      BY <2>0, <3>2, ApplyTyped DEF TypeOK, Discoverers
    <3>3. ASSUME NEW i \in dw.pending, RefuseIndex(NameOf[dw.cp], i),
                 Disturb, UNCHANGED applied
          PROVE  Typed
      BY <2>0, <3>3 DEF RefuseIndex, Disturb, TypeOK, Discoverers
    <3> QED  BY <1>6, <3>1, <3>2, <3>3 DEF IndexNew
  <2> QED
    BY <1>6, <2>1, <2>2 DEF IndexNew, TypeOK, Equipped, NoneForgotten
<1>7. CASE Engage
  <2>0. /\ dw \in Discoverers /\ dw.cp \in Profiles /\ NameOf[dw.cp] \in Published
    BY <1>2, <1>7, <1>names DEF Engage, Equipped, Published
  <2>1. dw' \in Discoverers /\ dw'.pc = "next" /\ disturbances' \in Nat
    <3>1. dw' = [dw EXCEPT !.pc = "next"] /\ disturbances' \in Nat
      BY <1>7 DEF Engage, Disturb, TypeOK
    <3> QED  BY <2>0, <3>1 DEF Discoverers
  <2>2. CASE UNCHANGED <<clusters, running, ix>>
    BY <1>7, <2>1, <2>2 DEF Engage, TypeOK, Equipped, NoneForgotten
  <2>3. CASE DisengageCluster(NameOf[dw.cp])
    <3>1. dw.pc # "publish"
      BY <1>7 DEF Engage
    <3>2. TypeOK' /\ NoneForgotten'
      BY <1>7, <2>0, <2>1, <2>3, <3>1, DisengageSafe
         DEF Engage, TypeOK, NoneForgotten
    <3>3. ix'.pc = "walk" => ix'.index \in indexes'
      BY <1>7, <2>0, <2>3, <3>1, DisengageSafe DEF Engage
    <3> QED  BY <2>1, <3>2, <3>3 DEF Equipped
  <2> QED  BY <1>7, <2>2, <2>3 DEF Engage
<1>8. CASE Sweep
  <2>1. ASSUME NEW n \in Published, DisengageCluster(n), UNCHANGED <<applied, refused, dw>>
        PROVE  SafeInv'
    <3>1. dw.pc = "next"
      BY <1>8 DEF Sweep
    <3>2. TypeOK' /\ NoneForgotten'
      BY <1>8, <2>1, <3>1, DisengageSafe DEF Sweep, TypeOK, NoneForgotten
    <3>3. ix'.pc = "walk" => ix'.index \in indexes'
      BY <1>8, <2>1, <3>1, DisengageSafe DEF Sweep
    <3> QED  BY <2>1, <3>1, <3>2, <3>3 DEF Equipped
  <2>2. CASE dw' = Waiting /\ UNCHANGED <<provider, ix>>
    BY <1>8, <2>2
       DEF Sweep, provider, Waiting, TypeOK, Equipped, NoneForgotten
  <2> QED  BY <1>8, <2>1, <2>2 DEF Sweep
<1> QED
  BY <1>1, <1>3, <1>4, <1>5, <1>6, <1>7, <1>8 DEF Discover

\* IndexField and the admins touch neither clusters nor what runs.
LEMMA OthersSafe ==
    ASSUME SafeInv,
           \/ Walk \/ \E i \in Indexes : Register(i)
           \/ \E p \in Profiles : Admin(p)
    PROVE  SafeInv'
<1> USE DEF SafeInv
<1>1. CASE Walk
  <2>1. ix \in Walkers
    BY <1>1 DEF Walk, TypeOK, Waiting
  <2>2. applied' \in [Names -> [Indexes -> Nat]]
    BY <1>1, <2>1, ApplyTyped DEF Walk, TypeOK, Walkers
  <2>3. ix' \in Walkers \cup {Waiting}
    BY <1>1, <2>1 DEF Walk, Walkers
  <2>4. answered' \subseteq indexes'
    BY <1>1, <2>1 DEF Walk, TypeOK, Walkers, Equipped
  <2>5. ix'.pc = "walk" => ix'.index \in indexes'
    BY <1>1, <2>1 DEF Walk, Walkers, Waiting, Equipped
  <2>6. disturbances' \in Nat
    BY <1>1 DEF Walk, Disturb, TypeOK
  <2> QED
    BY <1>1, <2>2, <2>3, <2>4, <2>5, <2>6
       DEF Walk, TypeOK, Equipped, NoneForgotten
<1>2. ASSUME NEW i \in Indexes, Register(i)
      PROVE  SafeInv'
  <2>1. ix' \in Walkers /\ ix'.index \in indexes'
    BY <1>2 DEF Register, Walkers, Published
  <2> QED
    BY <1>2, <2>1 DEF Register, provider, TypeOK, Equipped, NoneForgotten
<1>3. ASSUME NEW p \in Profiles, Admin(p)
      PROVE  SafeInv'
  <2>1. secrets' \in [Profiles -> Secrets] /\ profiles' \subseteq Profiles
    <3>1. secrets[p] \in Secrets
      BY DEF TypeOK
    <3>2. /\ [secrets[p] EXCEPT !.usable = ~@] \in Secrets
          /\ [identity |-> secrets[p].identity + 1, usable |-> TRUE] \in Secrets
      <4>1. /\ secrets[p] = [identity |-> secrets[p].identity,
                             usable |-> secrets[p].usable]
            /\ secrets[p].identity \in Nat /\ secrets[p].usable \in BOOLEAN
        BY <3>1 DEF Secrets
      <4>2. (~secrets[p].usable) \in BOOLEAN
        OBVIOUS
      <4>3. [secrets[p] EXCEPT !.usable = ~@] =
               [identity |-> secrets[p].identity, usable |-> ~secrets[p].usable]
        BY <4>1
      <4>4. /\ [identity |-> secrets[p].identity, usable |-> ~secrets[p].usable]
                  \in Secrets
            /\ [identity |-> secrets[p].identity + 1, usable |-> TRUE] \in Secrets
        <5>1. secrets[p].identity + 1 \in Nat
          BY <4>1
        <5> QED  BY <4>1, <4>2, <5>1, Zenon DEF Secrets
      <4> QED  BY <4>3, <4>4, Zenon
    <3> QED
      BY <1>3, <3>2 DEF Admin, TypeOK
  <2> QED
    BY <1>3, <2>1
       DEF Admin, Disturb, provider, TypeOK, Equipped, NoneForgotten
<1> QED  BY <1>1, <1>2, <1>3

LEMMA SafeInvariant == Spec => []SafeInv
<1>1. Init => SafeInv
  <2> SUFFICES ASSUME Init PROVE SafeInv
    OBVIOUS
  <2>1. Waiting.pc = "idle"
    BY DEF Waiting
  <2>2. TypeOK
    BY ClusterProviderAssumption
       DEF Init, TypeOK, Secrets, Unapplied
  <2> QED
    BY <2>1, <2>2 DEF Init, SafeInv, Equipped, NoneForgotten
<1>2. SafeInv /\ [Next]_vars => SafeInv'
  <2>1. ASSUME SafeInv, UNCHANGED vars PROVE SafeInv'
    BY <2>1 DEF SafeInv, vars, provider, TypeOK, Equipped, NoneForgotten
  <2> QED
    BY <2>1, DiscoverSafe, OthersSafe DEF Next
<1> QED  BY <1>1, <1>2, PTL DEF Spec

\* The profiles, maps, indexes and both loops keep their types.
THEOREM TypeCorrect == Spec => []TypeOK
<1>1. SafeInv => TypeOK
  BY DEF SafeInv
<1> QED  BY <1>1, SafeInvariant, PTL

(***************************************************************************)
(* Every started cluster is in the map or in discover's hands, and every   *)
(* cluster in the map runs, for any profiles, names and indexes.           *)
(***************************************************************************)
THEOREM NoneIsForgotten == Spec => []NoneForgotten
<1>1. SafeInv => NoneForgotten
  BY DEF SafeInv
<1> QED  BY <1>1, SafeInvariant, PTL
-----------------------------------------------------------------------------
\* Cancelling a cluster drops what was owed to it, and nothing else.
LEMMA DisengageAccounted ==
    ASSUME SafeInv, Accounted, NEW m \in Names, DisengageCluster(m),
           UNCHANGED <<applied, refused, indexes, answered>>,
           dw.pc # "index", dw'.pc # "index"
    PROVE  Accounted'
<1>1. Published' = Published \ {m}
  BY DEF DisengageCluster, Published, SafeInv, TypeOK
<1>2. ix \in Walkers \cup {Waiting}
  BY DEF SafeInv, TypeOK
<1>3. /\ ix'.pc = ix.pc
      /\ ix.pc = "walk" => ix'.index = ix.index /\ ix'.walk = ix.walk \ {m}
  BY <1>2 DEF DisengageCluster, Accounted, Walkers, Waiting
<1>4. ASSUME NEW n \in Published', NEW i \in Indexes
      PROVE  AccountedAt(n, i)'
  <2>1. AccountedAt(n, i) /\ n # m
    BY <1>1, <1>4 DEF Accounted
  <2> QED
    BY <1>3, <2>1 DEF AccountedAt, OwedByDiscover, OwedByWalk
<1> QED  BY <1>1, <1>3, <1>4 DEF Accounted

\* Where discover changes neither maps nor indexes, what is owed stays owed.
LEMMA QuietAccounted ==
    ASSUME Accounted, UNCHANGED <<clusters, applied, refused, indexes,
                                    answered, ix>>,
           \/ dw' = dw
           \/ dw.pc # "index" /\ dw'.pc # "index"
    PROVE  Accounted'
<1>1. Published' = Published
  BY DEF Published
<1>2. ASSUME NEW n \in Published, NEW i \in Indexes
      PROVE  AccountedAt(n, i)'
  BY <1>2 DEF Accounted, AccountedAt, OwedByDiscover, OwedByWalk
<1> QED  BY <1>1, <1>2 DEF Accounted

\* One more index on one cluster, and only that.
LEMMA ApplyOne ==
    ASSUME TypeOK, NEW m \in Names, NEW j \in Indexes, Apply(m, j),
           NEW n \in Names, NEW i \in Indexes
    PROVE  applied'[n][i] = IF n = m /\ i = j THEN applied[n][i] + 1
                                              ELSE applied[n][i]
<1>1. applied \in [Names -> [Indexes -> Nat]]
  BY DEF TypeOK
<1>2. applied' = [applied EXCEPT ![m] = [applied[m] EXCEPT ![j] = @ + 1]]
  BY DEF Apply
<1>3. CASE n = m
  <2>1. applied'[n] = [applied[m] EXCEPT ![j] = @ + 1]
    BY <1>1, <1>2, <1>3
  <2> QED  BY <1>1, <1>3, <2>1
<1>4. CASE n # m
  BY <1>1, <1>2, <1>4
<1> QED  BY <1>3, <1>4

LEMMA DiscoverAccounted ==
    ASSUME SafeInv, Accounted, Discover
    PROVE  Accounted'
<1>names. \A p \in Profiles : NameOf[p] \in Names
  BY DEF Names
<1>typed. dw.pc # "idle" => dw \in Discoverers
  BY DEF SafeInv, TypeOK, Waiting
<1>1. CASE List
  BY <1>1, QuietAccounted DEF List, provider
<1>2. ASSUME NEW p \in Profiles, Examine(p)
      PROVE  Accounted'
  <2>1. /\ dw.pc = "next" /\ dw'.pc # "index"
        /\ UNCHANGED <<applied, refused, indexes, answered>>
    BY <1>2, <1>typed DEF Examine, provider, Discoverers
  <2>2. \/ UNCHANGED <<clusters, ix>>
        \/ DisengageCluster(NameOf[p])
    BY <1>2 DEF Examine, provider
  <2> QED
    BY <1>names, <2>1, <2>2, QuietAccounted, DisengageAccounted
<1>3. CASE Build
  <2>1. dw.pc = "build" /\ dw'.pc # "index"
    BY <1>3, <1>typed DEF Build, Discoverers
  <2> QED  BY <1>3, <2>1, QuietAccounted DEF Build
<1>4. CASE Publish
  <2> DEFINE m == NameOf[dw.cp]
  <2>1. /\ dw \in Discoverers /\ m \in Names /\ m \notin Published
    BY <1>4, <1>names, <1>typed DEF Publish, SafeInv, Equipped, Published
  <2>2. /\ dw'.pc = "index" /\ dw'.cp = dw.cp /\ dw'.pending = indexes
        /\ UNCHANGED <<indexes, answered, ix>>
    BY <1>4, <2>1 DEF Publish, Discoverers
  <2>3. Published' \subseteq Published \cup {m} /\ Published \subseteq Published'
    <3>1. \A n \in Names \ {m} : clusters'[n] = clusters[n]
      BY <1>4 DEF Publish, SafeInv, TypeOK
    <3> QED  BY <2>1, <3>1 DEF Published
  <2>4. /\ refused'[m] = {} /\ \A i \in Indexes : applied'[m][i] = 0
        /\ \A n \in Names \ {m} : /\ applied'[n] = applied[n]
                                  /\ refused'[n] = refused[n]
    BY <1>4, <2>1 DEF Publish, Unapplied, SafeInv, TypeOK
  <2>5. ASSUME NEW i \in Indexes PROVE AccountedAt(m, i)'
    <3>1. answered \subseteq indexes /\ (ix.pc = "walk" => ix.index \in indexes)
      BY DEF SafeInv, TypeOK, Equipped
    <3> QED
      BY <2>1, <2>2, <2>4, <3>1
         DEF Accounted, AccountedAt, OwedByDiscover, OwedByWalk
  <2>6. ASSUME NEW n \in Published, NEW i \in Indexes
        PROVE  AccountedAt(n, i)'
    <3>1. /\ AccountedAt(n, i) /\ n # m
          /\ applied'[n] = applied[n] /\ refused'[n] = refused[n]
      BY <2>1, <2>4, <2>6 DEF Accounted, Published
    <3>2. dw.pc = "publish"
      BY <1>4 DEF Publish
    <3> QED
      BY <2>2, <3>1, <3>2 DEF AccountedAt, OwedByDiscover, OwedByWalk
  <2> QED  BY <2>2, <2>3, <2>5, <2>6 DEF Accounted
<1>5. CASE IndexNew
  <2>1. /\ dw \in Discoverers /\ dw.pc = "index" /\ NameOf[dw.cp] \in Names
        /\ Published' = Published /\ UNCHANGED <<indexes, answered, ix>>
    BY <1>5, <1>names, <1>typed DEF IndexNew, SafeInv, Equipped, Published
  <2>2. CASE dw.pending = {}
    <3>1. dw'.pc = "engage" /\ UNCHANGED <<applied, refused>>
      BY <1>5, <2>1, <2>2 DEF IndexNew, Discoverers
    <3>2. ASSUME NEW n \in Published, NEW i \in Indexes
          PROVE  AccountedAt(n, i)'
      BY <2>1, <2>2, <3>1, <3>2
         DEF Accounted, AccountedAt, OwedByDiscover, OwedByWalk
    <3> QED  BY <2>1, <3>1, <3>2 DEF Accounted
  <2>3. ASSUME NEW j \in dw.pending, dw' = [dw EXCEPT !.pending = @ \ {j}],
               \/ Apply(NameOf[dw.cp], j) /\ UNCHANGED refused
               \/ RefuseIndex(NameOf[dw.cp], j) /\ UNCHANGED applied
        PROVE  Accounted'
    <3> DEFINE m == NameOf[dw.cp]
    <3>1. /\ dw'.pc = "index" /\ dw'.cp = dw.cp
          /\ dw'.pending = dw.pending \ {j} /\ j \in Indexes
          /\ dw.pending \subseteq indexes
      BY <2>1, <2>3 DEF Discoverers, Accounted
    <3>2. ASSUME NEW n \in Published, NEW i \in Indexes
          PROVE  AccountedAt(n, i)'
      <4>1. AccountedAt(n, i) /\ n \in Names
        BY DEF Accounted, Published
      <4>2. CASE n = m /\ i = j
        <5>1. applied[n][i] = 0 /\ i \notin refused[n] /\ ~OwedByWalk(n, i)
          BY <2>1, <4>1, <4>2 DEF AccountedAt, OwedByDiscover
        <5>2. \/ applied'[n][i] = 1 /\ i \notin refused'[n]
              \/ applied'[n][i] = 0 /\ i \in refused'[n]
          BY <2>1, <2>3, <3>1, <4>1, <4>2, <5>1, ApplyOne
             DEF RefuseIndex, SafeInv, TypeOK
        <5>3. ~OwedByDiscover(n, i)' /\ ~OwedByWalk(n, i)' /\ i \in indexes'
          BY <2>1, <3>1, <4>2, <5>1 DEF OwedByDiscover, OwedByWalk
        <5> QED  BY <5>2, <5>3 DEF AccountedAt
      <4>3. CASE ~(n = m /\ i = j)
        <5>1. /\ applied'[n][i] = applied[n][i]
              /\ i \in refused'[n] <=> i \in refused[n]
          BY <2>1, <2>3, <3>1, <4>1, <4>3, ApplyOne
             DEF RefuseIndex, SafeInv, TypeOK
        <5> QED
          BY <2>1, <3>1, <4>1, <4>3, <5>1
             DEF AccountedAt, OwedByDiscover, OwedByWalk
      <4> QED  BY <4>2, <4>3
    <3> QED  BY <2>1, <3>1, <3>2 DEF Accounted
  <2> QED  BY <1>5, <2>2, <2>3 DEF IndexNew
<1>6. CASE Engage
  <2>1. /\ dw.pc = "engage" /\ dw'.pc # "index" /\ NameOf[dw.cp] \in Names
        /\ UNCHANGED <<applied, refused, indexes, answered>>
    BY <1>6, <1>names, <1>typed DEF Engage, Discoverers, SafeInv, Equipped
  <2>2. \/ UNCHANGED <<clusters, ix>>
        \/ DisengageCluster(NameOf[dw.cp])
    BY <1>6 DEF Engage
  <2> QED  BY <2>1, <2>2, QuietAccounted, DisengageAccounted
<1>7. CASE Sweep
  <2>1. /\ dw.pc = "next" /\ dw'.pc # "index"
        /\ UNCHANGED <<applied, refused, indexes, answered>>
        /\ \/ UNCHANGED <<clusters, ix>>
           \/ \E n \in Names : DisengageCluster(n)
    BY <1>7 DEF Sweep, provider, Waiting, Published
  <2> QED  BY <2>1, QuietAccounted, DisengageAccounted
<1> QED
  BY <1>1, <1>2, <1>3, <1>4, <1>5, <1>6, <1>7 DEF Discover

LEMMA OthersAccounted ==
    ASSUME SafeInv, Accounted,
           \/ Walk \/ \E i \in Indexes : Register(i)
           \/ \E p \in Profiles : Admin(p)
    PROVE  Accounted'
<1>1. CASE Walk
  <2>1. /\ ix \in Walkers /\ Published' = Published
        /\ UNCHANGED <<refused, indexes, dw>>
        /\ ix.index \in indexes \ answered /\ ix.walk \subseteq Published
    BY <1>1 DEF Walk, SafeInv, TypeOK, Equipped, Waiting, Published, Accounted
  <2>2. ASSUME NEW m \in ix.walk, Apply(m, ix.index),
               ix' = [ix EXCEPT !.walk = @ \ {m}], UNCHANGED answered
        PROVE  Accounted'
    <3>1. /\ ix'.pc = "walk" /\ ix'.index = ix.index /\ ix.pc = "walk"
          /\ ix'.walk = ix.walk \ {m} /\ ix.index \in Indexes /\ m \in Names
      BY <2>1, <2>2 DEF Walkers, Published
    <3>2. ASSUME NEW n \in Published, NEW i \in Indexes
          PROVE  AccountedAt(n, i)'
      <4>1. AccountedAt(n, i) /\ n \in Names
        BY DEF Accounted, Published
      <4>2. applied'[n][i] = IF n = m /\ i = ix.index THEN applied[n][i] + 1
                                                      ELSE applied[n][i]
        BY <2>2, <3>1, <4>1, ApplyOne DEF SafeInv
      <4>3. CASE n = m /\ i = ix.index
        BY <2>1, <2>2, <3>1, <4>1, <4>2, <4>3
           DEF AccountedAt, OwedByDiscover, OwedByWalk
      <4>4. CASE ~(n = m /\ i = ix.index)
        BY <2>1, <2>2, <3>1, <4>1, <4>2, <4>4
           DEF AccountedAt, OwedByDiscover, OwedByWalk
      <4> QED  BY <4>3, <4>4
    <3> QED  BY <2>1, <2>2, <3>1, <3>2 DEF Accounted
  <2>3. CASE ix' = Waiting /\ UNCHANGED <<applied, answered>>
    <3>1. ASSUME NEW n \in Published, NEW i \in Indexes
          PROVE  AccountedAt(n, i)'
      <4>1. AccountedAt(n, i)
        BY DEF Accounted
      <4>2. ix'.pc # "walk"
        BY <2>3 DEF Waiting
      <4>3. i \in answered => ~OwedByWalk(n, i)
        BY <2>1 DEF OwedByWalk
      <4> QED
        BY <2>1, <2>3, <4>1, <4>2, <4>3
           DEF AccountedAt, OwedByDiscover, OwedByWalk
    <3> QED  BY <2>1, <2>3, <3>1 DEF Accounted, Waiting
  <2>4. CASE /\ ix.walk = {} /\ ix' = Waiting
             /\ answered' = answered \cup {ix.index} /\ UNCHANGED applied
    <3>1. ASSUME NEW n \in Published, NEW i \in Indexes
          PROVE  AccountedAt(n, i)'
      <4>1. AccountedAt(n, i) /\ ~OwedByWalk(n, i)
        BY <2>4 DEF Accounted, OwedByWalk
      <4>2. ix'.pc # "walk" /\ ix.pc = "walk"
        BY <2>1, <2>4 DEF Waiting, Walkers
      <4> QED
        BY <2>1, <2>4, <4>1, <4>2
           DEF AccountedAt, OwedByDiscover, OwedByWalk
    <3> QED  BY <2>1, <2>4, <3>1 DEF Accounted, Waiting
  <2> QED  BY <1>1, <2>2, <2>3, <2>4 DEF Walk
<1>2. ASSUME NEW j \in Indexes, Register(j)
      PROVE  Accounted'
  <2>1. /\ ix.pc = "idle" /\ j \notin indexes /\ indexes' = indexes \cup {j}
        /\ ix'.pc = "walk" /\ ix'.index = j /\ ix'.walk = Published
        /\ Published' = Published
        /\ UNCHANGED <<clusters, applied, refused, answered, dw>>
        /\ answered \subseteq indexes
    BY <1>2 DEF Register, provider, Published, SafeInv, TypeOK
  <2>2. ASSUME NEW n \in Published, NEW i \in Indexes
        PROVE  AccountedAt(n, i)'
    <3>1. AccountedAt(n, i) /\ n \in Names
      BY DEF Accounted, Published
    <3>2. i = j => /\ applied[n][i] = 0 /\ i \notin refused[n]
                   /\ ~OwedByDiscover(n, i) /\ i \notin answered
      BY <2>1, <3>1 DEF Accounted, AccountedAt, OwedByDiscover
    <3> QED
      BY <2>1, <3>1, <3>2 DEF AccountedAt, OwedByDiscover, OwedByWalk
  <2> QED  BY <2>1, <2>2 DEF Accounted
<1>3. ASSUME NEW p \in Profiles, Admin(p)
      PROVE  Accounted'
  BY <1>3, QuietAccounted DEF Admin, provider
<1> QED  BY <1>1, <1>2, <1>3

(***************************************************************************)
(* No cluster is given an index twice or asked again for one it refused,   *)
(* and an engaged cluster lacks an index that IndexField has answered for  *)
(* only while discover is about to put it there, or because the cluster    *)
(* refused it to discover, whose dropped error is the one way to lose it.  *)
(***************************************************************************)
THEOREM IndexesOnce == Spec => []IndexedOnce
<1>1. Init => Accounted
  BY DEF Init, Accounted, Published, Waiting
<1>2. SafeInv /\ Accounted /\ [Next]_vars => Accounted'
  <2>1. ASSUME Accounted, UNCHANGED vars PROVE Accounted'
    BY <2>1, QuietAccounted DEF vars, provider
  <2> QED
    BY <2>1, DiscoverAccounted, OthersAccounted DEF Next
<1>3. SafeInv /\ Accounted => IndexedOnce
  <2> SUFFICES ASSUME SafeInv, Accounted,
                      NEW n \in Published, NEW i \in Indexes
               PROVE  /\ applied[n][i] <= 1
                      /\ i \in refused[n] => applied[n][i] = 0
                      /\ \/ applied[n][i] = 1
                         \/ i \in refused[n]
                         \/ i \notin answered
                         \/ OwedByDiscover(n, i)
    BY DEF IndexedOnce, OwedByDiscover
  <2>1. AccountedAt(n, i) /\ (OwedByWalk(n, i) => i \notin answered)
    BY DEF Accounted, OwedByWalk
  <2> QED  BY <2>1 DEF AccountedAt
<1> QED  BY <1>1, <1>2, <1>3, SafeInvariant, PTL DEF Spec
-----------------------------------------------------------------------------
(* No client is older than its key. *)

FleetInv == SafeInv /\ Listed /\ HeldInOrder /\ PublishedInOrder

\* Stopping clusters leaves the others as they were.
LEMMA FewerInOrder ==
    ASSUME TypeOK, PublishedInOrder, UNCHANGED secrets,
           \A n \in Names : clusters'[n] \in {None, clusters[n]}
    PROVE  PublishedInOrder'
BY DEF PublishedInOrder, Published, NoNewerKey

LEMMA DisengageFewer ==
    ASSUME TypeOK, NEW n \in Names,
           DisengageCluster(n) \/ UNCHANGED clusters
    PROVE  \A m \in Names : clusters'[m] \in {None, clusters[m]}
BY DEF DisengageCluster, TypeOK

\* The admins give a Secret a new identity, never an old one.
LEMMA SecretsGrow ==
    ASSUME TypeOK, NEW p \in Profiles, Admin(p)
    PROVE  /\ \A q \in Profiles :
                 /\ secrets[q].identity \in Nat /\ secrets'[q].identity \in Nat
                 /\ secrets[q].identity =< secrets'[q].identity
<1>1. secrets \in [Profiles -> Secrets]
  BY DEF TypeOK
<1>2. \A q \in Profiles : secrets[q].identity \in Nat
  BY <1>1 DEF Secrets
<1>3. [secrets[p] EXCEPT !.usable = ~@].identity = secrets[p].identity
  BY <1>1 DEF Secrets
<1>4. [identity |-> secrets[p].identity + 1, usable |-> TRUE].identity
         = secrets[p].identity + 1
  OBVIOUS
<1>5. secrets'[p].identity \in {secrets[p].identity, secrets[p].identity + 1}
  BY <1>1, <1>3, <1>4 DEF Admin
<1>6. \A q \in Profiles \ {p} : secrets'[q] = secrets[q]
  BY <1>1 DEF Admin
<1> QED  BY <1>2, <1>5, <1>6

LEMMA NatNotNone ==
    \A k \in Keys : k # None => k \in Nat
BY DEF Keys

LEMMA DiscoverInOrder ==
    ASSUME FleetInv, Discover
    PROVE  Listed' /\ HeldInOrder' /\ PublishedInOrder'
<1>0. TypeOK /\ SafeInv /\ Listed /\ HeldInOrder /\ PublishedInOrder
  BY DEF FleetInv, SafeInv
<1>names. \A p \in Profiles : NameOf[p] \in Names
  BY DEF Names
<1>typed. dw.pc # "idle" => dw \in Discoverers
  BY <1>0 DEF TypeOK, Waiting
<1>same. ASSUME UNCHANGED <<clusters, secrets>>
         PROVE  PublishedInOrder'
  BY <1>0, <1>same, FewerInOrder
<1>idents. \A p \in Profiles : secrets[p].identity \in Nat
  BY <1>0 DEF TypeOK, Secrets
<1>1. CASE List
  <2>1. /\ dw'.pc = "next" /\ dw'.todo = profiles
        /\ dw'.seen = {NameOf[p] : p \in profiles}
    BY <1>1 DEF List
  <2> QED
    BY <1>1, <1>same, <2>1 DEF List, provider, Listed, HeldInOrder
<1>2. ASSUME NEW p \in Profiles, Examine(p)
      PROVE  Listed' /\ HeldInOrder' /\ PublishedInOrder'
  <2>0. /\ dw \in Discoverers /\ dw.pc = "next" /\ p \in dw.todo
        /\ UNCHANGED secrets
    BY <1>2, <1>typed DEF Examine
  <2>1. PublishedInOrder'
    <3>1. DisengageCluster(NameOf[p]) \/ UNCHANGED clusters
      BY <1>2 DEF Examine, provider
    <3> QED  BY <1>0, <1>names, <2>0, <3>1, DisengageFewer, FewerInOrder
  <2>2. PICK key \in {KeyOf(p), None} :
           \/ dw' = [dw EXCEPT !.todo = @ \ {p}]
           \/ dw' = [dw EXCEPT !.pc = "build", !.todo = @ \ {p}, !.cp = p,
                               !.key = key]
    BY <1>2 DEF Examine
  <2>3. CASE dw' = [dw EXCEPT !.todo = @ \ {p}]
    <3>1. dw'.pc = "next" /\ dw'.seen = dw.seen /\ dw'.todo \subseteq dw.todo
      BY <2>0, <2>3 DEF Discoverers
    <3> QED  BY <1>0, <2>0, <2>1, <3>1 DEF Listed, HeldInOrder
  <2>4. CASE dw' = [dw EXCEPT !.pc = "build", !.todo = @ \ {p}, !.cp = p,
                              !.key = key]
    <3>1. /\ dw'.pc = "build" /\ dw'.seen = dw.seen /\ dw'.cp = p
          /\ dw'.key = key /\ dw'.todo \subseteq dw.todo
      BY <2>0, <2>4 DEF Discoverers
    <3>2. key # None => key =< secrets[p].identity
      BY <1>idents, <2>2 DEF KeyOf
    <3>3. Listed'
      BY <1>0, <2>0, <3>1 DEF Listed
    <3> QED  BY <2>0, <2>1, <3>1, <3>2, <3>3 DEF HeldInOrder
  <2> QED  BY <2>2, <2>3, <2>4
<1>3. CASE Build
  <2>0. dw \in Discoverers /\ dw.cp \in Profiles /\ dw.pc = "build"
    BY <1>0, <1>3, <1>typed DEF Build, SafeInv, Equipped
  <2>1. PublishedInOrder' /\ UNCHANGED secrets
    BY <1>3, <1>same DEF Build
  <2>2. CASE dw' = [dw EXCEPT !.pc = "publish",
                              !.identity = secrets[dw.cp].identity]
    <3>1. /\ dw'.pc = "publish" /\ dw'.seen = dw.seen /\ dw'.todo = dw.todo
          /\ dw'.cp = dw.cp /\ dw'.key = dw.key
          /\ dw'.identity = secrets[dw.cp].identity
      BY <2>0, <2>2 DEF Discoverers
    <3> QED
      BY <1>0, <1>idents, <2>0, <2>1, <3>1
         DEF Listed, HeldInOrder, NoNewerKey
  <2>3. CASE dw' = [dw EXCEPT !.pc = "next"]
    <3>1. dw'.pc = "next" /\ dw'.seen = dw.seen /\ dw'.todo = dw.todo
      BY <2>0, <2>3 DEF Discoverers
    <3> QED  BY <1>0, <2>0, <2>1, <3>1 DEF Listed, HeldInOrder
  <2> QED  BY <1>3, <2>2, <2>3 DEF Build
<1>4. CASE Publish
  <2> DEFINE n == NameOf[dw.cp]
             c == [identity |-> dw.identity, key |-> dw.key]
  <2>0. /\ dw \in Discoverers /\ dw.cp \in Profiles /\ dw.pc = "publish"
        /\ n \in Names /\ UNCHANGED secrets
    BY <1>0, <1>4, <1>names, <1>typed DEF Publish, SafeInv, Equipped
  <2>1. /\ dw'.pc = "index" /\ dw'.seen = dw.seen /\ dw'.todo = dw.todo
        /\ dw'.cp = dw.cp
    BY <1>4, <2>0 DEF Publish, Discoverers
  <2>2. NoNewerKey(c) /\ c.identity =< secrets[dw.cp].identity
    BY <1>0, <2>0 DEF HeldInOrder, NoNewerKey
  <2>3. clusters' = [clusters EXCEPT ![n] = c]
    BY <1>4 DEF Publish
  <2> HIDE DEF c
  <2>4. PublishedInOrder'
    <3> SUFFICES ASSUME NEW m \in Names, clusters'[m] # None
                 PROVE  /\ NoNewerKey(clusters'[m])
                        /\ \E p \in Profiles :
                              /\ NameOf[p] = m
                              /\ clusters'[m].identity =< secrets[p].identity
      BY <2>0 DEF PublishedInOrder, Published, NoNewerKey
    <3>1. CASE m = n
      BY <1>0, <2>0, <2>2, <2>3, <3>1 DEF TypeOK
    <3>2. CASE m # n
      <4>1. clusters'[m] = clusters[m]
        BY <1>0, <2>3, <3>2 DEF TypeOK
      <4> QED  BY <1>0, <4>1 DEF PublishedInOrder, Published
    <3> QED  BY <3>1, <3>2
  <2> QED  BY <1>0, <2>0, <2>1, <2>4 DEF Listed, HeldInOrder
<1>5. CASE IndexNew
  <2>0. dw \in Discoverers /\ dw.pc = "index"
    BY <1>5, <1>typed DEF IndexNew
  <2>1. /\ dw'.pc \in {"index", "engage"} /\ dw'.seen = dw.seen
        /\ dw'.todo = dw.todo /\ dw'.cp = dw.cp
    BY <1>5, <2>0 DEF IndexNew, Discoverers
  <2> QED
    BY <1>0, <1>5, <1>same, <2>0, <2>1 DEF IndexNew, Listed, HeldInOrder
<1>6. CASE Engage
  <2>0. /\ dw \in Discoverers /\ dw.cp \in Profiles /\ dw.pc = "engage"
        /\ UNCHANGED secrets
    BY <1>0, <1>6, <1>typed DEF Engage, SafeInv, Equipped
  <2>1. dw'.pc = "next" /\ dw'.seen = dw.seen /\ dw'.todo = dw.todo
    BY <1>6, <2>0 DEF Engage, Discoverers
  <2>2. DisengageCluster(NameOf[dw.cp]) \/ UNCHANGED clusters
    BY <1>6 DEF Engage
  <2>3. PublishedInOrder'
    BY <1>0, <1>names, <2>0, <2>2, DisengageFewer, FewerInOrder
  <2> QED  BY <1>0, <2>0, <2>1, <2>3 DEF Listed, HeldInOrder
<1>7. CASE Sweep
  <2>0. UNCHANGED secrets /\ dw.pc = "next"
    BY <1>7 DEF Sweep
  <2>1. /\ (\E n \in Names : DisengageCluster(n)) \/ UNCHANGED clusters
        /\ dw' = dw \/ dw' = Waiting
    BY <1>7 DEF Sweep, Published, provider
  <2>2. PublishedInOrder'
    BY <1>0, <2>0, <2>1, DisengageFewer, FewerInOrder
  <2> QED  BY <1>0, <2>0, <2>1, <2>2 DEF Listed, HeldInOrder, Waiting
<1> QED
  BY <1>1, <1>2, <1>3, <1>4, <1>5, <1>6, <1>7 DEF Discover

LEMMA OthersInOrder ==
    ASSUME FleetInv,
           \/ Walk \/ \E i \in Indexes : Register(i)
           \/ \E p \in Profiles : Admin(p)
    PROVE  Listed' /\ HeldInOrder' /\ PublishedInOrder'
<1>0. TypeOK /\ SafeInv /\ Listed /\ HeldInOrder /\ PublishedInOrder
  BY DEF FleetInv, SafeInv
<1>1. CASE Walk \/ \E i \in Indexes : Register(i)
  <2>1. UNCHANGED <<secrets, clusters, dw>>
    BY <1>1 DEF Walk, Register, provider
  <2> QED
    BY <1>0, <2>1, FewerInOrder DEF Listed, HeldInOrder, NoNewerKey
<1>2. ASSUME NEW p \in Profiles, Admin(p)
      PROVE  Listed' /\ HeldInOrder' /\ PublishedInOrder'
  <2>1. UNCHANGED <<clusters, dw>>
    BY <1>2 DEF Admin, provider
  <2>2. \A q \in Profiles :
           /\ secrets[q].identity \in Nat /\ secrets'[q].identity \in Nat
           /\ secrets[q].identity =< secrets'[q].identity
    BY <1>0, <1>2, SecretsGrow
  <2>3. HeldInOrder'
    <3>1. dw.pc \in {"build", "publish"} =>
             /\ dw.cp \in Profiles /\ dw.identity \in Nat
             /\ dw.key # None => dw.key \in Nat
      BY <1>0, NatNotNone DEF SafeInv, Equipped, TypeOK, Discoverers, Waiting
    <3> QED  BY <1>0, <2>1, <2>2, <3>1 DEF HeldInOrder, NoNewerKey
  <2>4. PublishedInOrder'
    <3> SUFFICES ASSUME NEW n \in Published
                 PROVE  \E q \in Profiles :
                           /\ NameOf[q] = n
                           /\ clusters[n].identity =< secrets'[q].identity
      BY <1>0, <2>1 DEF PublishedInOrder, Published, NoNewerKey
    <3>1. clusters[n].identity \in Nat
      BY <1>0 DEF Published, TypeOK, Engaged
    <3>2. PICK q \in Profiles : /\ NameOf[q] = n
                                /\ clusters[n].identity =< secrets[q].identity
      BY <1>0 DEF PublishedInOrder
    <3> QED  BY <2>2, <3>1, <3>2
  <2> QED  BY <1>0, <2>1, <2>3, <2>4 DEF Listed
<1> QED  BY <1>1, <1>2

LEMMA FleetInvariant == Spec => []FleetInv
<1>1. Init => Listed /\ HeldInOrder /\ PublishedInOrder
  BY DEF Init, Listed, HeldInOrder, PublishedInOrder, Published, Waiting
<1>2. FleetInv /\ [Next]_vars => Listed' /\ HeldInOrder' /\ PublishedInOrder'
  <2>1. ASSUME FleetInv, UNCHANGED vars
        PROVE  Listed' /\ HeldInOrder' /\ PublishedInOrder'
    BY <2>1 DEF FleetInv, vars, provider, Listed, HeldInOrder,
                PublishedInOrder, Published, NoNewerKey
  <2> QED  BY <2>1, DiscoverInOrder, OthersInOrder DEF Next
<1>3. Spec => []SafeInv
  BY SafeInvariant
<1> QED  BY <1>1, <1>2, <1>3, PTL DEF Spec, FleetInv

(***************************************************************************)
(* However the admins recreate a spoke while a poll is at it, its stale    *)
(* client is never kept under the key of the new incarnation: for any      *)
(* profiles, and any number of changes between the two reads of a Secret.  *)
(***************************************************************************)
THEOREM StaleClientsAreNoticed == Spec => []StaleIsNoticed
<1>1. FleetInv => StaleIsNoticed
  <2> SUFFICES ASSUME FleetInv, NEW p \in Profiles,
                      \A q \in Profiles : NameOf[q] = NameOf[p] => q = p,
                      clusters[NameOf[p]] # None,
                      clusters[NameOf[p]].key = secrets[p].identity
               PROVE  clusters[NameOf[p]].identity = secrets[p].identity
    BY DEF StaleIsNoticed
  <2> DEFINE c == clusters[NameOf[p]]
  <2>1. /\ NameOf[p] \in Published /\ c.identity \in Nat
        /\ secrets[p].identity \in Nat
    BY DEF FleetInv, SafeInv, TypeOK, Published, Names, Engaged, Secrets
  <2>2. c.identity =< secrets[p].identity
    BY <2>1 DEF FleetInv, PublishedInOrder
  <2>3. c.key =< c.identity
    BY <2>1, ClusterProviderAssumption
       DEF FleetInv, PublishedInOrder, NoNewerKey
  <2> QED  BY <2>1, <2>2, <2>3
<1> QED  BY <1>1, FleetInvariant, PTL
-----------------------------------------------------------------------------
(* The provider implements Fleet. *)

\* Outside the step from building to publishing, Fleet sees the map itself.
LEMMA FleetIsMap ==
    ASSUME TypeOK, dw.pc # "publish"
    PROVE  FleetOf = clusters
BY DEF FleetOf, TypeOK

LEMMA ListRefines ==
    ASSUME FleetInv, List
    PROVE  Promise!Poll
<1>1. TypeOK
  BY DEF FleetInv, SafeInv
<1>2. /\ dw.pc = "idle" /\ dw'.pc = "next"
      /\ dw'.seen = {NameOf[p] : p \in profiles}
      /\ UNCHANGED <<profiles, secrets, clusters, disturbances>>
  BY DEF List, provider
<1>3. UNCHANGED <<FleetOf, Joining>>
  BY <1>2 DEF FleetOf, Joining
<1>4. Unlisted' = Names \ {NameOf[p] : p \in profiles}
  BY <1>2 DEF Unlisted
<1> QED  BY <1>2, <1>3, <1>4 DEF Promise!Poll, Promise!Names, Names

\* To leave the published clusters and what discover holds as they are, or to
\* cancel one of them, as Fleet sees it.
LEMMA FleetKept ==
    ASSUME TypeOK, TypeOK', dw.pc # "publish", dw'.pc # "publish",
           UNCHANGED clusters
    PROVE  UNCHANGED FleetOf
BY FleetIsMap DEF FleetOf, TypeOK

LEMMA FleetLoses ==
    ASSUME TypeOK, TypeOK', dw.pc # "publish", dw'.pc # "publish",
           NEW n \in Names, DisengageCluster(n)
    PROVE  FleetOf' = [FleetOf EXCEPT ![n] = None]
<1>1. FleetOf = clusters
  BY FleetIsMap
<1>2. clusters' \in [Names -> Engaged \cup {None}]
  BY DEF TypeOK
<1>3. FleetOf' = clusters'
  BY <1>2 DEF FleetOf
<1> QED  BY <1>1, <1>3 DEF DisengageCluster

LEMMA ExamineRefines ==
    ASSUME FleetInv, FleetInv', NEW p \in Profiles, Examine(p)
    PROVE  [Promise!FleetNext]_(Promise!fvars)
<1> DEFINE n == NameOf[p]
<1>0. TypeOK /\ TypeOK' /\ n \in Names
  BY DEF FleetInv, SafeInv, Names
<1>1. /\ dw \in Discoverers /\ dw.pc = "next" /\ p \in dw.todo
      /\ UNCHANGED <<profiles, secrets>>
  BY <1>0 DEF Examine, TypeOK, Waiting
<1>2. PICK key \in {KeyOf(p), None} :
         /\ IF key = KeyOf(p) THEN UNCHANGED disturbances ELSE Disturb
         /\ IF UpToDate(n, key)
            THEN /\ dw' = [dw EXCEPT !.todo = @ \ {p}]
                 /\ UNCHANGED clusters
            ELSE /\ dw' = [dw EXCEPT !.pc = "build", !.todo = @ \ {p},
                                     !.cp = p, !.key = key]
                 /\ IF clusters[n] = None
                    THEN UNCHANGED clusters ELSE DisengageCluster(n)
  BY DEF Examine, provider
<1>3. dw'.pc \in {"next", "build"} /\ dw'.seen = dw.seen
  BY <1>1, <1>2 DEF Discoverers
<1>4. UNCHANGED <<Unlisted, Joining>> /\ Joining = None
  BY <1>1, <1>3 DEF Unlisted, Joining
<1>5. CASE UNCHANGED clusters
  <2>1. UNCHANGED FleetOf
    BY <1>0, <1>1, <1>3, <1>5, FleetKept
  <2>2. CASE UNCHANGED disturbances
    BY <1>1, <1>4, <2>1, <2>2 DEF Promise!fvars
  <2>3. CASE Disturb
    <3>1. Promise!Fail
      BY <1>1, <1>4, <2>1, <2>3 DEF Promise!Fail, Disturb
    <3> QED  BY <3>1 DEF Promise!FleetNext
  <2> QED  BY <1>2, <2>2, <2>3
<1>6. CASE /\ clusters[n] # None /\ key \notin {None, clusters[n].key}
           /\ DisengageCluster(n)
  <2>1. /\ key = KeyOf(p) /\ secrets[p].usable
        /\ key = secrets[p].identity /\ UNCHANGED disturbances
    BY <1>2, <1>6 DEF KeyOf
  <2>2. FleetOf = clusters /\ FleetOf' = [FleetOf EXCEPT ![n] = None]
    BY <1>0, <1>1, <1>3, <1>6, FleetIsMap, FleetLoses
  <2>3. Promise!Dismiss(n)
    BY <1>1, <1>4, <1>6, <2>1, <2>2 DEF Promise!Dismiss
  <2> QED  BY <1>0, <2>3 DEF Promise!FleetNext, Promise!Names, Names
<1> QED  BY <1>2, <1>5, <1>6 DEF UpToDate

LEMMA BuildRefines ==
    ASSUME FleetInv, FleetInv', Build
    PROVE  [Promise!FleetNext]_(Promise!fvars)
<1> DEFINE p == dw.cp
           n == NameOf[dw.cp]
<1>0. /\ TypeOK /\ TypeOK' /\ p \in Profiles /\ n \in Names
      /\ clusters[n] = None /\ n \in dw.seen
  BY DEF FleetInv, SafeInv, Names, Build, Equipped, Listed
<1>1. /\ dw \in Discoverers /\ dw.pc = "build"
      /\ UNCHANGED <<profiles, secrets, clusters>>
  BY <1>0 DEF Build, TypeOK, Waiting
<1>2. Joining = None /\ FleetOf = clusters /\ n \notin Unlisted
  BY <1>0, <1>1, FleetIsMap DEF Joining, Unlisted
<1>3. CASE /\ secrets[p].usable /\ UNCHANGED disturbances
           /\ dw' = [dw EXCEPT !.pc = "publish",
                               !.identity = secrets[p].identity]
  <2>1. /\ dw'.pc = "publish" /\ dw'.seen = dw.seen /\ dw'.cp = p
        /\ dw'.key = dw.key /\ dw'.identity = secrets[p].identity
    BY <1>1, <1>3 DEF Discoverers
  <2>2. UNCHANGED Unlisted /\ Joining' = n
    BY <1>1, <2>1 DEF Unlisted, Joining
  <2>3. FleetOf' = [FleetOf EXCEPT ![n] = [identity |-> secrets[p].identity,
                                           key |-> dw.key]]
    BY <1>0, <1>1, <1>2, <2>1 DEF FleetOf, TypeOK
  <2>4. dw.key \in Promise!Keys(p)
    <3>1. /\ dw.key # None => dw.key \in Nat /\ dw.key =< secrets[p].identity
          /\ secrets[p].identity \in Nat
      BY <1>0, <1>1, NatNotNone
         DEF FleetInv, HeldInOrder, Discoverers, TypeOK, Secrets
    <3> QED  BY <3>1 DEF Promise!Keys
  <2>5. Promise!Connect(p, dw.key)
    BY <1>0, <1>1, <1>2, <1>3, <2>2, <2>3 DEF Promise!Connect
  <2> QED  BY <1>0, <2>4, <2>5 DEF Promise!FleetNext
<1>4. CASE /\ dw' = [dw EXCEPT !.pc = "next"]
           /\ UNCHANGED disturbances \/ Disturb
  <2>1. dw'.pc = "next" /\ dw'.seen = dw.seen
    BY <1>1, <1>4 DEF Discoverers
  <2>2. UNCHANGED <<Unlisted, Joining, FleetOf>>
    BY <1>0, <1>1, <2>1, FleetKept DEF Unlisted, Joining
  <2>3. UNCHANGED disturbances \/ Promise!Fail
    BY <1>1, <1>4, <2>2 DEF Promise!Fail, Disturb
  <2> QED  BY <1>1, <2>2, <2>3 DEF Promise!FleetNext, Promise!fvars
<1> QED  BY <1>3, <1>4 DEF Build

\* Entering the cluster in the maps, and its indexes, Fleet does not see, or
\* only as a call that failed.
LEMMA PublishHidden ==
    ASSUME FleetInv, FleetInv', Publish \/ IndexNew
    PROVE  Promise!Fail \/ UNCHANGED Promise!fvars
<1>0. /\ TypeOK /\ TypeOK' /\ dw \in Discoverers
      /\ UNCHANGED <<profiles, secrets>>
      /\ NameOf[dw.cp] \in Names
  BY DEF FleetInv, SafeInv, TypeOK, Publish, IndexNew, Waiting, Equipped, Names
<1>1. UNCHANGED FleetOf
  <2>1. CASE Publish
    <3>1. clusters' = [clusters EXCEPT ![NameOf[dw.cp]] =
                         [identity |-> dw.identity, key |-> dw.key]]
      BY <2>1 DEF Publish
    <3>2. dw'.pc = "index" /\ dw.pc = "publish"
      BY <1>0, <2>1 DEF Publish, Discoverers
    <3>3. FleetOf' = clusters'
      BY <1>0, <3>2, FleetIsMap DEF FleetOf, TypeOK
    <3> QED  BY <1>0, <3>1, <3>2, <3>3 DEF FleetOf, TypeOK
  <2>2. CASE IndexNew
    <3>1. /\ dw.pc # "publish" /\ dw'.pc # "publish" /\ UNCHANGED clusters
      BY <1>0, <2>2 DEF IndexNew, Discoverers
    <3> QED  BY <1>0, <3>1, FleetKept
  <2> QED  BY <2>1, <2>2
<1>2. /\ dw'.cp = dw.cp /\ dw'.seen = dw.seen
      /\ {dw.pc, dw'.pc} \subseteq {"publish", "index", "engage"}
  BY <1>0 DEF Publish, IndexNew, Discoverers
<1>3. UNCHANGED <<Unlisted, Joining>>
  BY <1>0, <1>2 DEF Unlisted, Joining
<1>4. UNCHANGED disturbances \/ disturbances' = disturbances + 1
  BY DEF Publish, IndexNew, Disturb
<1> QED  BY <1>0, <1>1, <1>3, <1>4 DEF Promise!Fail, Promise!fvars

LEMMA EngageRefines ==
    ASSUME FleetInv, FleetInv', Engage
    PROVE  Promise!Join \/ \E n \in Names : Promise!Refuse(n)
<1> DEFINE n == NameOf[dw.cp]
<1>0. /\ TypeOK /\ TypeOK' /\ dw \in Discoverers /\ n \in Names
      /\ dw.pc = "engage" /\ UNCHANGED <<profiles, secrets>>
  BY DEF FleetInv, SafeInv, TypeOK, Engage, Waiting, Equipped, Names
<1>1. dw'.pc = "next" /\ dw'.seen = dw.seen
  BY <1>0 DEF Engage, Discoverers
<1>2. UNCHANGED Unlisted /\ Joining = n /\ Joining' = None
  BY <1>0, <1>1 DEF Unlisted, Joining
<1>3. CASE UNCHANGED <<clusters, disturbances>>
  <2>1. UNCHANGED FleetOf
    BY <1>0, <1>1, <1>3, FleetKept
  <2> QED  BY <1>0, <1>2, <1>3, <2>1 DEF Promise!Join
<1>4. CASE Disturb /\ DisengageCluster(n)
  <2>1. FleetOf' = [FleetOf EXCEPT ![n] = None]
    BY <1>0, <1>1, <1>4, FleetLoses
  <2>2. Promise!Refuse(n)
    BY <1>0, <1>2, <1>4, <2>1 DEF Promise!Refuse, Disturb
  <2> QED  BY <1>0, <2>2
<1> QED  BY <1>3, <1>4 DEF Engage

LEMMA SweepRefines ==
    ASSUME FleetInv, FleetInv', Sweep
    PROVE  Promise!EndPoll \/ \E n \in Names : Promise!Dismiss(n)
<1>0. /\ TypeOK /\ TypeOK' /\ dw.pc = "next" /\ Joining = None
      /\ UNCHANGED <<profiles, secrets, disturbances>>
  BY DEF FleetInv, SafeInv, Sweep, Joining
<1>1. ASSUME NEW n \in Published \ dw.seen, DisengageCluster(n), dw' = dw
      PROVE  n \in Names /\ Promise!Dismiss(n)
  <2>1. n \in Names /\ clusters[n] # None
    BY DEF Published
  <2>2. FleetOf = clusters /\ FleetOf' = [FleetOf EXCEPT ![n] = None]
    BY <1>0, <1>1, <2>1, FleetIsMap, FleetLoses
  <2>3. n \in Unlisted /\ UNCHANGED <<Unlisted, Joining>>
    BY <1>0, <1>1, <2>1 DEF Unlisted, Joining
  <2> QED  BY <1>0, <2>1, <2>2, <2>3 DEF Promise!Dismiss
<1>2. CASE dw' = Waiting /\ UNCHANGED clusters
  <2>1. dw'.pc = "idle"
    BY <1>2 DEF Waiting
  <2>2. UNCHANGED <<FleetOf, Joining>>
    BY <1>0, <1>2, <2>1, FleetKept DEF Joining
  <2>3. Unlisted' = {}
    BY <2>1 DEF Unlisted
  <2> QED  BY <1>0, <2>2, <2>3 DEF Promise!EndPoll
<1> QED  BY <1>1, <1>2 DEF Sweep, provider

\* Indexes are none of Fleet's business; profiles and Secrets change in it too.
LEMMA OthersRefine ==
    ASSUME FleetInv, FleetInv',
           \/ Walk \/ \E i \in Indexes : Register(i)
           \/ \E p \in Profiles : Admin(p)
    PROVE  [Promise!FleetNext]_(Promise!fvars)
<1>0. UNCHANGED <<clusters, dw>>
  BY DEF Walk, Register, Admin, provider
<1>1. UNCHANGED <<Unlisted, FleetOf, Joining>>
  BY <1>0 DEF Unlisted, FleetOf, Joining
<1>2. CASE Walk \/ \E i \in Indexes : Register(i)
  <2>1. /\ UNCHANGED <<profiles, secrets>>
        /\ UNCHANGED disturbances \/ disturbances' = disturbances + 1
    BY <1>2 DEF Walk, Register, Disturb
  <2> QED
    BY <1>1, <2>1 DEF Promise!Fail, Promise!fvars, Promise!FleetNext
<1>3. ASSUME NEW p \in Profiles, Admin(p)
      PROVE  Promise!Change
  <2>1. \A q \in Profiles : secrets'[q].identity >= secrets[q].identity
    BY <1>3, SecretsGrow DEF FleetInv, SafeInv
  <2>2. disturbances' = disturbances + 1
    BY <1>3 DEF Admin, Disturb
  <2> QED  BY <1>1, <2>1, <2>2 DEF Promise!Change
<1> QED  BY <1>2, <1>3 DEF Promise!FleetNext

(***************************************************************************)
(* Every step of the provider is a step of Fleet or a stutter, whatever    *)
(* the admins and the manager do meanwhile: a cluster is started only      *)
(* where none runs and for a listed profile, and stopped only for a cause  *)
(* (discover).                                                             *)
(***************************************************************************)
THEOREM ImplementsFleet == Spec => KeepsFleet
<1>1. Init => Promise!FleetInit
  <2> SUFFICES ASSUME Init
               PROVE  Promise!FleetInit
    OBVIOUS
  <2>1. dw.pc = "idle" /\ clusters = [n \in Names |-> None]
    BY DEF Init, Waiting
  <2>2. FleetOf = [n \in Names |-> None]
    BY <2>1 DEF FleetOf
  <2> QED
    BY <2>1, <2>2
       DEF Unlisted, Joining, Promise!FleetInit, Promise!Names, Names
<1>2. FleetInv /\ FleetInv' /\ [Next]_vars
         => [Promise!FleetNext]_(Promise!fvars)
  <2> SUFFICES ASSUME FleetInv, FleetInv', [Next]_vars
               PROVE  [Promise!FleetNext]_(Promise!fvars)
    OBVIOUS
  <2>1. CASE Discover
    <3>1. Promise!Names = Names
      BY DEF Promise!Names, Names
    <3> QED
      BY <2>1, <3>1, ListRefines, ExamineRefines, BuildRefines,
         PublishHidden, EngageRefines, SweepRefines
         DEF Discover, Promise!FleetNext
  <2>2. CASE UNCHANGED vars
    BY <2>2 DEF vars, provider, Unlisted, FleetOf, Joining, Promise!fvars
  <2> QED  BY <2>1, <2>2, OthersRefine DEF Next
<1> QED
  BY <1>1, <1>2, FleetInvariant, PTL DEF Spec, KeepsFleet, Promise!FleetSpec
=============================================================================

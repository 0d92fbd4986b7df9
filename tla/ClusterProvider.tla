--------------------------- MODULE ClusterProvider ---------------------------
(***************************************************************************)
(* The cluster inventory provider (provider.go): a loop that polls the     *)
(* hub's ClusterProfiles and engages one cluster for each, and IndexField, *)
(* which the manager may call meanwhile.  A cluster's identity is read     *)
(* twice from its kubeconfig Secret: once hashed, once to build a client.  *)
(***************************************************************************)
EXTENDS Naturals

CONSTANTS
    Profiles,        \* ClusterProfiles (namespace and name)
    NameOf,          \* the name in a profile: also the cluster's
    Indexes,         \* field indexes the manager registers
    MaxDisturbances, \* bound: changes and failures in one behaviour
    None             \* no cluster of that name; the key of one without

VARIABLES
    profiles,    \* the profiles that match the selector
    secrets,     \* their kubeconfig Secrets
    clusters,    \* p.clusters and p.clusterKeys, by name
    running,     \* how many started clusters of a name are not cancelled
    applied,     \* how often an index was put on the published cluster
    refused,     \* indexes that cluster refused to discover
    indexes,     \* p.indexes
    answered,    \* indexes for which IndexField returned no error
    dw,          \* discover
    ix,          \* IndexField
    disturbances \* how often something changed or failed

provider == <<clusters, running, applied, refused>>
vars == <<profiles, secrets, provider, indexes, answered, dw, ix, disturbances>>

-----------------------------------------------------------------------------
Names == {NameOf[p] : p \in Profiles}

\* Which incarnation of the cluster the Secret describes: server and CA.
\* Unusable is a Secret that is missing, empty or cannot be parsed.
Secrets == [identity : Nat, usable : BOOLEAN]

Keys == Nat \cup {None}

\* identity is the endpoint the client was built for, key what was hashed.
Engaged == [identity : Nat, key : Keys]

ASSUME ClusterProviderAssumption ==
    /\ MaxDisturbances \in Nat
    /\ None \notin Nat \cup Engaged

Unapplied == [i \in Indexes |-> 0]

Waiting == [pc |-> "idle"]

Discoverers ==
    [pc : {"next", "build", "publish", "index", "engage"},
     todo : SUBSET Profiles, seen : SUBSET Names, cp : Profiles \cup {None},
     key : Keys, identity : Nat, pending : SUBSET Indexes]

Walkers == [pc : {"walk"}, index : Indexes, walk : SUBSET Names, lost : BOOLEAN]

TypeOK ==
    /\ profiles \subseteq Profiles
    /\ secrets \in [Profiles -> Secrets]
    /\ clusters \in [Names -> Engaged \cup {None}]
    /\ running \in [Names -> Nat]
    /\ applied \in [Names -> [Indexes -> Nat]]
    /\ refused \in [Names -> SUBSET Indexes]
    /\ indexes \subseteq Indexes /\ answered \subseteq indexes
    /\ dw \in Discoverers \cup {Waiting}
    /\ ix \in Walkers \cup {Waiting}
    /\ disturbances \in Nat

Disturb ==
    /\ disturbances < MaxDisturbances
    /\ disturbances' = disturbances + 1

Published == {n \in Names : clusters[n] # None}
-----------------------------------------------------------------------------
(***************************************************************************)
(* discover.  It alone writes the maps, so what it reads of them under the *)
(* lock holds until it writes.                                             *)
(***************************************************************************)

\* The list of one poll.  A list that fails ends the poll, and nothing else.
List ==
    /\ dw.pc = "idle"
    /\ dw' = [pc |-> "next", todo |-> profiles,
              seen |-> {NameOf[p] : p \in profiles}, cp |-> None, key |-> None,
              identity |-> 0, pending |-> {}]
    /\ UNCHANGED <<profiles, secrets, provider, indexes, answered, ix,
                   disturbances>>

SlipNoCancel(n) ==
    /\ clusters' = [clusters EXCEPT ![n] = None]
    /\ UNCHANGED running
    /\ ix' = IF ix.pc = "walk" /\ n \in ix.walk
             THEN [ix EXCEPT !.walk = @ \ {n}, !.lost = TRUE] ELSE ix

\* disengageCluster.  IndexField may still hold the cancelled cluster.
DisengageCluster(n) ==
    /\ clusters' = [clusters EXCEPT ![n] = None]
    /\ running' = [running EXCEPT ![n] = @ - 1]
    /\ ix' = IF ix.pc = "walk" /\ n \in ix.walk
             THEN [ix EXCEPT !.walk = @ \ {n}, !.lost = TRUE] ELSE ix

\* readClusterKey fails on an unusable Secret, or because the call fails.
KeyOf(p) == IF secrets[p].usable THEN secrets[p].identity ELSE None

SlipUnreadableIsNew(n, key) ==
    clusters[n] # None /\ key = clusters[n].key

SlipKeepEngaged(n, key) == clusters[n] # None

\* Leave a cluster that is engaged if its identity is the same, or unknown.
\* Reading the Secret, comparing and disengaging are one step: only this loop
\* writes what is compared.
UpToDate(n, key) ==
    /\ clusters[n] # None
    /\ key \in {None, clusters[n].key}

Examine(p) ==
    /\ dw.pc = "next" /\ p \in dw.todo
    /\ \E key \in {KeyOf(p), None} :
          /\ IF key = KeyOf(p) THEN UNCHANGED disturbances ELSE Disturb
          /\ IF UpToDate(NameOf[p], key)
             THEN /\ dw' = [dw EXCEPT !.todo = @ \ {p}]
                  /\ UNCHANGED <<provider, ix>>
             ELSE /\ dw' = [dw EXCEPT !.pc = "build", !.todo = @ \ {p},
                                      !.cp = p, !.key = key]
                  /\ IF clusters[NameOf[p]] = None
                     THEN UNCHANGED <<clusters, running, ix>>
                     ELSE DisengageCluster(NameOf[p])
                  /\ UNCHANGED <<applied, refused>>
    /\ UNCHANGED <<profiles, secrets, indexes, answered>>

\* clusterFromClusterProfile, and cl.Start in a goroutine.
Build ==
    /\ dw.pc = "build"
    /\ \/ /\ secrets[dw.cp].usable
          /\ running' = [running EXCEPT ![NameOf[dw.cp]] = @ + 1]
          /\ dw' = [dw EXCEPT !.pc = "publish",
                              !.identity = secrets[dw.cp].identity]
          /\ UNCHANGED disturbances
       \/ /\ IF secrets[dw.cp].usable THEN Disturb ELSE UNCHANGED disturbances
          /\ dw' = [dw EXCEPT !.pc = "next"]
          /\ UNCHANGED running
    /\ UNCHANGED <<profiles, secrets, clusters, applied, refused, indexes,
                   answered, ix>>

SlipForgetKey ==
    /\ dw.pc = "publish"
    /\ clusters' = [clusters EXCEPT ![NameOf[dw.cp]] =
                      [identity |-> dw.identity, key |-> None]]
    /\ applied' = [applied EXCEPT ![NameOf[dw.cp]] = Unapplied]
    /\ refused' = [refused EXCEPT ![NameOf[dw.cp]] = {}]
    /\ dw' = [dw EXCEPT !.pc = "index", !.pending = indexes]
    /\ UNCHANGED <<profiles, secrets, running, indexes, answered, ix,
                   disturbances>>

SlipHashAfterBuild ==
    /\ dw.pc = "publish"
    /\ clusters' = [clusters EXCEPT ![NameOf[dw.cp]] =
                      [identity |-> dw.identity, key |-> KeyOf(dw.cp)]]
    /\ applied' = [applied EXCEPT ![NameOf[dw.cp]] = Unapplied]
    /\ refused' = [refused EXCEPT ![NameOf[dw.cp]] = {}]
    /\ dw' = [dw EXCEPT !.pc = "index", !.pending = indexes]
    /\ UNCHANGED <<profiles, secrets, running, indexes, answered, ix,
                   disturbances>>

\* Enter the cluster in the maps and copy the indexes, under one lock.
Publish ==
    /\ dw.pc = "publish"
    /\ clusters' = [clusters EXCEPT ![NameOf[dw.cp]] =
                      [identity |-> dw.identity, key |-> dw.key]]
    /\ applied' = [applied EXCEPT ![NameOf[dw.cp]] = Unapplied]
    /\ refused' = [refused EXCEPT ![NameOf[dw.cp]] = {}]
    /\ dw' = [dw EXCEPT !.pc = "index", !.pending = indexes]
    /\ UNCHANGED <<profiles, secrets, running, indexes, answered, ix,
                   disturbances>>

Apply(n, i) == applied' = [applied EXCEPT ![n][i] = @ + 1]

RefuseIndex(n, i) == refused' = [refused EXCEPT ![n] = @ \cup {i}]

\* Each index once.  An error (the spoke does not answer, or refuses) is
\* dropped, and the cluster engaged without that index.
IndexNew ==
    /\ dw.pc = "index"
    /\ IF dw.pending = {}
       THEN /\ dw' = [dw EXCEPT !.pc = "engage"]
            /\ UNCHANGED <<applied, refused, disturbances>>
       ELSE \E i \in dw.pending :
               /\ \/ /\ Apply(NameOf[dw.cp], i)
                     /\ UNCHANGED <<refused, disturbances>>
                  \/ /\ RefuseIndex(NameOf[dw.cp], i) /\ Disturb
                     /\ UNCHANGED applied
               /\ dw' = [dw EXCEPT !.pending = @ \ {i}]
    /\ UNCHANGED <<profiles, secrets, clusters, running, indexes, answered, ix>>

\* mgr.Engage; on an error the cluster is taken back.
Engage ==
    /\ dw.pc = "engage"
    /\ dw' = [dw EXCEPT !.pc = "next"]
    /\ \/ UNCHANGED <<clusters, running, ix, disturbances>>
       \/ Disturb /\ DisengageCluster(NameOf[dw.cp])
    /\ UNCHANGED <<profiles, secrets, applied, refused, indexes, answered>>

\* After the last profile: clusters whose profile is gone, then the next poll.
Sweep ==
    /\ dw.pc = "next" /\ dw.todo = {}
    /\ \/ \E n \in Published \ dw.seen :
             DisengageCluster(n) /\ UNCHANGED <<applied, refused, dw>>
       \/ /\ Published \subseteq dw.seen
          /\ dw' = Waiting
          /\ UNCHANGED <<provider, ix>>
    /\ UNCHANGED <<profiles, secrets, indexes, answered, disturbances>>

Discover ==
    \/ List \/ Build \/ Publish \/ IndexNew \/ Engage \/ Sweep
    \/ \E p \in Profiles : Examine(p)
-----------------------------------------------------------------------------
(***************************************************************************)
(* IndexField.                                                             *)
(***************************************************************************)

SlipDoNotRecord(i) ==
    /\ ix.pc = "idle" /\ i \notin indexes
    /\ ix' = [pc |-> "walk", index |-> i, walk |-> Published, lost |-> FALSE]
    /\ UNCHANGED <<profiles, secrets, provider, indexes, answered, dw,
                   disturbances>>

\* Record the index and copy the clusters, under one lock.
Register(i) ==
    /\ ix.pc = "idle" /\ i \notin indexes
    /\ indexes' = indexes \cup {i}
    /\ ix' = [pc |-> "walk", index |-> i, walk |-> Published, lost |-> FALSE]
    /\ UNCHANGED <<profiles, secrets, provider, answered, dw, disturbances>>

\* Put it on one cluster after the other.  One that is asked may refuse, which
\* ends the walk with an error; a cancelled one may as well take it unnoticed.
Walk ==
    /\ ix.pc = "walk"
    /\ \/ \E n \in ix.walk :
             /\ Apply(n, ix.index)
             /\ ix' = [ix EXCEPT !.walk = @ \ {n}]
             /\ UNCHANGED <<answered, disturbances>>
       \/ /\ \/ ix.walk # {} /\ Disturb
             \/ ix.lost /\ UNCHANGED disturbances
          /\ ix' = Waiting
          /\ UNCHANGED <<applied, answered>>
       \/ /\ ix.walk = {}
          /\ ix' = Waiting
          /\ answered' = answered \cup {ix.index}
          /\ UNCHANGED <<applied, disturbances>>
    /\ UNCHANGED <<profiles, secrets, clusters, running, refused, indexes, dw>>
-----------------------------------------------------------------------------
(***************************************************************************)
(* The hub's admins: profiles come and go (or match and stop matching);    *)
(* Secrets become unusable or usable again; clusters are created anew,     *)
(* with a server and CA never seen before.                                 *)
(***************************************************************************)
Admin(p) ==
    /\ Disturb
    /\ \/ /\ profiles' = IF p \in profiles THEN profiles \ {p}
                         ELSE profiles \cup {p}
          /\ UNCHANGED secrets
       \/ /\ secrets' = [secrets EXCEPT ![p].usable = ~@]
          /\ UNCHANGED profiles
       \/ /\ secrets' = [secrets EXCEPT ![p] = [identity |-> @.identity + 1,
                                                usable |-> TRUE]]
          /\ UNCHANGED profiles
    /\ UNCHANGED <<provider, indexes, answered, dw, ix>>
-----------------------------------------------------------------------------
Init ==
    /\ profiles = Profiles
    /\ secrets = [p \in Profiles |-> [identity |-> 0, usable |-> TRUE]]
    /\ clusters = [n \in Names |-> None]
    /\ running = [n \in Names |-> 0]
    /\ applied = [n \in Names |-> Unapplied]
    /\ refused = [n \in Names |-> {}]
    /\ indexes = {} /\ answered = {}
    /\ dw = Waiting /\ ix = Waiting
    /\ disturbances = 0

Next ==
    \/ Discover \/ Walk
    \/ \E i \in Indexes : Register(i)
    \/ \E p \in Profiles : Admin(p)

Spec == Init /\ [][Next]_vars

\* The ticker ticks for ever, the loop goes on, and so does IndexField.
FairSpec == Spec /\ WF_vars(Discover) /\ WF_vars(Walk)
-----------------------------------------------------------------------------
(***************************************************************************)
(* Every started cluster is in the map, or in discover's hands before it   *)
(* gets there: none runs on forgotten, none in the map is cancelled,       *)
(* whatever fails in between (cl.Start, mgr.Engage, disengageCluster).     *)
(***************************************************************************)
NoneForgotten ==
    \A n \in Names :
       running[n] = IF clusters[n] # None \/ (dw.pc = "publish" /\ NameOf[dw.cp] = n)
                    THEN 1 ELSE 0

(***************************************************************************)
(* No cluster is given an index twice, nor asked again when it refused     *)
(* one; and an engaged cluster lacks an index for which IndexField has     *)
(* returned no error only if it refused that index to discover, which      *)
(* drops the error.  The two copies are taken under the lock that also     *)
(* publishes, so none falls between them (IndexField, discover).           *)
(***************************************************************************)
IndexedOnce ==
    \A n \in Published, i \in Indexes :
       /\ applied[n][i] <= 1
       /\ i \in refused[n] => applied[n][i] = 0
       /\ \/ applied[n][i] = 1
          \/ i \in refused[n]
          \/ i \notin answered
          \/ dw.pc = "index" /\ NameOf[dw.cp] = n /\ i \in dw.pending

(***************************************************************************)
(* A cluster whose client talks to an incarnation that is gone is not kept *)
(* under the key of the present one: the next poll notices, because the    *)
(* identity is hashed before the client is built, never after              *)
(* (readClusterKey: "detect when a spoke cluster's endpoint changes").     *)
(* Only profiles that share a name can pass for each other.                *)
(***************************************************************************)
StaleIsNoticed ==
    \A p \in Profiles :
       LET c == clusters[NameOf[p]]
       IN  /\ \A q \in Profiles : NameOf[q] = NameOf[p] => q = p
           /\ c # None
           /\ c.key = secrets[p].identity
           => c.identity = secrets[p].identity

\* A cluster counts from the moment it is started.
FleetOf ==
    [n \in Names |-> IF dw.pc = "publish" /\ NameOf[dw.cp] = n
                     THEN [identity |-> dw.identity, key |-> dw.key]
                     ELSE clusters[n]]

Unlisted == IF dw.pc = "idle" THEN {} ELSE Names \ dw.seen

Joining ==
    IF dw.pc \in {"publish", "index", "engage"} THEN NameOf[dw.cp] ELSE None

Promise == INSTANCE Fleet WITH unlisted <- Unlisted, fleet <- FleetOf,
                               joining <- Joining, trouble <- disturbances

(***************************************************************************)
(* The provider implements Fleet: it starts a cluster only where none runs *)
(* and for a listed profile, never swaps one in place, and stops one only  *)
(* for a cause (discover).                                                 *)
(***************************************************************************)
KeepsFleet == Promise!FleetSpec

(***************************************************************************)
(* In the end the engaged clusters are those of the matching profiles, at  *)
(* the endpoints their Secrets give, although the identity and the client  *)
(* come from two reads (readClusterKey: "detect when a spoke cluster's     *)
(* endpoint changes").                                                     *)
(***************************************************************************)
EventuallyCurrent ==
    <>[](/\ Published \subseteq {NameOf[p] : p \in profiles}
         /\ \A p \in profiles :
               secrets[p].usable =>
                  /\ clusters[NameOf[p]] # None
                  /\ clusters[NameOf[p]].identity = secrets[p].identity)

(***************************************************************************)
(* And they stay: a poll that finds nothing new replaces no cluster, also  *)
(* after one engaged under an identity that could not be read.             *)
(***************************************************************************)
EventuallySettled == <>[][UNCHANGED clusters]_vars
-----------------------------------------------------------------------------
(***************************************************************************)
(* What makes them inductive.                                              *)
(***************************************************************************)

\* discover has disengaged a name before it builds for it anew, and IndexField
\* has recorded an index before it applies it.
Equipped ==
    /\ dw.pc \in {"build", "publish", "index", "engage"} => dw.cp \in Profiles
    /\ dw.pc \in {"build", "publish"} => clusters[NameOf[dw.cp]] = None
    /\ dw.pc \in {"index", "engage"} => clusters[NameOf[dw.cp]] # None
    /\ ix.pc = "walk" => ix.index \in indexes

\* A poll works through what it has listed.
Listed ==
    /\ dw.pc # "idle" => {NameOf[p] : p \in dw.todo} \subseteq dw.seen
    /\ dw.pc \in {"build", "publish", "index", "engage"} =>
          NameOf[dw.cp] \in dw.seen

\* What was hashed is no newer than what the client was built for, and that
\* no newer than what the Secret describes.
NoNewerKey(c) == c.key # None => c.key =< c.identity

HeldInOrder ==
    /\ dw.pc = "build" /\ dw.key # None => dw.key =< secrets[dw.cp].identity
    /\ dw.pc = "publish" =>
          NoNewerKey(dw) /\ dw.identity =< secrets[dw.cp].identity

PublishedInOrder ==
    \A n \in Published :
       /\ NoNewerKey(clusters[n])
       /\ \E p \in Profiles : /\ NameOf[p] = n
                              /\ clusters[n].identity =< secrets[p].identity

\* Index i is still to be put on n by discover, or by IndexField.
OwedByDiscover(n, i) ==
    dw.pc = "index" /\ NameOf[dw.cp] = n /\ i \in dw.pending

OwedByWalk(n, i) == ix.pc = "walk" /\ ix.index = i /\ n \in ix.walk

\* A registered index is put on a cluster once, or refused by it, or owed by one
\* of the two; only a walk cut short may leave it owed by none.
AccountedAt(n, i) ==
    /\ applied[n][i] \in {0, 1}
    /\ applied[n][i] = 1 \/ i \in refused[n] => i \in indexes
    /\ applied[n][i] = 1 => i \notin refused[n]
    /\ OwedByDiscover(n, i) =>
          applied[n][i] = 0 /\ i \notin refused[n] /\ ~OwedByWalk(n, i)
    /\ OwedByWalk(n, i) => applied[n][i] = 0 /\ i \notin refused[n]
    /\ i \in answered \/ (ix.pc = "walk" /\ ix.index = i) =>
          \/ applied[n][i] = 1 \/ i \in refused[n]
          \/ OwedByDiscover(n, i) \/ OwedByWalk(n, i)

Accounted ==
    /\ dw.pc = "index" => dw.pending \subseteq indexes
    /\ ix.pc = "walk" => /\ ix.index \notin answered
                         /\ ix.walk \subseteq Published
    /\ \A n \in Published, i \in Indexes : AccountedAt(n, i)
=============================================================================

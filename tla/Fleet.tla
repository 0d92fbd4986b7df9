-------------------------------- MODULE Fleet --------------------------------
(***************************************************************************)
(* What the cluster inventory provider promises about the clusters it runs *)
(* for the manager.  At most one runs under a name, for a profile the poll *)
(* under way has listed, and of the incarnation the profile's Secret then  *)
(* described.  It runs on until the manager refuses it, a poll no longer   *)
(* lists the name, or the Secret can be read and tells of another          *)
(* incarnation than the one it was taken for.                              *)
(***************************************************************************)
EXTENDS Naturals

CONSTANTS
    Profiles,   \* ClusterProfiles
    NameOf,     \* the name in a profile: also the cluster's
    None

VARIABLES
    profiles,   \* the profiles on offer
    secrets,    \* the incarnation their Secrets describe: identity, usable
    unlisted,   \* the names the poll under way did not find
    fleet,      \* what runs under a name: its identity, and the one taken for
    joining,    \* the name of which the manager has not decided yet
    trouble     \* how often something changed or failed

fvars == <<profiles, secrets, unlisted, fleet, joining, trouble>>

Names == {NameOf[p] : p \in Profiles}

FleetInit ==
    /\ unlisted = {} /\ joining = None
    /\ fleet = [n \in Names |-> None]

\* An incarnation is never described again once there is a newer one.
Change ==
    /\ \A p \in Profiles : secrets'[p].identity >= secrets[p].identity
    /\ trouble' = trouble + 1
    /\ UNCHANGED <<unlisted, fleet, joining>>

Poll ==
    /\ unlisted' = Names \ {NameOf[p] : p \in profiles}
    /\ UNCHANGED <<profiles, secrets, fleet, joining, trouble>>

EndPoll ==
    /\ unlisted' = {}
    /\ UNCHANGED <<profiles, secrets, fleet, joining, trouble>>

\* A call fails without effect.
Fail ==
    /\ trouble' = trouble + 1
    /\ UNCHANGED <<profiles, secrets, unlisted, fleet, joining>>

\* What the Secret may have given when it was last read, if anything.
Keys(p) == {None} \cup (0 .. secrets[p].identity)

Connect(p, key) ==
    /\ joining = None
    /\ fleet[NameOf[p]] = None /\ NameOf[p] \notin unlisted
    /\ secrets[p].usable
    /\ fleet' = [fleet EXCEPT ![NameOf[p]] =
                   [identity |-> secrets[p].identity, key |-> key]]
    /\ joining' = NameOf[p]
    /\ UNCHANGED <<profiles, secrets, unlisted, trouble>>

Join ==
    /\ joining' = None
    /\ UNCHANGED <<profiles, secrets, unlisted, fleet, trouble>>

Refuse(n) ==
    /\ joining = n
    /\ joining' = None
    /\ fleet' = [fleet EXCEPT ![n] = None]
    /\ trouble' = trouble + 1
    /\ UNCHANGED <<profiles, secrets, unlisted>>

Dismiss(n) ==
    /\ joining = None
    /\ fleet[n] # None
    /\ \/ n \in unlisted
       \/ \E p \in Profiles :
             /\ NameOf[p] = n /\ secrets[p].usable
             /\ secrets[p].identity # fleet[n].key
    /\ fleet' = [fleet EXCEPT ![n] = None]
    /\ UNCHANGED <<profiles, secrets, unlisted, joining, trouble>>

FleetNext ==
    \/ Change \/ Poll \/ EndPoll \/ Fail \/ Join
    \/ \E p \in Profiles : \E key \in Keys(p) : Connect(p, key)
    \/ \E n \in Names : Refuse(n) \/ Dismiss(n)

FleetSpec == FleetInit /\ [][FleetNext]_fvars
=============================================================================

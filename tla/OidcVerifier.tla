---------------------------- MODULE OidcVerifier ----------------------------
(***************************************************************************)
(* The OIDC verifier (oidc-verifier/main.go): a loop that fetches the      *)
(* issuer's JWKS and merges it into one map under a write lock, and        *)
(* request handlers that copy the reference to that map under a read lock  *)
(* and read the map after it.                                              *)
(***************************************************************************)
EXTENDS Naturals

CONSTANTS
    Kids,            \* key ids
    Materials,       \* keys somebody signs with
    Documents,       \* what the endpoint may publish: sets of Entries
    TrustFiles,      \* what --trust-jwks may name; {} where it is not set
    Tokens,          \* what clients ask about
    Handlers,        \* /verify requests that may be under way at a time
    MaxDisturbances, \* bound: changes and failures in one behaviour
    Junk,            \* the key a field that does not decode yields
    Unusable,        \* a key of another type or curve, or without a field
    None             \* no kid; no key

VARIABLES
    published,   \* the endpoint's document
    trust,       \* the trust file
    keys,        \* s.keySet
    locked,      \* s.mu is write-locked
    serving,     \* main has reached ListenAndServe
    rf,          \* refreshJWKS
    handlers,    \* handleVerify, one per request
    disturbances \* how often something changed or failed

process == <<keys, locked, serving, rf, handlers>>
vars == <<published, trust, process, disturbances>>

-----------------------------------------------------------------------------
Keys == Materials \cup {Junk, None}

NoKeys == [k \in Kids |-> None]

\* An entry that is no JSON object, or whose kid is none, has no kid.
Entries == [kid : Kids \cup {None}, key : Materials \cup {Junk, Unusable}]

\* The kid and signer of a token; valid: its algorithm, issuer, audience and
\* times are accepted.
AllTokens == [kid : Kids \cup {None}, key : Materials, valid : BOOLEAN]

\* parseJWKSKeys fails on a list without entries, and on a key that has a kid
\* and cannot be used.
ParseFails(d) ==
    d = {} \/ \E e \in d : e.kid # None /\ e.key = Unusable

KeysUnder(d, k) == {e.key : e \in {x \in d : x.kid = k}}

\* What it returns otherwise: of two entries with one kid the later counts.
Parsed(d) ==
    {f \in [Kids -> Keys] :
       \A k \in Kids : IF KeysUnder(d, k) = {} THEN f[k] = None
                       ELSE f[k] \in KeysUnder(d, k)}

\* A trust file that cannot be parsed ends main at once.
ASSUME OidcVerifierAssumption ==
    /\ None \notin Kids \cup Materials \cup {Junk, Unusable}
    /\ Junk \notin Materials
    /\ Unusable \notin Materials \cup {Junk}
    /\ Documents \subseteq SUBSET Entries
    /\ TrustFiles \subseteq SUBSET Entries
    /\ \A d \in TrustFiles : d # {} => ~ParseFails(d)
    /\ Tokens \subseteq AllTokens
    /\ MaxDisturbances \in Nat

Refreshers ==
    [pc : {"fetch", "lock", "merge", "assign", "sleep"},
     fresh : [Kids -> Keys], todo : SUBSET Kids, kid : Kids \cup {None}]

Fetching == [pc |-> "fetch", fresh |-> NoKeys, todo |-> {}, kid |-> None]
Sleeping == [Fetching EXCEPT !.pc = "sleep"]

\* since: the keys the ring had under the token's kid since the request came.
Asked == [pc : {"copy", "lookup", "verified"}, token : Tokens,
          since : SUBSET Keys]
Idle == [pc |-> "idle"]

TypeOK ==
    /\ published \in Documents /\ trust \in TrustFiles
    /\ keys \in [Kids -> Keys]
    /\ locked \in BOOLEAN /\ serving \in BOOLEAN
    /\ rf \in Refreshers
    /\ rf.todo \subseteq {k \in Kids : rf.fresh[k] # None}
    /\ rf.todo # {} => rf.pc \in {"merge", "assign"}
    /\ rf.pc = "assign" => rf.kid \in rf.todo
    /\ handlers \in [Handlers -> Asked \cup {Idle}]
    /\ disturbances \in Nat

Disturb ==
    /\ disturbances < MaxDisturbances
    /\ disturbances' = disturbances + 1

Merged == [k \in Kids |-> IF rf.fresh[k] = None THEN keys[k] ELSE rf.fresh[k]]

\* The keys handlers see, or will once the lock is free again.
Ring == IF locked THEN Merged ELSE keys

KeyOfKid(r, t) == {r[k] : k \in Kids \cap {t.kid}}
-----------------------------------------------------------------------------
(***************************************************************************)
(* main: the trust file, a first refresh, and only then the server.  A     *)
(* failed refresh is logged, and the loop sleeps until the next.           *)
(***************************************************************************)
Start ==
    /\ keys' \in Parsed(trust)
    /\ locked' = FALSE /\ serving' = FALSE
    /\ rf' = Fetching
    /\ handlers' = [h \in Handlers |-> Idle]

SlipGiveUp == rf' = [Sleeping EXCEPT !.pc = "ended"] /\ serving' = TRUE

RefreshFailed == rf' = Sleeping /\ serving' = TRUE

\* The endpoint does not answer in time or not with a document, or answers
\* with one that does not parse.
FetchFailed ==
    /\ rf.pc = "fetch"
    /\ IF ParseFails(published) THEN UNCHANGED disturbances ELSE Disturb
    /\ RefreshFailed
    /\ UNCHANGED <<published, trust, keys, locked, handlers>>

Fetch ==
    /\ rf.pc = "fetch" /\ ~ParseFails(published)
    /\ \E f \in Parsed(published) : rf' = [rf EXCEPT !.pc = "lock", !.fresh = f]
    /\ UNCHANGED <<published, trust, keys, locked, serving, handlers, disturbances>>

SlipAllKids == Kids

\* The kids newKeySet has a key for.
ToMerge == {k \in Kids : rf.fresh[k] # None}

Lock ==
    /\ rf.pc = "lock" /\ ~locked
    /\ locked' = TRUE
    /\ rf' = [rf EXCEPT !.pc = "merge", !.todo = ToMerge]
    /\ handlers' = [h \in Handlers |->
                      IF handlers[h].pc \in {"copy", "lookup"}
                      THEN [handlers[h] EXCEPT
                              !.since = @ \cup KeyOfKid(Merged, handlers[h].token)]
                      ELSE handlers[h]]
    /\ UNCHANGED <<published, trust, keys, serving, disturbances>>

\* One assignment to the map takes a while: handlers may read it meanwhile.
BeginAssign(k) ==
    /\ rf.pc = "merge" /\ k \in rf.todo
    /\ rf' = [rf EXCEPT !.pc = "assign", !.kid = k]
    /\ UNCHANGED <<published, trust, keys, locked, serving, handlers, disturbances>>

SlipReplace ==
    /\ rf.pc = "assign"
    /\ keys' = rf.fresh
    /\ rf' = [rf EXCEPT !.pc = "merge", !.todo = {}, !.kid = None]
    /\ UNCHANGED <<published, trust, locked, serving, handlers, disturbances>>

EndAssign ==
    /\ rf.pc = "assign"
    /\ keys' = [keys EXCEPT ![rf.kid] = rf.fresh[rf.kid]]
    /\ rf' = [rf EXCEPT !.pc = "merge", !.todo = @ \ {rf.kid}, !.kid = None]
    /\ UNCHANGED <<published, trust, locked, serving, handlers, disturbances>>

SlipNoUnlock ==
    /\ rf.pc = "merge" /\ rf.todo = {}
    /\ rf' = Sleeping /\ serving' = TRUE
    /\ UNCHANGED <<published, trust, keys, locked, handlers, disturbances>>

Unlock ==
    /\ rf.pc = "merge" /\ rf.todo = {}
    /\ locked' = FALSE
    /\ rf' = Sleeping /\ serving' = TRUE
    /\ UNCHANGED <<published, trust, keys, handlers, disturbances>>

\* Five minutes later.
Wake ==
    /\ rf.pc = "sleep"
    /\ rf' = Fetching
    /\ UNCHANGED <<published, trust, keys, locked, serving, handlers, disturbances>>

RefreshStep ==
    \/ FetchFailed \/ Fetch \/ Lock \/ EndAssign \/ Unlock \/ Wake
    \/ \E k \in Kids : BeginAssign(k)
-----------------------------------------------------------------------------
(***************************************************************************)
(* handleVerify.  A request without a bearer token, or by another method,  *)
(* is refused before it gets here.                                         *)
(***************************************************************************)
Arrive(h, t) ==
    /\ serving /\ handlers[h].pc \in {"idle", "verified"}
    /\ handlers' = [handlers EXCEPT ![h] =
                      [pc |-> "copy", token |-> t, since |-> KeyOfKid(Ring, t)]]
    /\ UNCHANGED <<published, trust, keys, locked, serving, rf, disturbances>>

\* The copy is a reference to the map, which stays the same map.
Copy(h) ==
    /\ handlers[h].pc = "copy" /\ ~locked
    /\ handlers' = [handlers EXCEPT ![h].pc = "lookup"]
    /\ UNCHANGED <<published, trust, keys, locked, serving, rf, disturbances>>

SlipAnyKid(t) == {keys[k] : k \in Kids} \cup {None}

\* What a read of the map finds for a token: during an assignment also the
\* new key, or nothing where the map is being rearranged.
Found(t) ==
    IF t.kid = None THEN {None}
    ELSE IF rf.pc # "assign" THEN {keys[t.kid]}
    ELSE {keys[t.kid], None} \cup {rf.fresh[k] : k \in {rf.kid} \cap {t.kid}}

Lookup(h) ==
    /\ handlers[h].pc = "lookup"
    /\ \E key \in Found(handlers[h].token) :
          handlers' = [handlers EXCEPT ![h] =
                         IF key = handlers[h].token.key /\ handlers[h].token.valid
                         THEN [@ EXCEPT !.pc = "verified", !.since = {}] ELSE Idle]
    /\ UNCHANGED <<published, trust, keys, locked, serving, rf, disturbances>>

\* The runtime stops the process when it meets a read during a write.
ConcurrentMapRead(h) ==
    /\ handlers[h].pc = "lookup" /\ rf.pc = "assign"
    /\ Disturb /\ Start
    /\ UNCHANGED <<published, trust>>
-----------------------------------------------------------------------------
(***************************************************************************)
(* The endpoint rotates its keys, the process dies, and the kubelet        *)
(* restarts a verifier whose /healthz has no keys to report.  Its third    *)
(* failed probe comes long after the first fetch has timed out.            *)
(***************************************************************************)
Rotate(d) ==
    /\ Disturb
    /\ published' = d
    /\ UNCHANGED <<trust, process>>

Crash ==
    /\ Disturb /\ Start
    /\ UNCHANGED <<published, trust>>

ProbeRestart ==
    /\ serving /\ ~locked /\ keys = NoKeys
    /\ Start
    /\ UNCHANGED <<published, trust, disturbances>>
-----------------------------------------------------------------------------
Init ==
    /\ published \in Documents /\ trust \in TrustFiles
    /\ keys \in Parsed(trust)
    /\ locked = FALSE /\ serving = FALSE
    /\ rf = Fetching
    /\ handlers = [h \in Handlers |-> Idle]
    /\ disturbances = 0

Next ==
    \/ RefreshStep
    \/ \E h \in Handlers : Copy(h) \/ Lookup(h) \/ ConcurrentMapRead(h)
    \/ \E h \in Handlers, t \in Tokens : Arrive(h, t)
    \/ \E d \in Documents : Rotate(d)
    \/ Crash \/ ProbeRestart

Spec == Init /\ [][Next]_vars

\* The loop goes on for ever, handlers go on, and a read lock is not kept from
\* a handler for ever by writers (sync.RWMutex lets waiting readers in).
FairSpec ==
    /\ Spec
    /\ WF_vars(RefreshStep)
    /\ \A h \in Handlers : SF_vars(Copy(h)) /\ WF_vars(Lookup(h))
-----------------------------------------------------------------------------
(***************************************************************************)
(* A kid of the trust file has a key at any moment, from the file or from  *)
(* a document that parses as a whole: no refresh, failure or restart takes *)
(* it away (--trust-jwks: "additional trusted keys").                      *)
(***************************************************************************)
TrustKept ==
    \A k \in Kids :
       KeysUnder(trust, k) # {} =>
          \E d \in {trust} \cup {x \in Documents : ~ParseFails(x)} :
             keys[k] \in KeysUnder(d, k)

\* A request in the terms of KeyRing.
Request(h) ==
    IF handlers[h].pc = "idle" THEN [state |-> "none"]
    ELSE IF handlers[h].pc = "verified"
    THEN [state |-> "verified", token |-> handlers[h].token]
    ELSE [state |-> "asked", token |-> handlers[h].token,
          since |-> handlers[h].since]

KR == INSTANCE KeyRing WITH
        ring <- Ring, requests <- [h \in Handlers |-> Request(h)]

(***************************************************************************)
(* The verifier is a KeyRing: although keys are merged one by one and read *)
(* without the lock, the ring changes by whole documents only, and a token *)
(* is verified only by a key that was in it under the token's kid, at some *)
(* time since the request arrived (handleVerify, refreshJWKS).             *)
(***************************************************************************)
KeepsKeyRing == KR!RingSpec

(***************************************************************************)
(* However a refresh fails, with a trust file or without: in the end the   *)
(* keys are those the endpoint publishes, if they parse (main: "initial    *)
(* JWKS fetch failed ... will retry").                                     *)
(***************************************************************************)
EventuallyCurrent ==
    <>[](~ParseFails(published) =>
           \A k \in Kids : KeysUnder(published, k) # {} =>
              keys[k] \in KeysUnder(published, k))

(***************************************************************************)
(* No request waits for ever: every path of refreshJWKS leaves the lock.   *)
(***************************************************************************)
RequestsAnswered ==
    \A h \in Handlers :
       handlers[h].pc \in {"copy", "lookup"} ~> handlers[h].pc \in {"idle", "verified"}
-----------------------------------------------------------------------------
(***************************************************************************)
(* What makes them inductive.                                              *)
(***************************************************************************)
LockHeld == locked <=> rf.pc \in {"merge", "assign"}

\* What is being merged is a document that parsed as a whole.
FromDocument ==
    rf.pc \in {"lock", "merge", "assign"} =>
       \E d \in Documents : ~ParseFails(d) /\ rf.fresh \in Parsed(d)

MergedSoFar == locked => \A k \in Kids \ rf.todo : keys[k] = Merged[k]

\* A handler that has its copy has it since before the lock was taken, so it
\* may also read what is about to be replaced.
SinceArrival ==
    \A h \in Handlers :
       /\ handlers[h].pc \in {"copy", "lookup"} =>
             KeyOfKid(Ring, handlers[h].token) \subseteq handlers[h].since
       /\ handlers[h].pc = "lookup" =>
             KeyOfKid(keys, handlers[h].token) \subseteq handlers[h].since
=============================================================================

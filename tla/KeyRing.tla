------------------------------- MODULE KeyRing -------------------------------
(***************************************************************************)
(* What the OIDC verifier promises about the keys it verifies with.  Its   *)
(* ring starts as the deployment's trust file and changes by one whole     *)
(* document of the endpoint at a time; a document of which one key is of   *)
(* no use changes nothing.  A token is verified only by a key the ring     *)
(* had under the token's kid since its request arrived.                    *)
(***************************************************************************)
CONSTANTS
    Kids,       \* key ids
    Keys,       \* what a ring may hold under a kid, None included
    Documents,  \* what the endpoint may publish: sets of [kid, key]
    Tokens,     \* what is asked about: [kid, key, valid]
    Handlers,   \* requests that may be under way at a time
    Unusable,   \* a key that cannot be used
    None

VARIABLES
    trust,      \* the trust file: a document, or {} where there is none
    ring,       \* the key of each kid
    requests    \* the request of each handler

rvars == <<trust, ring, requests>>

Unasked == [state |-> "none"]

Named(d) == {e \in d : e.kid # None}

Whole(d) == \A e \in Named(d) : e.key # Unusable

\* new is old with the keys of document d in place of its own.
Supplies(d, old, new) ==
    \A k \in Kids :
       IF \E e \in d : e.kid = k
       THEN \E e \in d : e.kid = k /\ e.key = new[k]
       ELSE new[k] = old[k]

InRing(r, t) == {r[k] : k \in Kids \cap {t.kid}}

RingInit ==
    /\ Whole(trust)
    /\ ring \in [Kids -> Keys]
    /\ Supplies(trust, [k \in Kids |-> None], ring)
    /\ requests = [h \in Handlers |-> Unasked]

Ask(h, t) ==
    /\ requests[h].state # "asked"
    /\ requests' = [requests EXCEPT ![h] =
                      [state |-> "asked", token |-> t, since |-> InRing(ring, t)]]
    /\ UNCHANGED <<trust, ring>>

Load(d) ==
    /\ Whole(d)
    /\ ring' \in [Kids -> Keys]
    /\ Supplies(d, ring, ring')
    /\ requests' = [h \in Handlers |->
                      IF requests[h].state = "asked"
                      THEN [requests[h] EXCEPT
                              !.since = @ \cup InRing(ring', requests[h].token)]
                      ELSE requests[h]]
    /\ UNCHANGED trust

Verify(h) ==
    /\ requests[h].state = "asked"
    /\ requests[h].token.valid
    /\ requests[h].token.key \in requests[h].since
    /\ requests' = [requests EXCEPT ![h] =
                      [state |-> "verified", token |-> requests[h].token]]
    /\ UNCHANGED <<trust, ring>>

Refuse(h) ==
    /\ requests[h].state = "asked"
    /\ requests' = [requests EXCEPT ![h] = Unasked]
    /\ UNCHANGED <<trust, ring>>

Reset ==
    /\ ring' \in [Kids -> Keys]
    /\ Supplies(trust, [k \in Kids |-> None], ring')
    /\ requests' = [h \in Handlers |-> Unasked]
    /\ UNCHANGED trust

RingNext ==
    \/ \E d \in Documents : Load(d)
    \/ \E h \in Handlers, t \in Tokens : Ask(h, t)
    \/ \E h \in Handlers : Verify(h) \/ Refuse(h)
    \/ Reset

RingSpec == RingInit /\ [][RingNext]_rvars
=============================================================================

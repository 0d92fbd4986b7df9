-------------------------- MODULE MCBucketBinding --------------------------
(***************************************************************************)
(* Small instances of BucketBinding.  eu has two clusters with object      *)
(* storage, us has none.                                                   *)
(***************************************************************************)
EXTENDS BucketBinding

CONSTANTS r1, r2, eu, us

acme == <<"acme">>
acmeWeb == <<"acme", "web">>

\* r1 is ordered by acme as web-photos-eu, r2 by acme-web as photos-eu.
Names ==
    [r \in Requests |-> IF r = r1 THEN <<"web", "photos", "eu">>
                        ELSE <<"photos", "eu">>]

InEu ==
    [r \in Requests |-> [tenant |-> IF r = r1 THEN acme ELSE acmeWeb,
                         region |-> eu]]

OnlyAcme == {acme}
BothTenants == {acme, acmeWeb}

BothServeEu == [c \in Clusters |-> eu]
SecondServesEu == [c \in Clusters |-> IF c = 2 THEN eu ELSE None]
=============================================================================

--------------------------- MODULE MCOidcVerifier ---------------------------
(***************************************************************************)
(* A small instance of OidcVerifier: two kids, two keys.  The endpoint     *)
(* publishes one key, rotates it and adds one, spoils one of the two, has  *)
(* one that does not decode beside one without a kid, or one kid twice.    *)
(***************************************************************************)
EXTENDS OidcVerifier

CONSTANTS a, b, k1, k2

Entry(kid, key) == [kid |-> kid, key |-> key]

FiveDocuments ==
    {{Entry(a, k1)},
     {Entry(a, k2), Entry(b, k1)},
     {Entry(a, k2), Entry(b, Unusable)},
     {Entry(a, Junk), Entry(None, Unusable)},
     {Entry(b, k1), Entry(b, k2)}}

TwoTrustFiles == {{}, {Entry(b, k2)}}

Token(kid, key, valid) == [kid |-> kid, key |-> key, valid |-> valid]

SomeTokens ==
    {Token(a, k1, TRUE), Token(b, k1, TRUE), Token(a, k2, FALSE),
     Token(None, k1, TRUE)}
=============================================================================

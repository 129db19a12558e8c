---------------------------- MODULE MCJwksKeyset ----------------------------
(***************************************************************************)
(* JwksKeyset for TLC: an issuer that rotates from key A to key B through  *)
(* a document with both, then adds a key nobody can use, drops A, and in   *)
(* the end publishes a document whose only key has no kid.                 *)
(***************************************************************************)
EXTENDS JwksKeyset

Jwk(kid, key, alg) == [kid |-> kid, key |-> key, alg |-> alg, usable |-> TRUE]

Unusable == [kid |-> "c", key |-> "C", alg |-> None, usable |-> FALSE]

MCEditions == <<
    <<Jwk("a", "A", "RS256"), Jwk(None, "C", None)>>,
    <<Jwk("a", "A", "RS256"), Jwk("b", "A", None), Jwk("b", "B", None)>>,
    <<Jwk("b", "B", None), Unusable>>,
    <<Jwk("b", "B", None)>>,
    <<Jwk(None, "C", "ES256"), Jwk(None, "A", None)>> >>

MCTokens == [kid : {"a", "b", None}, key : {"A", "B", "C"}, alg : {"RS256", "ES256", "HS256"}]

MCAllowed == {"RS256", "ES256"}

=============================================================================

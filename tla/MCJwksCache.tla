---------------------------- MODULE MCJwksCache ----------------------------
(* Two callers of Validate and two signing keys.                           *)
EXTENDS JwksCache

CONSTANTS c1, c2, k1, k2
=============================================================================

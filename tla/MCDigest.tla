------------------------------- MODULE MCDigest -------------------------------
(* Instances of Digest for TLC. *)
EXTENDS Digest, TLC
CONSTANTS n1, n2, n3, n4, g1, g2, s1, s2

MCThree == (n1 :> g1) @@ (n2 :> g1) @@ (n3 :> g1)
MCFour  == (n1 :> g1) @@ (n2 :> g1) @@ (n3 :> g1) @@ (n4 :> g2)
=============================================================================

------------------------------- MODULE MCOutbox -------------------------------
(* Instances of Outbox for TLC. *)
EXTENDS Outbox, TLC
CONSTANTS u1, w1, w2

\* Two rows of one event for one subscription.
MCTarget  == (2 :> <<"h", 1>>) @@ (3 :> <<"h", 1>>)
MCOneUser == (u1 :> {"in_app", "email"})
=============================================================================

------------------------------- MODULE MCStudio -------------------------------
(* Instances of Studio for TLC: two entities and a relationship between them. *)
EXTENDS Studio, TLC
CONSTANTS e1, e2, l, h1, h2

MCSource == l :> e1
MCTarget == l :> e2
MCFirst  == {{}, {e1, e2}}
MCModels == {{e1}, {e1, l}, {e1, e2, l}}
=============================================================================

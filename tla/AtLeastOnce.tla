----------------------------- MODULE AtLeastOnce -----------------------------
(***************************************************************************)
(* What the outbox promises: a row is replayed until it is done or dead,   *)
(* each of its effects happens at most once and only before that, and a    *)
(* settled row stays settled.                                              *)
(***************************************************************************)
CONSTANTS Rows, Effects

VARIABLES
    status,   \* of each row
    effects   \* the effects that have happened, with the row that caused them

Open(r) == status[r] \in {"pending", "failed"}

Init == status = [r \in Rows |-> "absent"] /\ effects = {}

Enqueue(r) ==
    /\ status[r] = "absent"
    /\ status' = [status EXCEPT ![r] = "pending"]
    /\ UNCHANGED effects

Produce(r, e) ==
    /\ Open(r) /\ <<r, e>> \notin effects
    /\ effects' = effects \cup {<<r, e>>}
    /\ UNCHANGED status

\* A pass settles the rows it held, each in its own way.
Settle ==
    /\ \E R \in SUBSET {r \in Rows : Open(r)} :
          \E outcome \in [R -> {"failed", "done", "dead"}] :
              status' = [r \in Rows |-> IF r \in R THEN outcome[r] ELSE status[r]]
    /\ UNCHANGED effects

Next == \/ \E r \in Rows : Enqueue(r) \/ \E e \in Effects : Produce(r, e)
        \/ Settle

Spec == Init /\ [][Next]_<<status, effects>>
=============================================================================

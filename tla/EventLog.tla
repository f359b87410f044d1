------------------------------- MODULE EventLog -------------------------------
(***************************************************************************)
(* sys_event_log: the numbered stream of domain events.  Every data write  *)
(* inserts its event in its own transaction.  The BIGSERIAL number is      *)
(* drawn at the INSERT and the row is seen at the commit, so with several  *)
(* writers at work a lower number may appear after a higher one, and the   *)
(* number of a write that rolls back never appears.                        *)
(***************************************************************************)
EXTENDS Naturals, FiniteSets

CONSTANTS MaxSeq,   \* bound: events ever numbered
          Writers   \* writing transactions that may be open at once

ASSUME LogAssumption == MaxSeq \in Nat /\ Writers \in Nat

Seqs == 1..MaxSeq

VARIABLES nextSeq,  \* the sequence behind the BIGSERIAL column
          open,     \* numbers drawn by transactions that have not ended
          log,      \* numbers of the committed rows
          late      \* history: those that were committed after a higher one

logVars == <<nextSeq, open, log, late>>

LogInit == nextSeq = 1 /\ open = {} /\ log = {} /\ late = {}

InsertEvent ==
    /\ nextSeq \in Seqs /\ Cardinality(open) < Writers
    /\ open' = open \cup {nextSeq}
    /\ nextSeq' = nextSeq + 1
    /\ UNCHANGED <<log, late>>

CommitEvent(s) ==
    /\ s \in open
    /\ open' = open \ {s} /\ log' = log \cup {s}
    /\ late' = IF \E x \in log : x > s THEN late \cup {s} ELSE late
    /\ UNCHANGED nextSeq

AbortEvent(s) ==
    /\ s \in open
    /\ open' = open \ {s}
    /\ UNCHANGED <<nextSeq, log, late>>

Write == InsertEvent \/ \E s \in Seqs : CommitEvent(s) \/ AbortEvent(s)

LogTypeOK ==
    /\ nextSeq \in 1..(MaxSeq + 1)
    /\ open \subseteq 1..(nextSeq - 1) /\ log \subseteq 1..(nextSeq - 1)
    /\ open \cap log = {} /\ late \subseteq log

\* SELECT ... WHERE seq > after ORDER BY seq LIMIT limit
After(after, limit) ==
    {s \in log : s > after /\ Cardinality({x \in log : after < x /\ x <= s}) <= limit}

Highest(S, default) == IF S = {} THEN default ELSE CHOOSE s \in S : \A x \in S : x <= s
=============================================================================

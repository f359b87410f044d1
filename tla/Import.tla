-------------------------------- MODULE Import --------------------------------
(***************************************************************************)
(* Bulk import (mda-api/src/data.rs, import_records): every row is         *)
(* validated against the tables as they are, in transactions of their own, *)
(* then the rows are written, all in one transaction or in batches with a  *)
(* savepoint for each row, while other requests write the same records.    *)
(* A record is known by its unique key; a written row stays locked, and a  *)
(* number drawn for it too, until the import commits.                      *)
(***************************************************************************)
EXTENDS Naturals, Sequences, FiniteSets

CONSTANTS
    RowKeys,       \* values of the unique field
    Imports,    \* imports in flight
    Files,      \* sequences of rows; a row is a key and a fault
    Chunk,      \* rows of a batch (500)
    MaxUpsets,  \* bound: writes of other requests, and imports that die
    NoRec

\* An empty file is answered at once.
ASSUME ImportAssumption ==
    /\ Files \subseteq Seq([key : RowKeys, fault : {"no", "shape", "rule"}])
    /\ \A f \in Files : Len(f) > 0
    /\ NoRec \notin [ver : Nat, num : Nat]

VARIABLES
    numbered,  \* the entity has an auto_number field
    keyed,       \* committed records: version and number
    seq,       \* md_sequence
    imp,       \* the imports
    issued,    \* history: numbers of committed creates, in order
    upsets     \* writes of other requests and dead imports so far

importVars == <<numbered, keyed, seq, imp, issued, upsets>>

NotAsked == [step |-> "idle"]

Writing(i) == imp[i].step = "write"
Holds(i, k) == Writing(i) /\ k \in DOMAIN imp[i].pend
Draws(i)    == Writing(i) /\ imp[i].drawn # <<>>

\* The record as the import's transaction sees it.
Seen(i, k) == IF Holds(i, k) THEN imp[i].pend[k] ELSE keyed[k]

Earlier(i, n, k) == \E m \in 1..(n - 1) : imp[i].rows[m].key = k

-----------------------------------------------------------------------------
(* The validation of one row *)

Error(i, n) ==
    LET r == imp[i] k == r.rows[n].key IN
    \/ r.rows[n].fault = "shape"
    \/ Earlier(i, n, k)
    \/ r.mode = "create" /\ keyed[k] # NoRec
    \/ r.mode = "update" /\ keyed[k] = NoRec

\* resolve_import_target: the version the key has.
Resolved(i, n) ==
    LET k == imp[i].rows[n].key IN
    IF imp[i].mode # "create" /\ keyed[k] # NoRec THEN keyed[k].ver ELSE 0

\* Whether anything is written at all.
Writes(r, plan) == ~r.dry /\ (r.abort => \A n \in DOMAIN plan : ~plan[n].error)

-----------------------------------------------------------------------------
(* The write of one row *)

\* What import_write_row meets: a rule that fails, a version that moved, a number the
\* body cannot have, a key that is taken.
Fails(i, n) ==
    LET r == imp[i] k == r.rows[n].key base == r.plan[n].base now == Seen(i, k) IN
    \/ r.rows[n].fault = "rule"
    \/ base = 0 /\ now # NoRec
    \/ base # 0 /\ (numbered \/ now = NoRec)
    \/ base # 0 /\ now # NoRec /\ now.ver # base

\* A row lock or a sequence another import has until it commits.
WaitsFor(i, j) ==
    LET r == imp[i] IN
    /\ i # j /\ Writing(i) /\ r.n <= Len(r.rows) /\ ~r.plan[r.n].error
    /\ \/ Holds(j, r.rows[r.n].key)
       \/ numbered /\ r.plan[r.n].base = 0 /\ Draws(j)

\* An import that aborts is one batch.
BatchEnds(r) == r.n > Len(r.rows) \/ (~r.abort /\ (r.n - 1) % Chunk = 0 /\ r.wrote # {})

Next1(r) == [r EXCEPT !.n = @ + 1]

\* What an import becomes when a row fails: nothing is written, or this row is not.
\* Mutant: the rows before it are committed.
AbandonedLate(r) == [Next1(r) EXCEPT !.failed = @ \cup {r.n}]

Abandoned(r) ==
    IF r.abort
    THEN [r EXCEPT !.step = "done", !.failed = @ \cup {r.n}, !.count = 0,
                   !.pend = <<>>, !.drawn = <<>>, !.wrote = {}]
    ELSE [Next1(r) EXCEPT !.failed = @ \cup {r.n}]

-----------------------------------------------------------------------------
ImportInit ==
    /\ numbered \in BOOLEAN
    /\ keyed = [k \in RowKeys |-> NoRec]
    /\ seq = 0 /\ issued = <<>>
    /\ imp = [i \in Imports |-> NotAsked]
    /\ upsets = 0

Turn(i, r) == imp' = [imp EXCEPT ![i] = r]

Submit(i, mode, abort, dry, rows) ==
    /\ imp[i].step = "idle"
    /\ Turn(i, [step |-> "plan", mode |-> mode, abort |-> abort, dry |-> dry, rows |-> rows,
                  plan |-> <<>>, n |-> 1, pend |-> <<>>, drawn |-> <<>>, wrote |-> {},
                  failed |-> {}, done |-> {}, count |-> 0])
    /\ UNCHANGED <<numbered, keyed, seq, issued, upsets>>

PlanRow(i) ==
    LET r    == imp[i]
        n    == r.n
        plan == Append(r.plan, [error |-> Error(i, n), base |-> Resolved(i, n)])
        bad  == r.failed \cup (IF Error(i, n) THEN {n} ELSE {})
    IN /\ r.step = "plan"
       /\ Turn(i, IF n < Len(r.rows) THEN [Next1(r) EXCEPT !.plan = plan, !.failed = bad]
                    ELSE [r EXCEPT !.plan = plan, !.failed = bad, !.n = 1,
                                   !.step = IF Writes(r, plan) THEN "write" ELSE "done"])
       /\ UNCHANGED <<numbered, keyed, seq, issued, upsets>>

WriteRow(i) ==
    LET r == imp[i] n == r.n k == r.rows[n].key
        fresh  == r.plan[n].base = 0
        number == IF numbered /\ fresh THEN seq + Len(r.drawn) + 1 ELSE 0
        new    == IF fresh THEN [ver |-> 1, num |-> number]
                           ELSE [Seen(i, k) EXCEPT !.ver = @ + 1]
    IN /\ Writing(i) /\ ~BatchEnds(r)
       /\ \A j \in Imports : ~WaitsFor(i, j)
       /\ Turn(i, IF r.plan[n].error THEN Next1(r)
                    ELSE IF Fails(i, n) THEN Abandoned(r)
                    ELSE [Next1(r) EXCEPT !.count = @ + 1, !.wrote = @ \cup {[row |-> n, over |-> Seen(i, k)]},
                              !.pend  = [x \in DOMAIN @ \cup {k} |-> IF x = k THEN new ELSE @[x]],
                              !.drawn = IF number = 0 THEN @ ELSE Append(@, number)])
       /\ UNCHANGED <<numbered, keyed, seq, issued, upsets>>

\* PostgreSQL ends the wait of one of two imports that wait for each other.
BreakDeadlock(i) ==
    /\ \E j \in Imports : WaitsFor(i, j) /\ WaitsFor(j, i)
    /\ Turn(i, Abandoned(imp[i]))
    /\ UNCHANGED <<numbered, keyed, seq, issued, upsets>>

CommitBatch(i) ==
    LET r == imp[i] IN
    /\ Writing(i) /\ BatchEnds(r)
    /\ keyed' = [k \in RowKeys |-> Seen(i, k)]
    /\ seq' = seq + Len(r.drawn) /\ issued' = issued \o r.drawn
    /\ Turn(i, [r EXCEPT !.step = IF r.n > Len(r.rows) THEN "done" ELSE "write", !.pend = <<>>,
                           !.drawn = <<>>, !.done = @ \cup r.wrote, !.wrote = {}])
    /\ UNCHANGED <<numbered, upsets>>

\* The process ends: what is not committed is gone, and nobody gets a report.
Cut(i) ==
    /\ imp[i].step \in {"plan", "write"} /\ upsets < MaxUpsets
    /\ Turn(i, NotAsked) /\ upsets' = upsets + 1
    /\ UNCHANGED <<numbered, keyed, seq, issued>>

\* A create, an update or a delete of another request.
Write1(k) ==
    /\ upsets < MaxUpsets /\ \A i \in Imports : ~Holds(i, k)
    /\ \/ /\ keyed[k] = NoRec /\ (numbered => \A i \in Imports : ~Draws(i))
          /\ keyed' = [keyed EXCEPT ![k] = [ver |-> 1, num |-> IF numbered THEN seq + 1 ELSE 0]]
          /\ seq' = IF numbered THEN seq + 1 ELSE seq
          /\ issued' = IF numbered THEN Append(issued, seq + 1) ELSE issued
       \/ /\ keyed[k] # NoRec /\ ~numbered
          /\ keyed' = [keyed EXCEPT ![k].ver = @ + 1] /\ UNCHANGED <<seq, issued>>
       \/ /\ keyed[k] # NoRec
          /\ keyed' = [keyed EXCEPT ![k] = NoRec] /\ UNCHANGED <<seq, issued>>
    /\ upsets' = upsets + 1
    /\ UNCHANGED <<numbered, imp>>

ImportNext ==
    \/ \E i \in Imports :
          \/ \E m \in {"create", "update", "upsert"}, a, d \in BOOLEAN, f \in Files : Submit(i, m, a, d, f)
          \/ PlanRow(i) \/ WriteRow(i) \/ BreakDeadlock(i) \/ CommitBatch(i) \/ Cut(i)
    \/ \E k \in RowKeys : Write1(k)

ImportSpec == ImportInit /\ [][ImportNext]_importVars

-----------------------------------------------------------------------------
\* The report of an import is what it did: the counted rows are those that were
\* committed, every other row has its error, an import that aborts has written all of
\* its rows or none, and each row replaced the very record the validation saw
\* (import_records).  The numbers of records have no gap and no duplicate.
ImportedAsReported ==
    /\ \A i \in Imports : imp[i].step = "done" =>
          LET r == imp[i] rows == {d.row : d \in r.done} IN
          /\ r.count = Cardinality(rows)
          /\ ~r.dry /\ ~r.abort => rows = DOMAIN r.rows \ r.failed
          /\ r.dry => rows = {}
          /\ r.abort => rows = {} \/ rows = DOMAIN r.rows
          /\ \A d \in r.done : IF r.plan[d.row].base = 0 THEN d.over = NoRec
                                                         ELSE d.over.ver = r.plan[d.row].base
    /\ issued = [n \in 1..seq |-> n]
=============================================================================

------------------------------ MODULE DraftGate ------------------------------
(***************************************************************************)
(* What a publish lets through and what it leaves live: the check of a     *)
(* draft against the active model (mda-meta/src/draft.rs) and the rows and *)
(* tables that apply_additive_publish writes (mda-api/src/studio.rs,       *)
(* mda-data/src/ddl.rs), one publish after another.  Studio is about       *)
(* publishes that overlap, this module about the definitions.              *)
(*                                                                         *)
(* A model is a function from ids to definitions; so is the part of the    *)
(* rows that is active.  A definition that is wrong by itself (a name that *)
(* is no identifier, an unknown type, a decimal out of bounds, an          *)
(* unsatisfiable relationship) is not legal.  The name of a table is the   *)
(* set of words it is joined of, since <smaller>_<larger> names two.       *)
(***************************************************************************)
EXTENDS Naturals

CONSTANTS
    EntityIds, FieldIds, RelIds,  \* ids
    DraftModels,  \* the models of drafts, functions from ids to definitions
    MaxDepth,     \* the longest chain of formulas (10)
    MaxPublishes, \* bound
    NoDef, NoFormula

DefIds == EntityIds \cup FieldIds \cup RelIds

\* A draft is a tree: a field or a relationship is nested in an entity.
Nested(d) == \A i \in DOMAIN d \ EntityIds : d[i].on \in DOMAIN d \cap EntityIds

\* All that drafts say.
Definitions == UNION {{d[i] : i \in DOMAIN d} : d \in DraftModels}

ASSUME GateAssumption ==
    /\ \A d \in DraftModels : DOMAIN d \subseteq DefIds /\ Nested(d)
    /\ NoDef \notin [status : {"active", "retired"}, def : Definitions]

VARIABLES
    defRow,    \* the md_entity, md_field and md_relationship rows
    tables,    \* the biz tables: the two tables one joins, or {} for an entity's
    drafted,   \* history: the last draft published
    revived,   \* history: what came back from retirement with the last publish
    published  \* publishes so far

gateVars == <<defRow, tables, drafted, revived, published>>

Stands(i) == defRow[i] # NoDef /\ defRow[i].status = "active"

\* load_active_model: the active rows, but a field or a relationship is assembled under
\* the entity its row names, and left out with it.
LiveModel ==
    [i \in {j \in DefIds : Stands(j) /\ (j \in EntityIds \/ Stands(defRow[j].def.on))} |->
        defRow[i].def]

Of(S, m) == S \cap DOMAIN m

New(active, d) == DOMAIN d \ DOMAIN active

-----------------------------------------------------------------------------
(* diff *)

\* Mutant: a definition is compared without its formula, a relationship without its
\* rollup.
CanonShort(def) == [def EXCEPT !.logic = NoFormula]

\* canon_entity, canon_field, canon_rel: every part a modeler sees.
Canon(def) == def

Transforms(active, d) ==
    {i \in DOMAIN active \cap DOMAIN d : Canon(d[i]) # Canon(active[i])}

Scoped(def) == <<def.on, def.name>>

\* A new definition of S has the name of an active or of another new one of its entity.
Clash(active, d, S) ==
    \E i \in Of(S, d) \cap New(active, d) :
        \/ \E j \in Of(S, active) : Scoped(active[j]) = Scoped(d[i])
        \/ \E j \in (Of(S, d) \cap New(active, d)) \ {i} : Scoped(d[j]) = Scoped(d[i])

\* A new entity has the table of an active or of another new one.
SameTable(active, d) ==
    \E e \in Of(EntityIds, d) \cap New(active, d) :
        \/ \E j \in Of(EntityIds, active) : active[j].table = d[e].table
        \/ \E j \in (Of(EntityIds, d) \cap New(active, d)) \ {e} : d[j].table = d[e].table

\* join_table_name, over the tables of the two ends.
JoinOf(tableOf, def) ==
    IF def.join # NoDef THEN def.join ELSE tableOf[def.on] \cup tableOf[def.target]

TableOf(active, d) ==
    [e \in Of(EntityIds, active) \cup Of(EntityIds, d) |->
        IF e \in DOMAIN d THEN d[e].table ELSE active[e].table]

Many(m) == {i \in Of(RelIds, m) : m[i].many}

\* A new many-to-many needs a join table nobody has.
JoinClash(active, d) ==
    LET at       == TableOf(active, d)
        fresh    == Many(d) \cap New(active, d)
        Named(i) == IF i \in DOMAIN d THEN JoinOf(at, d[i]) ELSE JoinOf(at, active[i])
        occupied == {active[e].table : e \in Of(EntityIds, active)}
                    \cup {d[e].table : e \in Of(EntityIds, d)}
                    \cup {JoinOf(at, active[i]) : i \in Many(active)}
    IN \E i \in fresh : \/ Named(i) \in occupied
                        \/ \E k \in fresh \ {i} : Named(k) = Named(i)

-----------------------------------------------------------------------------
(* validate_logic_graphs *)

\* The fields of an entity as the check sees them: the draft's, and the active ones,
\* those it retires included, that the draft does not name.
FieldsSeen(active, d, e) ==
    LET own == {d[i] : i \in {k \in Of(FieldIds, d) : d[k].on = e}} IN
    own \cup {f \in {active[i] : i \in Of(FieldIds, active)} :
                 f.on = e /\ \A g \in own : g.name # f.name}

Calculated(f) == f.logic # NoFormula

\* A chain of k formulas of fs, each of which reads the next field: also a way of k
\* steps around a cycle.
HasChain(fs, k) ==
    \E chain \in [0..k -> {f \in fs : Calculated(f)}] :
        \A n \in 1..k : chain[n].name \in chain[n - 1].logic

\* Mutant: only a formula over its own field is found.
TooDeepShallow(fs) == \E f \in fs : Calculated(f) /\ f.name \in f.logic

\* A cycle, or a chain that is too long.
TooDeep(fs) == HasChain(fs, MaxDepth + 1)

BadFormula(active, d, i) ==
    /\ Calculated(d[i])
    /\ \E n \in d[i].logic :
          ~ \E f \in FieldsSeen(active, d, d[i].on) : f.name = n /\ f.numeric

BadRollup(active, d, i) ==
    /\ d[i].logic # NoFormula
    /\ ~ \E f \in FieldsSeen(active, d, d[i].on) :
            f.name = d[i].logic /\ f.numeric /\ ~Calculated(f)

\* is_valid_identifier, is_valid_table_name, the known types, cardinalities, strengths.
Legal(def) == def.legal

Errors(active, d) ==
    \/ \E i \in New(active, d) : ~Legal(d[i])
    \/ SameTable(active, d)
    \/ Clash(active, d, EntityIds) \/ Clash(active, d, FieldIds) \/ Clash(active, d, RelIds)
    \/ \E i \in Of(RelIds, d) : d[i].target \notin DOMAIN d
    \/ JoinClash(active, d)
    \/ \E i \in Of(FieldIds, d) : BadFormula(active, d, i)
    \/ \E e \in Of(EntityIds, active) \cup Of(EntityIds, d) : TooDeep(FieldsSeen(active, d, e))
    \/ \E i \in Of(RelIds, d) \cap New(active, d) : BadRollup(active, d, i)

Acceptable(active, d) == Transforms(active, d) = {} /\ ~Errors(active, d)

-----------------------------------------------------------------------------
(* apply_additive_publish *)

\* UNIQUE (tenant_id, name), (tenant_id, entity_id, name), (tenant_id,
\* source_entity_id, source_field_name), over all rows, the retired ones too; a defRow
\* that comes back is not inserted.
RowClash(active, d) ==
    \E S \in {EntityIds, FieldIds, RelIds} :
        \E i \in Of(S, d) \cap New(active, d) : \E j \in S \ {i} :
            defRow[i] = NoDef /\ defRow[j] # NoDef /\ Scoped(defRow[j].def) = Scoped(d[i])

\* The tables to be created, each with its shape: those of new entities, those of new
\* many-to-many relationships.
Created(active, d) ==
    LET at == TableOf(active, d) IN
    {<<d[e].table, {}>> : e \in Of(EntityIds, d) \cap New(active, d)}
    \cup {<<JoinOf(at, d[i]), {at[d[i].on], at[d[i].target]}>> :
             i \in Many(d) \cap New(active, d)}

\* CREATE TABLE IF NOT EXISTS passes over a table of another shape, and the statements
\* after it fail for want of its columns.
TableClash(active, d) ==
    \E c \in Created(active, d) : c[1] \in DOMAIN tables /\ tables[c[1]] # c[2]

RowAfter(active, d, i) ==
    CASE i \in New(active, d) /\ defRow[i] = NoDef -> [status |-> "active", def |-> d[i]]
      [] i \in New(active, d) /\ defRow[i] # NoDef -> [defRow[i] EXCEPT !.status = "active"]
      [] i \in DOMAIN active \ DOMAIN d          -> [defRow[i] EXCEPT !.status = "retired"]
      [] OTHER                                   -> defRow[i]

-----------------------------------------------------------------------------
GateInit ==
    /\ defRow = [i \in DefIds |-> NoDef]
    /\ tables = <<>>
    /\ drafted = <<>>
    /\ revived = {}
    /\ published = 0

\* The check finds violations or errors.
Rejected(d) ==
    /\ ~Acceptable(LiveModel, d)
    /\ UNCHANGED gateVars

\* A statement fails, the transaction is rolled back.
RolledBack(d) ==
    /\ Acceptable(LiveModel, d)
    /\ RowClash(LiveModel, d) \/ TableClash(LiveModel, d)
    /\ UNCHANGED gateVars

Published(d) ==
    /\ Acceptable(LiveModel, d)
    /\ ~RowClash(LiveModel, d) /\ ~TableClash(LiveModel, d)
    /\ defRow' = [i \in DefIds |-> RowAfter(LiveModel, d, i)]
    /\ tables' = [t \in DOMAIN tables \cup {c[1] : c \in Created(LiveModel, d)} |->
                     IF t \in DOMAIN tables THEN tables[t]
                     ELSE (CHOOSE c \in Created(LiveModel, d) : c[1] = t)[2]]
    /\ drafted' = d
    /\ revived' = {i \in New(LiveModel, d) : defRow[i] # NoDef}
    /\ published' = published + 1

GateNext ==
    /\ published < MaxPublishes
    /\ \E d \in DraftModels : Rejected(d) \/ RolledBack(d) \/ Published(d)

GateSpec == GateInit /\ [][GateNext]_gateVars

-----------------------------------------------------------------------------
(* Properties *)

\* What is live is what the last draft says, definition by definition, except that what
\* came back from retirement is as it was: with the definition it had, under the entity
\* it had been in, and not live when that one is not; and an entity that comes back has
\* with it what came back under it meanwhile (diff's transforms, ON CONFLICT DO UPDATE,
\* assemble_draft_model).
LiveIsDrafted ==
    /\ \A i \in DOMAIN drafted \ DOMAIN LiveModel :
           i \in revived /\ defRow[i].def.on # drafted[i].on
    /\ \A i \in DOMAIN LiveModel \ DOMAIN drafted : LiveModel[i].on \in revived
    /\ \A i \in DOMAIN LiveModel \cap DOMAIN drafted : i \in revived \/ LiveModel[i] = drafted[i]

\* No live formula depends on itself, and no chain of them is too long, unless what came
\* back is other than the check saw it (validate_logic_graphs: "cycles are a HARD publish
\* error").
LogicSound ==
    LiveModel = drafted =>
        \A e \in Of(EntityIds, LiveModel) :
            ~HasChain({f \in {LiveModel[i] : i \in Of(FieldIds, LiveModel)} : f.on = e}, MaxDepth + 1)

\* What is live is what the last draft said, except for what came back from retirement
\* as it was, and no live formulas form a cycle or too long a chain (diff,
\* validate_logic_graphs).
GateSound == LiveIsDrafted /\ LogicSound

\* "Every referenced field exists": a live formula names live fields of its entity.  A
\* draft that retires the field and keeps the formula refutes it.
FormulasResolve ==
    \A i \in Of(FieldIds, LiveModel) : Calculated(LiveModel[i]) =>
        \A n \in LiveModel[i].logic : \E k \in Of(FieldIds, LiveModel) :
            LiveModel[k].on = LiveModel[i].on /\ LiveModel[k].name = n
=============================================================================

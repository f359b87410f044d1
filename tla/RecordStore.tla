----------------------------- MODULE RecordStore -----------------------------
(***************************************************************************)
(* Records of two entities, the second referring to the first, under       *)
(* concurrent writers: mda-data/src/crud.rs, the write services of         *)
(* mda-api/src/data.rs, the archive and the audit trail that               *)
(* mda-api/src/history.rs reads back.                                      *)
(*                                                                         *)
(* A transaction begins, which fixes now() and with it the archived_at and *)
(* created_at of what it writes; it reads the before-image; it writes. The *)
(* row lock it takes to write it holds until it commits, so that the write,*)
(* what the database does along with it and the log rows are one step.     *)
(* A restore chooses the archived row first: its statement may wait for    *)
(* the key of the record, which a delete in flight holds.                  *)
(* A record has one scalar field.                                          *)
(***************************************************************************)
EXTENDS Naturals, Sequences

CONSTANTS
    Parents, Children,   \* record ids of the two entities
    Vals,                \* values of the scalar field
    Defs,                \* definitions the entities may have
    Writers,             \* requests in flight
    MaxTx,               \* bound: transactions
    Guesses,             \* bound: versions sent by clients that have not seen them
    Null, Absent         \* JSON null, and a key that is not there

Ids == Parents \cup Children

Bodies == [val : Vals \cup {Null, Absent}, ref : Parents \cup {Null, Absent}]

RecordRow == [ver : Nat, val : Vals \cup {Null, Absent}, ref : Parents \cup {Null, Absent}]

ASSUME StoreAssumption ==
    /\ MaxTx \in Nat /\ Guesses \subseteq Nat /\ Null \notin RecordRow
    /\ Defs \subseteq [on_delete : {"cascade", "set_null", "restrict"}, required : BOOLEAN,
                       default : Vals \cup {Null, Absent}, numbered : BOOLEAN]

VARIABLES
    def,       \* the definition: on_delete, required, default, numbered
    row,       \* biz.<table>
    archive,   \* biz_archive.<table>, in the order of the commits
    audit,     \* sys_audit_log of each record, in the order of the commits
    tx,        \* the transaction of each writer
    answer,    \* its last answer
    clock,
    misrestored  \* history: the records a restore brought back from an older row

recordVars == <<def, row, archive, audit, tx, answer, clock, misrestored>>

NoTx   == [op |-> "none", step |-> "none", id |-> Null]
NoBody == [val |-> Absent, ref |-> Absent]

\* If-Match holds any number; of a version it has not seen the client has no image.
Unseen == [ver : Guesses, val : {Absent}, ref : {Absent}]

Gone(id)   == row[id] = Null
Images(id) == {audit[id][k].after : k \in {l \in DOMAIN audit[id] : audit[id][l].op # "delete"}}

\* ORDER BY archived_at DESC LIMIT 1, and the same of the log's created_at.
LatestOf(rows) == rows[CHOOSE k \in DOMAIN rows : \A l \in DOMAIN rows : rows[l].at <= rows[k].at]

-----------------------------------------------------------------------------
(* The pure part of the writes, for one field and one reference *)

\* A literal default stands in for a key that is not there.
Given(v) == IF v = Absent THEN def.default ELSE v

\* Mutant: the null of a required field is not looked at.
ValidPresent(ctx) == def.required => Given(ctx.val) # Absent

\* validate_record.
ValidRecord(ctx) == def.required => Given(ctx.val) \notin {Null, Absent}

\* A null is stored as no value.
Cleared(v) == IF v = Absent THEN Null ELSE v

\* The patch over the before-image, which supplies what the patch leaves out.
Merged(body, before) ==
    [val |-> IF body.val = Absent /\ before # Null /\ before.val # Null
             THEN before.val ELSE body.val,
     ref |-> IF body.ref = Absent /\ before # Null THEN before.ref ELSE body.ref]

\* The foreign key.
Refers(r) == r \in {Null, Absent} \/ ~Gone(r)

\* Mutant: the row is found by its id alone.
MatchesId(t, old) == old # Null

\* WHERE id AND version.
Matches(t, old) == old # Null /\ old.ver = t.base.ver

Restored(rec) == [rec EXCEPT !.ver = @ + 1]

-----------------------------------------------------------------------------
StoreInit ==
    /\ def \in Defs
    /\ row = [id \in Ids |-> Null]
    /\ archive = [id \in Ids |-> <<>>]
    /\ audit = [id \in Ids |-> <<>>]
    /\ tx = [w \in Writers |-> NoTx]
    /\ answer = [w \in Writers |-> "none"]
    /\ clock = 0
    /\ misrestored = {}

\* BEGIN: the transaction's time.
BeginTx(w, op, step, id, body, base) ==
    /\ tx[w] = NoTx /\ clock < MaxTx
    /\ id \in Parents => body.ref = Absent
    /\ tx' = [tx EXCEPT ![w] = [op |-> op, step |-> step, id |-> id, at |-> clock,
                                body |-> body, base |-> base, before |-> Null]]
    /\ clock' = clock + 1
    /\ UNCHANGED <<def, row, archive, audit, answer, misrestored>>

\* An id is drawn for the record alone.
BeginCreate(w, id, body) ==
    /\ audit[id] = <<>> /\ \A v \in Writers : tx[v].id # id
    /\ BeginTx(w, "create", "write", id, body, Null)

\* The client sends a version in If-Match, that of an image it has seen or another.
BeginUpdate(w, id, body, base) ==
    /\ audit[id] # <<>>
    /\ BeginTx(w, "update", "read", id, body, base)

\* mass_update_record reads the version of each of its targets and updates it.
BeginMassUpdate(w, id, body) ==
    /\ ~Gone(id)
    /\ BeginTx(w, "update", "read", id, body, row[id])

BeginDelete(w, id) ==
    /\ audit[id] # <<>>
    /\ BeginTx(w, "delete", "read", id, NoBody, Null)

BeginRestore(w, id) ==
    /\ audit[id] # <<>>
    /\ BeginTx(w, "restore", "read", id, NoBody, Null)

\* read_tx: the before-image, without a lock.
ReadBefore(w) ==
    /\ tx[w].step = "read" /\ tx[w].op # "restore"
    /\ tx' = [tx EXCEPT ![w].step = "write", ![w].before = row[tx[w].id]]
    /\ UNCHANGED <<def, row, archive, audit, answer, clock, misrestored>>

\* The transaction rolls back and the client has its answer.
Refuse(w, why) ==
    /\ tx' = [tx EXCEPT ![w] = NoTx] /\ answer' = [answer EXCEPT ![w] = why]
    /\ UNCHANGED <<def, row, archive, audit, clock, misrestored>>

Done(w) == tx' = [tx EXCEPT ![w] = NoTx] /\ answer' = [answer EXCEPT ![w] = "ok"]

\* write_logs.
Logged(t, op, before, after) ==
    audit' = [audit EXCEPT ![t.id] = Append(@,
                [op |-> op, at |-> t.at, before |-> before, after |-> after, base |-> t.base])]

WriteCreate(w) ==
    LET t   == tx[w]
        rec == [ver |-> 1, val |-> Cleared(Given(t.body.val)), ref |-> Cleared(t.body.ref)]
    IN /\ t.op = "create" /\ t.step = "write"
       /\ IF ~ValidRecord(t.body) \/ ~Refers(rec.ref) THEN Refuse(w, "invalid")
          ELSE /\ row' = [row EXCEPT ![t.id] = rec]
               /\ Logged(t, "create", Null, rec)
               /\ Done(w) /\ UNCHANGED <<def, archive, clock, misrestored>>

\* What stops an update after the before-image is merged; a number the engine gave the
\* record counts as a key of the body.
Numbered(t) == def.numbered /\ t.before # Null

WriteUpdate(w) ==
    LET t   == tx[w]
        old == row[t.id]
        ctx == Merged(t.body, t.before)
    IN /\ t.op = "update" /\ t.step = "write"
       /\ IF ~ValidRecord(ctx) THEN Refuse(w, "invalid")
          ELSE IF Numbered(t) THEN Refuse(w, "engine-generated")
          ELSE IF ~Matches(t, old)
               THEN Refuse(w, IF old = Null THEN "not found" ELSE "conflict")
          ELSE IF ~Refers(ctx.ref) THEN Refuse(w, "invalid")
          ELSE LET rec == [ver |-> old.ver + 1,
                           val |-> IF ctx.val = Absent THEN old.val ELSE ctx.val,
                           ref |-> IF ctx.ref = Absent THEN old.ref ELSE ctx.ref]
               IN /\ row' = [row EXCEPT ![t.id] = rec]
                  /\ Logged(t, "update", t.before, rec)
                  /\ Done(w) /\ UNCHANGED <<def, archive, clock, misrestored>>

\* DELETE, and what the foreign keys do with the records that refer to this one: the key
\* is of the tenant too, so that set_null would leave them without a tenant, and fails.
\* The trigger archives every row that goes, the log has only the one that was asked for.
WriteDelete(w) ==
    LET t    == tx[w]
        refs == {c \in Children : ~Gone(c) /\ row[c].ref = t.id}
        goes == {t.id} \cup refs
    IN /\ t.op = "delete" /\ t.step = "write"
       /\ IF Gone(t.id) THEN Refuse(w, "not found")
          ELSE IF refs # {} /\ def.on_delete # "cascade" THEN Refuse(w, "invalid")
          ELSE /\ row' = [id \in Ids |-> IF id \in goes THEN Null ELSE row[id]]
               /\ archive' = [id \in Ids |->
                                IF id \in goes THEN Append(archive[id], [at |-> t.at, rec |-> row[id]])
                                ELSE archive[id]]
               /\ Logged(t, "delete", t.before, Null)
               /\ Done(w) /\ UNCHANGED <<def, clock, misrestored>>

\* restore_tx: the SELECT takes the archived row with the latest archived_at.
ReadArchive(w) ==
    LET t == tx[w]
    IN /\ t.op = "restore" /\ t.step = "read"
       /\ IF archive[t.id] = <<>> THEN Refuse(w, "not found")
          ELSE /\ tx' = [tx EXCEPT ![w].step = "write", ![w].before = LatestOf(archive[t.id]).rec]
               /\ UNCHANGED <<def, row, archive, audit, answer, clock, misrestored>>

\* Its INSERT, once the key is free or taken for good.
WriteRestore(w) ==
    LET t   == tx[w]
        rec == Restored(t.before)
    IN /\ t.op = "restore" /\ t.step = "write"
       /\ IF ~Gone(t.id) THEN Refuse(w, "conflict")
          ELSE IF ~Refers(rec.ref) THEN Refuse(w, "invalid")
          ELSE /\ row' = [row EXCEPT ![t.id] = rec]
               /\ Logged(t, "create", Null, rec)
               /\ misrestored' = misrestored \cup
                     (IF t.before = LatestOf(archive[t.id]).rec THEN {} ELSE {t.id})
               /\ Done(w) /\ UNCHANGED <<def, archive, clock>>

StoreNext ==
    \E w \in Writers :
        \/ tx[w] = NoTx /\ \E id \in Ids :
              \/ BeginDelete(w, id) \/ BeginRestore(w, id)
              \/ \E b \in Bodies : \/ BeginCreate(w, id, b) \/ BeginMassUpdate(w, id, b)
                                  \/ \E i \in Images(id) \cup Unseen : BeginUpdate(w, id, b, i)
        \/ ReadBefore(w) \/ ReadArchive(w)
        \/ WriteCreate(w) \/ WriteUpdate(w) \/ WriteDelete(w) \/ WriteRestore(w)

StoreSpec == StoreInit /\ [][StoreNext]_recordVars

-----------------------------------------------------------------------------
(* Properties *)

\* A delete whose transaction began before that of an earlier delete.
Overtaken(id) ==
    \E i, j \in DOMAIN archive[id] : i < j /\ archive[id][i].at > archive[id][j].at

\* A restore brought back an older row, or is about to.
Rewindable(id) == Overtaken(id) \/ id \in misrestored

\* An update by a client that has seen the version it sends replaces that very image, and
\* the log says so; versions climb with every write of a record, across deletes and
\* restores, so that a client with an older image is refused.  Only when a delete
\* overtakes another one, or a restore waits for a delete to commit, does an older row
\* come back, and with it an older version (update_tx, restore_tx).
NoBlindWrite ==
    \A id \in Ids : ~Rewindable(id) =>
        /\ \A k \in DOMAIN audit[id] :
              audit[id][k].op = "update" /\ audit[id][k].base.val # Absent =>
                  /\ audit[id][k].before.ver = audit[id][k].base.ver
                  /\ audit[id][k].before.val = audit[id][k].base.val
        /\ \A j, k \in DOMAIN audit[id] :
              j < k /\ audit[id][j].op # "delete" /\ audit[id][k].op # "delete"
                  => audit[id][j].after.ver < audit[id][k].after.ver

\* A record never lacks its required field, whatever defaults, nulls and merges it has
\* been through (validate_record).
RequiredHeld == def.required => \A id \in Ids : ~Gone(id) => row[id].val # Null

RecordsSound == NoBlindWrite /\ RequiredHeld

\* Once a record is gone, the log read as of now has it deleted: "Returns 404 if the
\* record did not exist at that point or was deleted by then" (history.rs,
\* record_as_of).  The code orders the log by the time transactions began, and has no
\* row of what a foreign key deletes.
AsOfTellsDeleted ==
    \A id \in Ids : Gone(id) /\ audit[id] # <<>> => LatestOf(audit[id]).op = "delete"

\* A record of any entity can be updated: "generic create/read/update/delete/list over
\* any active entity" (docs/PHASE2.md).  The code merges the before-image into the
\* body and then refuses the number it finds there.
UpdatesAnyEntity == \A w \in Writers : answer[w] # "engine-generated"
=============================================================================

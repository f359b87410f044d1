---------------------------- MODULE Services_proofs ----------------------------
(***************************************************************************)
(* Theorems about the components that MCServices puts together: the        *)
(* metadata cache, the blobs, the sessions and their throttle, the         *)
(* records, a record's workflow, inbound events, imports, the check of a   *)
(* draft, and the browser's record forms.                                  *)
(***************************************************************************)
EXTENDS MetadataCache, BlobStore, Sessions, RecordStore, Workflow, Inbound, Import,
        RecordForm, DraftGate, FiniteSetTheorems, TLAPS

-----------------------------------------------------------------------------
(* The metadata cache *)

CacheTypeOK ==
    /\ active \in Versions
    /\ publish \in [step : {"notify", "local"}, here : BOOLEAN] \cup {Nothing}
    /\ entry \in [fields : Nat, relationships : Nat, spanned : BOOLEAN] \cup {Nothing}
    /\ load \in [fields : Nat, spanned : BOOLEAN] \cup {Nothing}
    /\ polled \in Nat \cup {Nothing} /\ rows \in Nat \cup {Nothing}
    /\ schemas \in [Versions -> Nat \cup {Nothing}]
    /\ query \in [Requests -> [on : {"idle"}] \cup [on : {"lookup"}, key : Versions]
                        \cup [on : {"build", "execute"}, key : Versions, schema : Nat]]

\* The poll is never ahead of what is active.
PollBehind ==
    /\ polled # Nothing => polled <= active
    /\ rows # Nothing => rows <= active

\* Once the poll has seen the active version, what is loaded or being loaded since is of it.
FreshSincePoll ==
    polled = active =>
        /\ load # Nothing /\ ~load.spanned => load.fields = active
        /\ entry # Nothing /\ ~entry.spanned =>
              entry.fields = active /\ entry.relationships = active

\* A schema is no older than its key, nor is the one a request has; a key that was read
\* is a version that was active.
SchemasFresh ==
    /\ \A v \in Versions : schemas[v] # Nothing => v <= schemas[v]
    /\ \A r \in Requests :
          /\ query[r].on = "lookup" => query[r].key <= active
          /\ query[r].on \in {"build", "execute"} => query[r].key <= query[r].schema

CacheInv == CacheTypeOK /\ PollBehind /\ FreshSincePoll /\ SchemasFresh

\* The cache starts empty.
LEMMA CacheStart == CacheInit => CacheInv
BY CacheAssumption DEF CacheInit, CacheInv, CacheTypeOK, PollBehind, FreshSincePoll, SchemasFresh, Versions

\* Each step of the cache keeps its invariant.
LEMMA CacheStep == CacheInv /\ [CacheNext]_cacheVars => CacheInv'
<1> SUFFICES ASSUME CacheInv, [CacheNext]_cacheVars PROVE CacheInv'
  OBVIOUS
<1> USE CacheAssumption DEF CacheInv, CacheTypeOK, PollBehind, FreshSincePoll, SchemasFresh, Versions
<1>1. ASSUME NEW here \in BOOLEAN, Commit(here) PROVE CacheInv'
  BY <1>1 DEF Commit
<1>2. CASE Notify
  BY <1>2 DEF Notify
<1>3. CASE LocalInvalidate
  BY <1>3 DEF LocalInvalidate, Invalidated
<1>4. CASE PublisherDies
  BY <1>4 DEF PublisherDies
<1>5. CASE Restart
  BY <1>5 DEF Restart
<1>6. CASE LoadFields
  BY <1>6 DEF LoadFields
<1>7. CASE LoadRelationships
  BY <1>7 DEF LoadRelationships
<1>8. CASE LoadFails \/ Expire
  BY <1>8 DEF LoadFails, Expire
<1>9. ASSUME NEW l \in Listeners, Receive(l) \/ Disconnect(l) \/ Listen(l) PROVE CacheInv'
  BY <1>9 DEF Receive, Disconnect, Listen, Invalidated
<1>10. CASE PollRead
  BY <1>10 DEF PollRead
<1>11. CASE PollApply
  BY <1>11 DEF PollApply, Changed, Invalidated
<1>12. ASSUME NEW r \in Requests, ReadVersion(r) PROVE CacheInv'
  BY <1>12 DEF ReadVersion
<1>13. ASSUME NEW r \in Requests, LookUpSchema(r) PROVE CacheInv'
  BY <1>13 DEF LookUpSchema
<1>14. ASSUME NEW r \in Requests, KeepSchema(r) PROVE CacheInv'
  BY <1>14 DEF KeepSchema, KeyOf
<1>15. ASSUME NEW r \in Requests, Executed(r) PROVE CacheInv'
  BY <1>15 DEF Executed
<1>16. CASE UNCHANGED cacheVars
  BY <1>16 DEF cacheVars
<1>17. QED
  BY <1>1, <1>2, <1>3, <1>4, <1>5, <1>6, <1>7, <1>8, <1>9, <1>10, <1>11, <1>12, <1>13, <1>14,
     <1>15, <1>16 DEF CacheNext

\* What the cache holds is what the poll, the loads and the keys account for, in every
\* reachable state.
THEOREM CacheInvariant == CacheSpec => []CacheInv
BY CacheStart, CacheStep, PTL DEF CacheSpec

\* Whatever notifications are lost and whoever publishes, once the poll has seen the
\* active version an entry is of that version unless its load was under way when the
\* cache was emptied, and no GraphQL request runs on a schema older than the version it
\* read (spawn_poll, schema_for).
THEOREM ModelsAreFresh == CacheSpec => []NoStaleModel
<1>1. CacheInv => NoStaleModel
  BY DEF CacheInv, CacheTypeOK, FreshSincePoll, SchemasFresh, NoStaleModel, Versions
<1>2. QED
  BY <1>1, CacheInvariant, PTL

-----------------------------------------------------------------------------
(* Blobs *)

BlobTypeOK ==
    /\ blob \in [BlobIds -> BlobRow \cup {NoBlob}]
    /\ file \in [BlobIds -> Sums \cup {NoBlob}]
    /\ breq \in [BlobHandlers ->
                    [op : {"none"}]
                    \cup [op : {"lookup", "put"}, id : BlobIds, tenant : Tenants, sum : Sums]
                    \cup [op : {"insert", "lock", "drop", "unlink"}, id : BlobIds,
                          tenant : Tenants, sum : Sums, key : BlobIds]
                    \cup [op : {"get"}, id : BlobIds, key : BlobIds, sum : Sums]]
    /\ lost \in Nat /\ drawn \subseteq BlobIds

Is(h, ops)   == breq[h].op \in ops
HoldsLock(h) == Is(h, {"lookup", "put", "insert", "drop"})
Uploads(h)   == Is(h, {"lookup", "put", "insert"})
HasKey(h)    == Is(h, {"insert", "lock", "drop", "unlink", "get"})

OneHolder == \A g, h \in BlobHandlers :
                HoldsLock(g) /\ HoldsLock(h) /\ breq[g].sum = breq[h].sum => g = h

\* Ids are drawn once: nobody else has that of an upload.
IdsDrawn ==
    /\ \A b \in Rows : b \in drawn /\ blob[b].key \in drawn
    /\ \A h \in BlobHandlers : /\ breq[h].op # "none" => breq[h].id \in drawn
                               /\ HasKey(h) => breq[h].key \in drawn
    /\ \A h \in BlobHandlers : Uploads(h) =>
          /\ breq[h].id \notin Rows
          /\ \A g \in BlobHandlers \ {h} : breq[g].op # "none" => breq[g].id # breq[h].id
    /\ \A h \in BlobHandlers : Is(h, {"lookup", "put"}) =>
          /\ \A b \in Rows : blob[b].key # breq[h].id
          /\ \A g \in BlobHandlers : HasKey(g) => breq[g].key # breq[h].id

\* A row does not change while it is there.
RowsAsRead ==
    \A h \in BlobHandlers : Is(h, {"lock", "drop", "get"}) /\ breq[h].id \in Rows =>
        blob[breq[h].id].key = breq[h].key /\ blob[breq[h].id].sum = breq[h].sum

\* All who name a key name it for one tenant and one content.
NamedFor(own) ==
    /\ \A b \in Rows : own[blob[b].key].tenant = blob[b].tenant /\ own[blob[b].key].sum = blob[b].sum
    /\ \A h \in BlobHandlers : Is(h, {"insert", "lock", "drop", "unlink"}) =>
          own[breq[h].key].tenant = breq[h].tenant /\ own[breq[h].key].sum = breq[h].sum

KeysAgree == \E own \in [BlobIds -> [tenant : Tenants, sum : Sums] \cup {NoBlob}] : NamedFor(own)

\* Who is about to name a file finds it there, and nobody names one that is to go.
BytesThere ==
    /\ \A b \in Rows : file[blob[b].key] = blob[b].sum
    /\ \A h \in BlobHandlers : Is(h, {"insert"}) => file[breq[h].key] = breq[h].sum
    /\ \A h \in BlobHandlers : Is(h, {"unlink"}) =>
          /\ \A b \in Rows : blob[b].key # breq[h].key
          /\ \A g \in BlobHandlers : Is(g, {"insert"}) => breq[g].key # breq[h].key

NoOrphan ==
    lost = 0 => \A k \in BlobIds : file[k] # NoBlob =>
        \/ \E b \in Rows : blob[b].key = k
        \/ \E h \in BlobHandlers : Is(h, {"insert", "unlink"}) /\ breq[h].key = k

BlobInv == BlobTypeOK /\ OneHolder /\ IdsDrawn /\ RowsAsRead /\ KeysAgree /\ BytesThere /\ NoOrphan

\* An upload that takes the lock of its checksum keeps the invariant of the blobs.
LEMMA UploadLockKeeps ==
    ASSUME BlobInv, NEW h \in BlobHandlers, NEW b \in BlobIds, NEW t \in Tenants, NEW s \in Sums, UploadLock(h, b, t, s)
    PROVE  BlobInv'
<1> USE BlobAssumption DEF BlobInv, Step, UploadLock, LockFree
<1>1. BlobTypeOK'
  BY DEF BlobTypeOK, BlobRow, NoReq, Rows
<1>2. OneHolder'
  BY DEF BlobTypeOK, OneHolder, HoldsLock, Is, NoReq
<1>3. IdsDrawn'
  BY DEF BlobTypeOK, IdsDrawn, HasKey, Uploads, Is, NoReq, Rows, BlobRow
<1>4. RowsAsRead'
  BY DEF BlobTypeOK, RowsAsRead, IdsDrawn, Uploads, Is, NoReq, Rows, BlobRow
<1>5. KeysAgree'
  <2>1. PICK own \in [BlobIds -> [tenant : Tenants, sum : Sums] \cup {NoBlob}] : NamedFor(own)
    BY DEF KeysAgree
  <2>2. NamedFor(own)'
    BY <2>1 DEF NamedFor, BlobTypeOK, RowsAsRead, Is, NoReq, Rows, BlobRow
  <2>3. QED
    BY <2>1, <2>2 DEF KeysAgree
<1>6. BytesThere'
  BY DEF BytesThere, BlobTypeOK, IdsDrawn, HasKey, Uploads, Is, NoReq, Rows, BlobRow
<1>7. NoOrphan'
  BY DEF BlobTypeOK, NoOrphan, Is, NoReq, Rows, BlobRow, RowsAsRead
<1> QED
  BY <1>1, <1>2, <1>3, <1>4, <1>5, <1>6, <1>7

\* So does one that looks for a row with the same bytes.
LEMMA LookUpKeeps ==
    ASSUME BlobInv, NEW h \in BlobHandlers, LookUp(h)
    PROVE  BlobInv'
<1> USE BlobAssumption DEF BlobInv, Step, LookUp, SameBytes
<1>1. BlobTypeOK'
  BY DEF BlobTypeOK, BlobRow, NoReq, Rows
<1>2. OneHolder'
  BY DEF BlobTypeOK, OneHolder, HoldsLock, Is, NoReq
<1>3. IdsDrawn'
  BY DEF BlobTypeOK, IdsDrawn, HasKey, Uploads, Is, NoReq, Rows, BlobRow
<1>4. RowsAsRead'
  BY DEF BlobTypeOK, RowsAsRead, IdsDrawn, Uploads, Is, NoReq, Rows, BlobRow
<1>5. KeysAgree'
  <2>1. PICK own \in [BlobIds -> [tenant : Tenants, sum : Sums] \cup {NoBlob}] : NamedFor(own)
    BY DEF KeysAgree
  <2>2. NamedFor(own)'
    BY <2>1 DEF NamedFor, BlobTypeOK, RowsAsRead, Is, NoReq, Rows, BlobRow
  <2>3. QED
    BY <2>1, <2>2 DEF KeysAgree
<1>6. BytesThere'
  BY DEF BytesThere, BlobTypeOK, IdsDrawn, HasKey, Uploads, Is, NoReq, Rows, BlobRow
<1>7. NoOrphan'
  BY DEF BlobTypeOK, NoOrphan, Is, NoReq, Rows, BlobRow, RowsAsRead
<1> QED
  BY <1>1, <1>2, <1>3, <1>4, <1>5, <1>6, <1>7

\* So does one that puts its file.
LEMMA PutKeeps ==
    ASSUME BlobInv, NEW h \in BlobHandlers, Put(h)
    PROVE  BlobInv'
<1> USE BlobAssumption DEF BlobInv, Step, Put
<1>1. BlobTypeOK'
  BY DEF BlobTypeOK, BlobRow, NoReq, Rows
<1>2. OneHolder'
  BY DEF BlobTypeOK, OneHolder, HoldsLock, Is, NoReq
<1>3. IdsDrawn'
  BY DEF BlobTypeOK, IdsDrawn, HasKey, Uploads, Is, NoReq, Rows, BlobRow
<1>4. RowsAsRead'
  BY DEF BlobTypeOK, RowsAsRead, IdsDrawn, Uploads, Is, NoReq, Rows, BlobRow
<1>5. KeysAgree'
  <2>1. PICK own \in [BlobIds -> [tenant : Tenants, sum : Sums] \cup {NoBlob}] : NamedFor(own)
    BY DEF KeysAgree
  <2>2. PICK new \in [BlobIds -> [tenant : Tenants, sum : Sums] \cup {NoBlob}] :
            /\ new[breq[h].id].tenant = breq[h].tenant /\ new[breq[h].id].sum = breq[h].sum
            /\ \A k \in BlobIds \ {breq[h].id} : new[k] = own[k]
    <3>1. breq[h].id \in BlobIds /\ [tenant |-> breq[h].tenant, sum |-> breq[h].sum] \in [tenant : Tenants, sum : Sums]
      BY DEF BlobTypeOK
    <3>2. [own EXCEPT ![breq[h].id] = [tenant |-> breq[h].tenant, sum |-> breq[h].sum]]
              \in [BlobIds -> [tenant : Tenants, sum : Sums] \cup {NoBlob}]
      BY <2>1, <3>1
    <3>3. QED
      BY <3>1, <3>2
  <2>3. /\ \A b \in Rows : blob[b].key \in BlobIds \ {breq[h].id}
        /\ \A g \in BlobHandlers : HasKey(g) => breq[g].key \in BlobIds \ {breq[h].id}
    BY DEF BlobTypeOK, BlobRow, Rows, IdsDrawn, HasKey, Is
  <2>4. NamedFor(new)'
    BY <2>1, <2>2, <2>3 DEF NamedFor, BlobTypeOK, HasKey, Is, NoReq, Rows, BlobRow
  <2>5. QED
    BY <2>2, <2>4 DEF KeysAgree
<1>6. BytesThere'
  BY DEF BytesThere, BlobTypeOK, IdsDrawn, HasKey, Uploads, Is, NoReq, Rows, BlobRow
<1>7. NoOrphan'
  BY DEF BlobTypeOK, NoOrphan, Is, NoReq, Rows, BlobRow, RowsAsRead
<1> QED
  BY <1>1, <1>2, <1>3, <1>4, <1>5, <1>6, <1>7

\* So does one that inserts its row, with the file it found or put.
LEMMA InsertRowKeeps ==
    ASSUME BlobInv, NEW h \in BlobHandlers, InsertRow(h)
    PROVE  BlobInv'
<1> USE BlobAssumption DEF BlobInv, Step, InsertRow
<1>1. BlobTypeOK'
  BY DEF BlobTypeOK, BlobRow, NoReq, Rows
<1>2. OneHolder'
  BY DEF BlobTypeOK, OneHolder, HoldsLock, Is, NoReq
<1>3. IdsDrawn'
  BY DEF BlobTypeOK, IdsDrawn, HasKey, Uploads, Is, NoReq, Rows, BlobRow
<1>4. RowsAsRead'
  BY DEF BlobTypeOK, RowsAsRead, IdsDrawn, Uploads, Is, NoReq, Rows, BlobRow
<1>5. KeysAgree'
  <2>1. PICK own \in [BlobIds -> [tenant : Tenants, sum : Sums] \cup {NoBlob}] : NamedFor(own)
    BY DEF KeysAgree
  <2>2. NamedFor(own)'
    BY <2>1 DEF NamedFor, BlobTypeOK, RowsAsRead, Is, NoReq, Rows, BlobRow
  <2>3. QED
    BY <2>1, <2>2 DEF KeysAgree
<1>6. BytesThere'
  BY DEF BytesThere, BlobTypeOK, IdsDrawn, HasKey, Uploads, Is, NoReq, Rows, BlobRow
<1>7. NoOrphan'
  <2>1. breq[h].id \notin Rows
    BY DEF IdsDrawn, Uploads, Is
  <2>2. breq[h].key \in BlobIds /\ breq[h].id \in BlobIds
    BY DEF BlobTypeOK
  <2>3. blob'[breq[h].id].key = breq[h].key /\ breq[h].id \in Rows'
    BY <2>2 DEF BlobTypeOK, Rows, BlobRow
  <2>4. \A b \in Rows : b \in Rows' /\ blob'[b] = blob[b]
    BY <2>1 DEF BlobTypeOK, Rows
  <2>5. QED
    BY <2>2, <2>3, <2>4 DEF BlobTypeOK, NoOrphan, Is, NoReq
<1> QED
  BY <1>1, <1>2, <1>3, <1>4, <1>5, <1>6, <1>7

\* So does a delete that reads its row.
LEMMA DeleteReadKeeps ==
    ASSUME BlobInv, NEW h \in BlobHandlers, NEW b \in BlobIds, DeleteRead(h, b)
    PROVE  BlobInv'
<1> USE BlobAssumption DEF BlobInv, Step, DeleteRead
<1>1. BlobTypeOK'
  BY DEF BlobTypeOK, BlobRow, NoReq, Rows
<1>2. OneHolder'
  BY DEF BlobTypeOK, OneHolder, HoldsLock, Is, NoReq
<1>3. IdsDrawn'
  BY DEF BlobTypeOK, IdsDrawn, HasKey, Uploads, Is, NoReq, Rows, BlobRow
<1>4. RowsAsRead'
  BY DEF BlobTypeOK, RowsAsRead, IdsDrawn, Uploads, Is, NoReq, Rows, BlobRow
<1>5. KeysAgree'
  <2>1. PICK own \in [BlobIds -> [tenant : Tenants, sum : Sums] \cup {NoBlob}] : NamedFor(own)
    BY DEF KeysAgree
  <2>2. NamedFor(own)'
    BY <2>1 DEF NamedFor, BlobTypeOK, RowsAsRead, Is, NoReq, Rows, BlobRow
  <2>3. QED
    BY <2>1, <2>2 DEF KeysAgree
<1>6. BytesThere'
  BY DEF BytesThere, BlobTypeOK, IdsDrawn, HasKey, Uploads, Is, NoReq, Rows, BlobRow
<1>7. NoOrphan'
  BY DEF BlobTypeOK, NoOrphan, Is, NoReq, Rows, BlobRow, RowsAsRead
<1> QED
  BY <1>1, <1>2, <1>3, <1>4, <1>5, <1>6, <1>7

\* So does one that takes the lock.
LEMMA DeleteLockKeeps ==
    ASSUME BlobInv, NEW h \in BlobHandlers, DeleteLock(h)
    PROVE  BlobInv'
<1> USE BlobAssumption DEF BlobInv, Step, DeleteLock, LockFree
<1>1. BlobTypeOK'
  BY DEF BlobTypeOK, BlobRow, NoReq, Rows
<1>2. OneHolder'
  BY DEF BlobTypeOK, OneHolder, HoldsLock, Is, NoReq
<1>3. IdsDrawn'
  BY DEF BlobTypeOK, IdsDrawn, HasKey, Uploads, Is, NoReq, Rows, BlobRow
<1>4. RowsAsRead'
  BY DEF BlobTypeOK, RowsAsRead, IdsDrawn, Uploads, Is, NoReq, Rows, BlobRow
<1>5. KeysAgree'
  <2>1. PICK own \in [BlobIds -> [tenant : Tenants, sum : Sums] \cup {NoBlob}] : NamedFor(own)
    BY DEF KeysAgree
  <2>2. NamedFor(own)'
    BY <2>1 DEF NamedFor, BlobTypeOK, RowsAsRead, Is, NoReq, Rows, BlobRow
  <2>3. QED
    BY <2>1, <2>2 DEF KeysAgree
<1>6. BytesThere'
  BY DEF BytesThere, BlobTypeOK, IdsDrawn, HasKey, Uploads, Is, NoReq, Rows, BlobRow
<1>7. NoOrphan'
  BY DEF BlobTypeOK, NoOrphan, Is, NoReq, Rows, BlobRow, RowsAsRead
<1> QED
  BY <1>1, <1>2, <1>3, <1>4, <1>5, <1>6, <1>7

\* So does one that drops the row and looks for others that name the file.
LEMMA DropRowKeeps ==
    ASSUME BlobInv, NEW h \in BlobHandlers, DropRow(h)
    PROVE  BlobInv'
<1> USE BlobAssumption DEF BlobInv, Step, DropRow, StillNamed
<1>1. BlobTypeOK'
  BY DEF BlobTypeOK, BlobRow, NoReq, Rows
<1>2. OneHolder'
  BY DEF BlobTypeOK, OneHolder, HoldsLock, Is, NoReq
<1>3. IdsDrawn'
  BY DEF BlobTypeOK, IdsDrawn, HasKey, Uploads, Is, NoReq, Rows, BlobRow
<1>4. RowsAsRead'
  BY DEF BlobTypeOK, RowsAsRead, IdsDrawn, Uploads, Is, NoReq, Rows, BlobRow
<1>5. KeysAgree'
  <2>1. PICK own \in [BlobIds -> [tenant : Tenants, sum : Sums] \cup {NoBlob}] : NamedFor(own)
    BY DEF KeysAgree
  <2>2. NamedFor(own)'
    BY <2>1 DEF NamedFor, BlobTypeOK, RowsAsRead, Is, NoReq, Rows, BlobRow
  <2>3. QED
    BY <2>1, <2>2 DEF KeysAgree
<1>6. BytesThere'
  <2>1. PICK own : NamedFor(own)
    BY DEF KeysAgree
  <2>2. \A b \in Rows' : b \in Rows /\ b # breq[h].id /\ blob'[b] = blob[b]
    BY DEF BlobTypeOK, Rows
  <2>3. \A g \in BlobHandlers : Is(g, {"insert"}) => breq[g].key # breq[h].key
    BY <2>1 DEF NamedFor, BlobTypeOK, OneHolder, HoldsLock, Is
  <2>4. ASSUME StillNamed(breq[h].tenant, breq[h].key, breq[h].id) = {}
        PROVE  \A b \in Rows' : blob[b].key # breq[h].key
    BY <2>1, <2>2, <2>4 DEF NamedFor, BlobTypeOK, Rows, BlobRow, Is
  <2>5. QED
    BY <2>2, <2>3, <2>4 DEF BytesThere, BlobTypeOK, Is, NoReq
<1>7. NoOrphan'
  BY DEF BlobTypeOK, NoOrphan, Is, NoReq, Rows, BlobRow, RowsAsRead
<1> QED
  BY <1>1, <1>2, <1>3, <1>4, <1>5, <1>6, <1>7

\* So does one that removes the file no row names.
LEMMA UnlinkKeeps ==
    ASSUME BlobInv, NEW h \in BlobHandlers, Unlink(h)
    PROVE  BlobInv'
<1> USE BlobAssumption DEF BlobInv, Step, Unlink
<1>1. BlobTypeOK'
  BY DEF BlobTypeOK, BlobRow, NoReq, Rows
<1>2. OneHolder'
  BY DEF BlobTypeOK, OneHolder, HoldsLock, Is, NoReq
<1>3. IdsDrawn'
  BY DEF BlobTypeOK, IdsDrawn, HasKey, Uploads, Is, NoReq, Rows, BlobRow
<1>4. RowsAsRead'
  BY DEF BlobTypeOK, RowsAsRead, IdsDrawn, Uploads, Is, NoReq, Rows, BlobRow
<1>5. KeysAgree'
  <2>1. PICK own \in [BlobIds -> [tenant : Tenants, sum : Sums] \cup {NoBlob}] : NamedFor(own)
    BY DEF KeysAgree
  <2>2. NamedFor(own)'
    BY <2>1 DEF NamedFor, BlobTypeOK, RowsAsRead, Is, NoReq, Rows, BlobRow
  <2>3. QED
    BY <2>1, <2>2 DEF KeysAgree
<1>6. BytesThere'
  BY DEF BytesThere, BlobTypeOK, IdsDrawn, HasKey, Uploads, Is, NoReq, Rows, BlobRow
<1>7. NoOrphan'
  BY DEF BlobTypeOK, NoOrphan, Is, NoReq, Rows, BlobRow, RowsAsRead
<1> QED
  BY <1>1, <1>2, <1>3, <1>4, <1>5, <1>6, <1>7

\* So does the death of a request, which lets its lock go.
LEMMA BlobDieKeeps ==
    ASSUME BlobInv, NEW h \in BlobHandlers, BlobDie(h)
    PROVE  BlobInv'
<1> USE BlobAssumption DEF BlobInv, Step, BlobDie
<1>1. BlobTypeOK'
  BY DEF BlobTypeOK, BlobRow, NoReq, Rows
<1>2. OneHolder'
  BY DEF BlobTypeOK, OneHolder, HoldsLock, Is, NoReq
<1>3. IdsDrawn'
  BY DEF BlobTypeOK, IdsDrawn, HasKey, Uploads, Is, NoReq, Rows, BlobRow
<1>4. RowsAsRead'
  BY DEF BlobTypeOK, RowsAsRead, IdsDrawn, Uploads, Is, NoReq, Rows, BlobRow
<1>5. KeysAgree'
  <2>1. PICK own \in [BlobIds -> [tenant : Tenants, sum : Sums] \cup {NoBlob}] : NamedFor(own)
    BY DEF KeysAgree
  <2>2. NamedFor(own)'
    BY <2>1 DEF NamedFor, BlobTypeOK, RowsAsRead, Is, NoReq, Rows, BlobRow
  <2>3. QED
    BY <2>1, <2>2 DEF KeysAgree
<1>6. BytesThere'
  BY DEF BytesThere, BlobTypeOK, IdsDrawn, HasKey, Uploads, Is, NoReq, Rows, BlobRow
<1>7. NoOrphan'
  BY DEF BlobTypeOK, NoOrphan, Is, NoReq, Rows, BlobRow, RowsAsRead
<1> QED
  BY <1>1, <1>2, <1>3, <1>4, <1>5, <1>6, <1>7

\* So does a download that reads its row.
LEMMA DownloadReadKeeps ==
    ASSUME BlobInv, NEW h \in BlobHandlers, NEW b \in BlobIds, DownloadRead(h, b)
    PROVE  BlobInv'
<1> USE BlobAssumption DEF BlobInv, Step, DownloadRead
<1>1. BlobTypeOK'
  BY DEF BlobTypeOK, BlobRow, NoReq, Rows
<1>2. OneHolder'
  BY DEF BlobTypeOK, OneHolder, HoldsLock, Is, NoReq
<1>3. IdsDrawn'
  BY DEF BlobTypeOK, IdsDrawn, HasKey, Uploads, Is, NoReq, Rows, BlobRow
<1>4. RowsAsRead'
  BY DEF BlobTypeOK, RowsAsRead, IdsDrawn, Uploads, Is, NoReq, Rows, BlobRow
<1>5. KeysAgree'
  <2>1. PICK own \in [BlobIds -> [tenant : Tenants, sum : Sums] \cup {NoBlob}] : NamedFor(own)
    BY DEF KeysAgree
  <2>2. NamedFor(own)'
    BY <2>1 DEF NamedFor, BlobTypeOK, RowsAsRead, Is, NoReq, Rows, BlobRow
  <2>3. QED
    BY <2>1, <2>2 DEF KeysAgree
<1>6. BytesThere'
  BY DEF BytesThere, BlobTypeOK, IdsDrawn, HasKey, Uploads, Is, NoReq, Rows, BlobRow
<1>7. NoOrphan'
  BY DEF BlobTypeOK, NoOrphan, Is, NoReq, Rows, BlobRow, RowsAsRead
<1> QED
  BY <1>1, <1>2, <1>3, <1>4, <1>5, <1>6, <1>7

\* So does one that gets its file.
LEMMA DownloadGetKeeps ==
    ASSUME BlobInv, NEW h \in BlobHandlers, DownloadGet(h)
    PROVE  BlobInv'
<1> USE BlobAssumption DEF BlobInv, Step, DownloadGet
<1>1. BlobTypeOK'
  BY DEF BlobTypeOK, BlobRow, NoReq, Rows
<1>2. OneHolder'
  BY DEF BlobTypeOK, OneHolder, HoldsLock, Is, NoReq
<1>3. IdsDrawn'
  BY DEF BlobTypeOK, IdsDrawn, HasKey, Uploads, Is, NoReq, Rows, BlobRow
<1>4. RowsAsRead'
  BY DEF BlobTypeOK, RowsAsRead, IdsDrawn, Uploads, Is, NoReq, Rows, BlobRow
<1>5. KeysAgree'
  <2>1. PICK own \in [BlobIds -> [tenant : Tenants, sum : Sums] \cup {NoBlob}] : NamedFor(own)
    BY DEF KeysAgree
  <2>2. NamedFor(own)'
    BY <2>1 DEF NamedFor, BlobTypeOK, RowsAsRead, Is, NoReq, Rows, BlobRow
  <2>3. QED
    BY <2>1, <2>2 DEF KeysAgree
<1>6. BytesThere'
  BY DEF BytesThere, BlobTypeOK, IdsDrawn, HasKey, Uploads, Is, NoReq, Rows, BlobRow
<1>7. NoOrphan'
  BY DEF BlobTypeOK, NoOrphan, Is, NoReq, Rows, BlobRow, RowsAsRead
<1> QED
  BY <1>1, <1>2, <1>3, <1>4, <1>5, <1>6, <1>7

\* There is no blob and no file at first.
LEMMA BlobStart == BlobInit => BlobInv
<1> SUFFICES ASSUME BlobInit PROVE BlobInv
  OBVIOUS
<1> USE BlobAssumption DEF BlobInit, NoReq, Rows
<1>1. BlobTypeOK
  BY DEF BlobTypeOK
<1>2. OneHolder /\ IdsDrawn /\ RowsAsRead /\ BytesThere /\ NoOrphan
  BY DEF OneHolder, IdsDrawn, RowsAsRead, BytesThere, NoOrphan, HoldsLock, Uploads, HasKey, Is
<1>3. KeysAgree
  <2> DEFINE own == [k \in BlobIds |-> NoBlob]
  <2>1. own \in [BlobIds -> [tenant : Tenants, sum : Sums] \cup {NoBlob}] /\ NamedFor(own)
    BY DEF NamedFor, Is
  <2>2. QED
    BY <2>1 DEF KeysAgree
<1>4. QED
  BY <1>1, <1>2, <1>3 DEF BlobInv

\* A step that leaves everything alone leaves the invariant alone.
LEMMA BlobStutter == BlobInv /\ UNCHANGED blobVars => BlobInv'
BY DEF BlobInv, blobVars, BlobTypeOK, OneHolder, IdsDrawn, RowsAsRead, KeysAgree, NamedFor, BytesThere,
       NoOrphan, HoldsLock, Uploads, HasKey, Is, Rows

\* However uploads, deletes, downloads and deaths interleave, keys, rows, files and locks agree.
THEOREM BlobInvariant == BlobSpec => []BlobInv
<1>1. BlobInv /\ [BlobNext]_blobVars => BlobInv'
  BY UploadLockKeeps, LookUpKeeps, PutKeeps, InsertRowKeeps, DeleteReadKeeps, DeleteLockKeeps,
     DropRowKeeps, UnlinkKeeps, BlobDieKeeps, DownloadReadKeeps, DownloadGetKeeps, BlobStutter
     DEF BlobNext
<1>2. QED
  BY <1>1, BlobStart, PTL DEF BlobSpec

\* Whatever uploads and deletes of the same bytes race each other, in any number of
\* tenants, every row has its bytes, a download gets them unless its row is gone, and no
\* file outlives its rows unless a request died (upload_attachment, delete_attachment).
THEOREM BytesAreKept == BlobSpec => []BlobsKept
<1>1. BlobInv => BlobsKept
  BY DEF BlobInv, BlobTypeOK, BlobRow, Rows, BytesThere, RowsAsRead, NoOrphan, BlobsKept, Is
<1>2. QED
  BY <1>1, BlobInvariant, PTL

-----------------------------------------------------------------------------
(* Sessions and the throttle of logins *)

LoginSteps == {"acct", "verify", "clear acct", "fail acct", "clear ip", "fail ip", "session"}

LoginCalls ==
    [op : {"none"}, step : {"none"}]
    \cup [op : {"login"}, step : LoginSteps, pw : {0, 1}]
    \cup [op : {"refresh"}, step : {"lock", "mint"}, sid : Sids, at : Nat]
    \cup [op : {"revoke all"}, step : {"wait"}, resets : BOOLEAN, sids : SUBSET Sids]

LoginTypeOK ==
    /\ now \in Nat
    /\ user \in [active : BOOLEAN, pw : {0, 1}]
    /\ throttle \in [Keys -> ThrottleRow \cup {NoRow}]
    /\ late \in [Keys -> Nat]
    /\ sess \in [Sids -> SessionRow \cup {NoRow}]
    /\ call \in [Callers -> LoginCalls]

Mints(h) == At(h, "refresh", "mint")

\* A rotation that has its row is alone with it, and finds it live until it commits.
RowsHeld ==
    /\ \A h \in Callers : call[h].op = "refresh" => call[h].sid \in Drawn
    /\ \A h \in Callers : call[h].op = "revoke all" => call[h].sids \subseteq Drawn
    /\ \A h \in Callers : Mints(h) => Live(call[h].sid, call[h].at)
    /\ \A g, h \in Callers : Mints(g) /\ Mints(h) /\ call[g].sid = call[h].sid => g = h

\* Who comes from a session ended it while it was live, and is the only one.
Lineage ==
    /\ \A r \in Drawn : sess[r].parent # NoRow =>
          /\ sess[r].parent \in Drawn /\ sess[sess[r].parent].revoked
          /\ sess[r].clean /\ sess[r].born < sess[sess[r].parent].expires
    /\ \A q, r \in Drawn : sess[q].parent = sess[r].parent /\ sess[q].parent # NoRow => q = r

\* The logins that are past the check of a key and have not recorded their outcome on it.
Beyond(k) == IF k = "acct" THEN {"verify", "clear acct", "fail acct"} ELSE LoginSteps \ {"session"}
Past(k)   == {h \in Callers : call[h].op = "login" /\ call[h].step \in Beyond(k)}

\* While a key is locked, those are all that can still fail on it.
Budget(k) ==
    /\ late[k] < Cardinality(Callers)
    /\ IsLocked(k) => late[k] + Cardinality(Past(k)) < Cardinality(Callers)

SessionsInv == LoginTypeOK /\ RowsHeld /\ Lineage
LoginsInv == SessionsInv /\ \A k \in Keys : Budget(k)

\* The constants of the sessions, and what is not a row.
LEMMA LoginConstants ==
    /\ MaxSessions \in Nat /\ MaxFails \in Nat /\ Window \in Nat /\ Lockout \in Nat
    /\ AccessTtl \in Nat /\ RefreshTtl \in Nat /\ MaxTime \in Nat
    /\ NoRow \notin Sids /\ NoRow \notin SessionRow /\ NoRow \notin ThrottleRow
BY LoginAssumption DEF Sids

\* No call in flight is one of the calls.
LEMMA NoCallIsOne == NoCall \in LoginCalls /\ NoCall.op = "none" /\ NoCall.step = "none"
BY DEF NoCall, LoginCalls

\* What a call has, by what it is.
LEMMA CallFields ==
    ASSUME NEW c \in LoginCalls
    PROVE  /\ c.op = "refresh" => c.sid \in Sids /\ c.at \in Nat /\ c.step \in {"lock", "mint"}
           /\ c.op = "revoke all" => c.sids \subseteq Sids /\ c.resets \in BOOLEAN /\ c.step = "wait"
           /\ c.op = "login" => c.step \in LoginSteps /\ c.pw \in {0, 1}
           /\ c.op \in {"none", "login", "refresh", "revoke all"}
BY DEF LoginCalls

\* A revocation that waits for the rows ss.
LEMMA RevokeCall ==
    ASSUME NEW ss \in SUBSET Sids, NEW rs \in BOOLEAN,
           NEW c, c = [op |-> "revoke all", step |-> "wait", resets |-> rs, sids |-> ss]
    PROVE  c \in LoginCalls /\ c.op = "revoke all" /\ c.step = "wait" /\ c.sids = ss
<1>1. c \in [op : {"revoke all"}, step : {"wait"}, resets : BOOLEAN, sids : SUBSET Sids]
  OBVIOUS
<1>2. c.sids = ss
  <2>1. CASE rs = TRUE
    BY <2>1
  <2>2. CASE rs = FALSE
    BY <2>2
  <2>3. QED
    BY <2>1, <2>2
<1>3. QED
  BY <1>1, <1>2 DEF LoginCalls

\* A failure makes a row of the throttle of any row, or of none.
LEMMA FailedRow ==
    ASSUME now \in Nat, NEW t \in ThrottleRow \cup {NoRow}
    PROVE  Failed(t) \in ThrottleRow
<1> USE LoginConstants
<1>1. CASE t = NoRow
  BY <1>1 DEF Failed, ThrottleRow
<1>2. CASE t \in ThrottleRow /\ t # NoRow
  BY <1>2 DEF Failed, ThrottleRow
<1>3. QED
  BY <1>1, <1>2

\* The statements of a login leave sessions and rotations alone.
LEMMA LoginKeeps ==
    ASSUME SessionsInv, NEW h \in Callers,
           \/ \E pw \in {0, 1}, known \in BOOLEAN : LoginBegin(h, pw, known)
           \/ LoginAccount(h) \/ Verify(h) \/ NoteAccount(h) \/ NoteAddress(h)
    PROVE  SessionsInv'
<1> USE LoginAssumption DEF SessionsInv, At
<1>1. /\ now' = now /\ user' = user /\ sess' = sess
      /\ throttle' \in [Keys -> ThrottleRow \cup {NoRow}] /\ late' \in [Keys -> Nat]
  <2>1. \A k \in Keys : Failed(throttle[k]) \in ThrottleRow
    BY FailedRow DEF LoginTypeOK
  <2>2. ASSUME NEW k \in Keys, RecordFailure(k)
        PROVE  throttle' \in [Keys -> ThrottleRow \cup {NoRow}] /\ late' \in [Keys -> Nat]
    <3>1. throttle' = [throttle EXCEPT ![k] = Failed(throttle[k])]
      BY <2>2 DEF RecordFailure, LoginTypeOK
    <3>2. late' \in [Keys -> Nat]
      <4>1. late[k] \in Nat
        BY DEF LoginTypeOK
      <4>2. late' = [late EXCEPT ![k] = IF IsLocked(k) THEN late[k] + 1 ELSE 0]
        BY <2>2 DEF RecordFailure, IsLocked
      <4>3. (IF IsLocked(k) THEN late[k] + 1 ELSE 0) \in Nat
        BY <4>1
      <4>4. QED
        BY <4>2, <4>3, ZenonT(20) DEF LoginTypeOK
    <3>3. QED
      BY <2>1, <3>1, <3>2 DEF LoginTypeOK
  <2>3. ASSUME NEW k \in Keys, RecordSuccess(k)
        PROVE  throttle' \in [Keys -> ThrottleRow \cup {NoRow}] /\ late' \in [Keys -> Nat]
    BY <2>3 DEF LoginTypeOK, RecordSuccess
  <2>4. QED
    BY <2>2, <2>3 DEF LoginTypeOK, LoginBegin, LoginAccount, Verify, NoteAccount, NoteAddress, Keys
<1>2. \E c : /\ c \in [op : {"none"}, step : {"none"}] \cup [op : {"login"}, step : LoginSteps, pw : {0, 1}]
             /\ call' = [call EXCEPT ![h] = c]
  <2>1. call[h].op = "login" => \A st \in LoginSteps :
            [call[h] EXCEPT !.step = st] \in [op : {"login"}, step : LoginSteps, pw : {0, 1}]
    BY DEF LoginTypeOK, LoginCalls
  <2>2. ASSUME NEW st \in LoginSteps, call[h].op = "login", Goes(h, st)
        PROVE  \E c : /\ c \in [op : {"none"}, step : {"none"}] \cup [op : {"login"}, step : LoginSteps, pw : {0, 1}]
                      /\ call' = [call EXCEPT ![h] = c]
    BY <2>1, <2>2 DEF Goes, LoginTypeOK
  <2>3. CASE Answered(h)
    BY <2>3 DEF Answered, NoCall
  <2>4. ASSUME NEW pw \in {0, 1}, NEW known \in BOOLEAN, LoginBegin(h, pw, known)
        PROVE  \E c : /\ c \in [op : {"none"}, step : {"none"}] \cup [op : {"login"}, step : LoginSteps, pw : {0, 1}]
                      /\ call' = [call EXCEPT ![h] = c]
    BY <2>4 DEF LoginBegin, LoginSteps
  <2>5. QED
    BY <2>2, <2>3, <2>4 DEF LoginSteps, LoginAccount, Verify, NoteAccount, NoteAddress
<1>3. PICK c : /\ c \in [op : {"none"}, step : {"none"}] \cup [op : {"login"}, step : LoginSteps, pw : {0, 1}]
               /\ call' = [call EXCEPT ![h] = c]
  BY <1>2
<1>4. LoginTypeOK'
  <2>1. c \in LoginCalls
    BY <1>3 DEF LoginCalls
  <2>2. QED
    BY <1>1, <1>3, <2>1 DEF LoginTypeOK
<1>5. \A g \in Callers : call'[g].op \in {"refresh", "revoke all"} => call'[g] = call[g]
  BY <1>3 DEF LoginTypeOK
<1>6. RowsHeld'
  BY <1>1, <1>5 DEF RowsHeld, Drawn, Mints, Live
<1>7. Lineage'
  BY <1>1 DEF Lineage, Drawn
<1>8. QED
  BY <1>4, <1>6, <1>7

\* What a new session makes of the table.
LEMMA MintedRows ==
    ASSUME LoginTypeOK, NEW s \in Sids, NEW p \in Drawn \cup {NoRow}, NEW at \in Nat, Mint(s, p, at)
    PROVE  /\ sess' \in [Sids -> SessionRow \cup {NoRow}]
           /\ Drawn' = Drawn \cup {s} /\ s \notin Drawn
           /\ sess'[s].parent = p /\ ~sess'[s].revoked /\ sess'[s].born = at
           /\ (sess'[s].clean <=> (p = NoRow \/ ~sess[p].revoked))
           /\ \A r \in Drawn : /\ (sess'[r].revoked <=> (r = p \/ sess[r].revoked))
                               /\ sess'[r].expires = sess[r].expires
                               /\ sess'[r].parent = sess[r].parent /\ sess'[r].born = sess[r].born
                               /\ (sess'[r].clean <=> sess[r].clean)
<1> USE LoginConstants
<1> DEFINE rec == [parent |-> p, revoked |-> FALSE, born |-> at, expires |-> at + RefreshTtl,
                   clean |-> p = NoRow \/ ~sess[p].revoked]
           k1 == [sess EXCEPT ![s] = rec]
           q == IF p = NoRow THEN s ELSE p
<1>1. rec \in SessionRow /\ rec # NoRow
  <2>1. p \in Sids \cup {NoRow} /\ at + RefreshTtl \in Nat
    BY DEF Drawn
  <2>2. (p = NoRow \/ ~sess[p].revoked) \in BOOLEAN
    OBVIOUS
  <2>3. rec \in SessionRow
    BY <2>1, <2>2 DEF SessionRow
  <2>4. QED
    BY <2>3
<1>2. sess' = [k1 EXCEPT ![q].revoked = (p # NoRow)]
  BY DEF Mint
<1>3. /\ k1 \in [Sids -> SessionRow \cup {NoRow}] /\ k1[s] = rec
      /\ \A r \in Sids \ {s} : k1[r] = sess[r]
  BY <1>1 DEF LoginTypeOK
<1>4. /\ rec.parent = p /\ rec.revoked = FALSE /\ rec.born = at
      /\ rec.clean = (p = NoRow \/ ~sess[p].revoked)
  OBVIOUS
<1> HIDE DEF rec, k1
<1>5. s \notin Drawn /\ q \in Sids /\ k1[q] \in SessionRow /\ (p = NoRow => q = s) /\ (p # NoRow => q = p /\ p # s)
  BY <1>1, <1>3 DEF LoginTypeOK, Mint, Drawn
<1> HIDE DEF q
<1>6. /\ sess' \in [Sids -> SessionRow \cup {NoRow}]
      /\ \A r \in Sids \ {q} : sess'[r] = k1[r]
      /\ sess'[q] = [k1[q] EXCEPT !.revoked = (p # NoRow)]
  BY <1>2, <1>3, <1>5 DEF SessionRow
<1>7. /\ sess'[q] \in SessionRow /\ sess'[q].revoked = (p # NoRow)
      /\ sess'[q].parent = k1[q].parent /\ sess'[q].born = k1[q].born
      /\ sess'[q].expires = k1[q].expires /\ sess'[q].clean = k1[q].clean
  BY <1>5, <1>6 DEF SessionRow
<1>8. Drawn' = Drawn \cup {s}
  <2>1. q \in Drawn \cup {s} /\ sess'[q] # NoRow
    BY <1>5, <1>7
  <2>2. \A r \in Sids \ {q, s} : sess'[r] = sess[r]
    BY <1>3, <1>6
  <2>3. sess'[s] # NoRow
    BY <1>1, <1>3, <1>6, <2>1
  <2>4. QED
    BY <2>1, <2>2, <2>3 DEF Drawn
<1>9. /\ sess'[s].parent = p /\ ~sess'[s].revoked /\ sess'[s].born = at
      /\ (sess'[s].clean <=> (p = NoRow \/ ~sess[p].revoked))
  <2>1. CASE p = NoRow
    BY <2>1, <1>3, <1>4, <1>5, <1>7
  <2>2. CASE p # NoRow
    BY <2>2, <1>3, <1>4, <1>5, <1>6
  <2>3. QED
    BY <2>1, <2>2
<1>10. ASSUME NEW r \in Drawn
       PROVE  /\ (sess'[r].revoked <=> (r = p \/ sess[r].revoked))
              /\ sess'[r].expires = sess[r].expires
              /\ sess'[r].parent = sess[r].parent /\ sess'[r].born = sess[r].born
              /\ (sess'[r].clean <=> sess[r].clean)
  <2>1. r \in Sids /\ r # s /\ r # NoRow /\ k1[r] = sess[r] /\ sess[r].revoked \in BOOLEAN
    <3>1. r \in Sids /\ r # s /\ r # NoRow /\ k1[r] = sess[r] /\ sess[r] \in SessionRow
      BY <1>3, <1>5 DEF Drawn, LoginTypeOK
    <3>2. QED
      BY <3>1 DEF SessionRow
  <2>2. CASE r = p
    BY <2>1, <2>2, <1>5, <1>7
  <2>3. CASE r # p
    <3>1. sess'[r] = sess[r]
      BY <2>1, <2>3, <1>5, <1>6
    <3>2. QED
      BY <2>1, <2>3, <3>1
  <2>4. QED
    BY <2>2, <2>3
<1>11. QED
  BY <1>5, <1>6, <1>8, <1>9, <1>10

\* A new session, of a login or of a rotation that has its row.
LEMMA MintKeeps ==
    ASSUME SessionsInv, NEW h \in Callers, CreateSession(h) \/ Rotated(h)
    PROVE  SessionsInv'
<1> USE LoginConstants DEF SessionsInv
<1>1. PICK s \in Sids, p \in Drawn \cup {NoRow}, at \in Nat :
           /\ Mint(s, p, at)
           /\ p # NoRow => Mints(h) /\ call[h].sid = p /\ call[h].at = at
  <2>1. CASE CreateSession(h)
    BY <2>1 DEF CreateSession, LoginTypeOK
  <2>2. CASE Rotated(h)
    <3>1. call[h].sid \in Drawn /\ call[h].at \in Nat /\ Mints(h)
      BY <2>2, CallFields DEF Rotated, LoginTypeOK, RowsHeld, Mints, At
    <3>2. QED
      BY <2>2, <3>1 DEF Rotated
  <2>3. QED
    BY <2>1, <2>2
<1>2. /\ sess' \in [Sids -> SessionRow \cup {NoRow}]
      /\ Drawn' = Drawn \cup {s} /\ s \notin Drawn
      /\ sess'[s].parent = p /\ ~sess'[s].revoked /\ sess'[s].born = at
      /\ (sess'[s].clean <=> (p = NoRow \/ ~sess[p].revoked))
      /\ \A r \in Drawn : /\ (sess'[r].revoked <=> (r = p \/ sess[r].revoked))
                          /\ sess'[r].expires = sess[r].expires
                          /\ sess'[r].parent = sess[r].parent /\ sess'[r].born = sess[r].born
                          /\ (sess'[r].clean <=> sess[r].clean)
  BY <1>1, MintedRows
<1>3. /\ now' = now /\ user' = user /\ throttle' = throttle /\ late' = late
      /\ call' = [call EXCEPT ![h] = NoCall]
  BY DEF CreateSession, Rotated, Answered
<1>4. LoginTypeOK'
  BY <1>2, <1>3, NoCallIsOne DEF LoginTypeOK
<1>5. p # NoRow => p \in Drawn /\ ~sess[p].revoked /\ at < sess[p].expires
  BY <1>1 DEF RowsHeld, Live
<1>6. RowsHeld'
  <2>1. \A g \in Callers \ {h} : call'[g] = call[g]
    BY <1>3 DEF LoginTypeOK
  <2>2. call'[h].op = "none"
    BY <1>3 DEF LoginTypeOK, NoCall
  <2>3. \A g \in Callers \ {h} : Mints(g) => call[g].sid # p /\ call[g].sid \in Drawn
    <3>1. \A g \in Callers : Mints(g) => call[g].sid \in Drawn /\ call[g].sid # NoRow
      BY DEF RowsHeld, Mints, At, Drawn
    <3>2. QED
      BY <1>1, <3>1 DEF RowsHeld
  <2>4. \A g \in Callers : Mints(g)' => g # h /\ Mints(g)
    BY <2>1, <2>2 DEF Mints, At
  <2>5. ASSUME NEW g \in Callers, Mints(g)' PROVE Live(call[g].sid, call[g].at)'
    <3> DEFINE r == call[g].sid
    <3>1. g # h /\ Mints(g) /\ call'[g] = call[g] /\ r \in Drawn /\ r # p
      BY <2>1, <2>3, <2>4, <2>5
    <3>2. Live(r, call[g].at)
      BY <3>1 DEF RowsHeld
    <3>3. (sess'[r].revoked <=> sess[r].revoked) /\ sess'[r].expires = sess[r].expires
      BY <1>2, <3>1
    <3>4. r \in Drawn' /\ ~sess'[r].revoked /\ call[g].at < sess'[r].expires
      BY <1>2, <3>1, <3>2, <3>3 DEF Live
    <3>5. QED
      BY <3>1, <3>4 DEF Live
  <2>6. ASSUME NEW g \in Callers
        PROVE  /\ call'[g].op = "refresh" => call'[g].sid \in Drawn'
               /\ call'[g].op = "revoke all" => call'[g].sids \subseteq Drawn'
    BY <1>2, <2>1, <2>2 DEF RowsHeld
  <2>7. ASSUME NEW f \in Callers, NEW g \in Callers, Mints(f)', Mints(g)', call'[f].sid = call'[g].sid
        PROVE  f = g
    BY <2>1, <2>4, <2>7 DEF RowsHeld
  <2>8. QED
    BY <2>5, <2>6, <2>7 DEF RowsHeld
<1>7. Lineage'
  <2>1. \A r \in Drawn : sess[r].parent = p => p = NoRow
    BY <1>5 DEF Lineage
  <2>2. QED
    <3>1. ASSUME NEW r \in Drawn', sess'[r].parent # NoRow
          PROVE  /\ sess'[r].parent \in Drawn' /\ sess'[sess'[r].parent].revoked
                 /\ sess'[r].clean /\ sess'[r].born < sess'[sess'[r].parent].expires
      <4>1. CASE r = s
        BY <4>1, <3>1, <1>2, <1>5
      <4>2. CASE r \in Drawn
        BY <4>2, <3>1, <1>2 DEF Lineage
      <4>3. QED
        BY <4>1, <4>2, <1>2
    <3>2. ASSUME NEW q \in Drawn', NEW r \in Drawn',
                 sess'[q].parent = sess'[r].parent, sess'[q].parent # NoRow
          PROVE  q = r
      BY <3>2, <1>2, <2>1 DEF Lineage
    <3>3. QED
      BY <3>1, <3>2 DEF Lineage
<1>8. QED
  BY <1>4, <1>6, <1>7

\* A rotation begins, or has its row or none.
LEMMA RotateKeeps ==
    ASSUME SessionsInv, NEW h \in Callers,
           Rotate(h) \/ ResetPassword(h) \/ \E s \in Sids : Refresh(h, s)
    PROVE  SessionsInv'
<1> USE LoginConstants DEF SessionsInv
<1>1. /\ now' = now /\ user' = user /\ throttle' = throttle /\ late' = late /\ sess' = sess
  BY DEF Rotate, ResetPassword, Refresh
<1>2. Drawn' = Drawn /\ Drawn \in SUBSET Sids
  BY <1>1 DEF Drawn
<1>3. \A g \in Callers \ {h} : call'[g] = call[g]
  BY DEF Rotate, ResetPassword, Refresh, RevokeFound, Goes, LoginTypeOK
<1>4. \/ /\ Mints(h)' /\ ~Locked(call[h].sid) /\ Live(call[h].sid, call[h].at)
         /\ call' = [call EXCEPT ![h].step = "mint"] /\ call[h].op = "refresh"
      \/ \E s \in Drawn : call' = [call EXCEPT ![h] = [op |-> "refresh", step |-> "lock", sid |-> s, at |-> now]]
      \/ \E c \in LoginCalls : /\ c.op = "revoke all" /\ c.step = "wait" /\ c.sids \subseteq Drawn
                               /\ call' = [call EXCEPT ![h] = c]
  <2>1. CASE Rotate(h) /\ Live(call[h].sid, call[h].at)
    <3>1. /\ call[h].op = "refresh" /\ ~Locked(call[h].sid)
          /\ call' = [call EXCEPT ![h].step = "mint"]
      BY <2>1 DEF Rotate, Goes, At
    <3>2. call'[h] = [call[h] EXCEPT !.step = "mint"] /\ call[h] \in LoginCalls
      BY <3>1 DEF LoginTypeOK
    <3>3. call'[h].op = "refresh" /\ call'[h].step = "mint"
      BY <3>1, <3>2 DEF LoginCalls
    <3>4. QED
      BY <2>1, <3>1, <3>3 DEF Mints, At
  <2>2. CASE (Rotate(h) /\ ~Live(call[h].sid, call[h].at)) \/ ResetPassword(h)
    <3>1. PICK rs \in BOOLEAN : RevokeFound(h, rs)
      BY <2>2 DEF Rotate, ResetPassword
    <3>2. PICK ss \in SUBSET Drawn : ss = {s \in Drawn : ~sess[s].revoked}
      OBVIOUS
    <3>3. PICK c : c = [op |-> "revoke all", step |-> "wait", resets |-> rs, sids |-> ss]
      OBVIOUS
    <3>4. c \in LoginCalls /\ c.op = "revoke all" /\ c.step = "wait" /\ c.sids = ss
      BY <1>2, <3>3, RevokeCall
    <3>5. call' = [call EXCEPT ![h] = c]
      BY <3>1, <3>2, <3>3 DEF RevokeFound
    <3>6. QED
      BY <3>4, <3>5
  <2>3. CASE \E s \in Sids : Refresh(h, s)
    BY <2>3 DEF Refresh
  <2>4. QED
    BY <2>1, <2>2, <2>3
<1>5. CASE /\ Mints(h)' /\ ~Locked(call[h].sid) /\ Live(call[h].sid, call[h].at)
           /\ call' = [call EXCEPT ![h].step = "mint"] /\ call[h].op = "refresh"
  <2>1. call'[h] = [call[h] EXCEPT !.step = "mint"] /\ call[h] \in LoginCalls
    BY <1>5 DEF LoginTypeOK
  <2>2. /\ call'[h] \in LoginCalls
        /\ call'[h].sid = call[h].sid /\ call'[h].at = call[h].at /\ call'[h].op = "refresh"
    <3>1. call[h] \in [op : {"refresh"}, step : {"lock", "mint"}, sid : Sids, at : Nat]
      BY <1>5, <2>1 DEF LoginCalls
    <3>2. call'[h] \in [op : {"refresh"}, step : {"lock", "mint"}, sid : Sids, at : Nat]
      BY <2>1, <3>1
    <3>3. QED
      BY <2>1, <3>1, <3>2 DEF LoginCalls
  <2>5. LoginTypeOK'
    BY <1>1, <1>5, <2>1, <2>2 DEF LoginTypeOK
  <2>6. \A g \in Callers \ {h} : Mints(g) => call[g].sid # call[h].sid
    BY <1>5 DEF Locked, Mints
  <2>3. RowsHeld'
    <3>1. \A g \in Callers : Live(call[g].sid, call[g].at)' <=> Live(call'[g].sid, call'[g].at)
      BY <1>1, <1>2 DEF Live
    <3>2. \A g \in Callers : Mints(g)' /\ g # h => Mints(g)
      BY <1>3 DEF Mints, At
    <3>3. call[h].sid \in Drawn
      BY <1>5 DEF RowsHeld
    <3>4. \A g \in Callers : call'[g].op = "refresh" => call'[g].sid \in Drawn
      BY <1>3, <2>2, <3>3 DEF RowsHeld
    <3>5. \A g \in Callers : call'[g].op = "revoke all" => call'[g].sids \subseteq Drawn
      BY <1>3, <2>2 DEF RowsHeld
    <3>6. \A g \in Callers : Mints(g)' => Live(call'[g].sid, call'[g].at)
      BY <1>3, <1>5, <2>2, <3>2 DEF RowsHeld
    <3>7. \A f, g \in Callers : Mints(f)' /\ Mints(g)' /\ call'[f].sid = call'[g].sid => f = g
      BY <1>3, <2>2, <2>6, <3>2 DEF RowsHeld
    <3>8. QED
      BY <1>2, <3>1, <3>4, <3>5, <3>6, <3>7 DEF RowsHeld
  <2>4. QED
    BY <1>1, <1>2, <2>5, <2>3 DEF Lineage
<1>6. CASE \E s \in Drawn : call' = [call EXCEPT ![h] = [op |-> "refresh", step |-> "lock", sid |-> s, at |-> now]]
  <2>1. LoginTypeOK'
    <3>1. \A s \in Drawn : [op |-> "refresh", step |-> "lock", sid |-> s, at |-> now] \in LoginCalls
      BY <1>2 DEF LoginTypeOK, LoginCalls
    <3>2. call' \in [Callers -> LoginCalls]
      BY <1>6, <3>1 DEF LoginTypeOK
    <3>3. QED
      BY <1>1, <3>2 DEF LoginTypeOK
  <2>2. call'[h].sid \in Drawn /\ call'[h].step = "lock" /\ call'[h].op = "refresh"
    <3>1. \E s \in Drawn : call'[h] = [op |-> "refresh", step |-> "lock", sid |-> s, at |-> now]
      BY <1>6 DEF LoginTypeOK
    <3>2. QED
      BY <3>1
  <2>3. RowsHeld'
    BY <1>1, <1>2, <1>3, <2>2 DEF RowsHeld, Mints, At, Live
  <2>4. QED
    BY <1>1, <1>2, <2>1, <2>3 DEF Lineage
<1>7. CASE \E c \in LoginCalls : /\ c.op = "revoke all" /\ c.step = "wait" /\ c.sids \subseteq Drawn
                                 /\ call' = [call EXCEPT ![h] = c]
  <2>1. LoginTypeOK'
    BY <1>1, <1>7 DEF LoginTypeOK
  <2>2. call'[h].sids \subseteq Drawn /\ call'[h].op = "revoke all"
    BY <1>7 DEF LoginTypeOK
  <2>3. RowsHeld'
    BY <1>1, <1>2, <1>3, <2>2 DEF RowsHeld, Mints, At, Live
  <2>4. QED
    BY <1>1, <1>2, <2>1, <2>3 DEF Lineage
<1>8. QED
  BY <1>4, <1>5, <1>6, <1>7

\* A revocation waits for the rotations that hold its rows.
LEMMA RevokeKeeps ==
    ASSUME SessionsInv,
           (\E h \in Callers : RevokeAll(h)) \/ (\E s \in Sids : Logout(s))
    PROVE  SessionsInv'
<1> USE LoginConstants DEF SessionsInv
<1>1. PICK ss \in SUBSET Drawn :
         /\ \A s \in ss : ~Locked(s)
         /\ \A s \in Sids : sess'[s] = IF s \in ss THEN [sess[s] EXCEPT !.revoked = TRUE] ELSE sess[s]
         /\ DOMAIN sess' = Sids /\ sess' = [s \in Sids |-> sess'[s]]
  <2>1. ASSUME NEW h \in Callers, RevokeAll(h)
        PROVE  \E ss \in SUBSET Drawn :
                 /\ \A s \in ss : ~Locked(s)
                 /\ \A s \in Sids : sess'[s] = IF s \in ss THEN [sess[s] EXCEPT !.revoked = TRUE] ELSE sess[s]
                 /\ DOMAIN sess' = Sids /\ sess' = [s \in Sids |-> sess'[s]]
    <3>1. call[h].sids \in SUBSET Drawn
      BY <2>1 DEF RevokeAll, At, RowsHeld
    <3>2. QED
      BY <2>1, <3>1 DEF RevokeAll
  <2>2. ASSUME NEW s \in Sids, Logout(s)
        PROVE  \E ss \in SUBSET Drawn :
                 /\ \A r \in ss : ~Locked(r)
                 /\ \A r \in Sids : sess'[r] = IF r \in ss THEN [sess[r] EXCEPT !.revoked = TRUE] ELSE sess[r]
                 /\ DOMAIN sess' = Sids /\ sess' = [r \in Sids |-> sess'[r]]
    <3>1. {s} \in SUBSET Drawn /\ sess' = [sess EXCEPT ![s].revoked = TRUE] /\ ~Locked(s)
      BY <2>2 DEF Logout
    <3>2. QED
      BY <3>1 DEF LoginTypeOK
  <2>3. QED
    BY <2>1, <2>2
<1>2. /\ now' = now /\ throttle' = throttle /\ late' = late
      /\ user' \in [active : BOOLEAN, pw : {0, 1}]
  BY DEF RevokeAll, Logout, LoginTypeOK
<1>3. \A g \in Callers : call'[g] = call[g] \/ call'[g] = NoCall
  BY DEF RevokeAll, Logout, Answered, LoginTypeOK
<1>4. call' \in [Callers -> LoginCalls]
  BY NoCallIsOne DEF RevokeAll, Logout, Answered, LoginTypeOK
<1>5. \A s \in Drawn : /\ sess[s] \in SessionRow /\ sess'[s] \in SessionRow
                       /\ (sess'[s].revoked <=> (s \in ss \/ sess[s].revoked))
                       /\ sess'[s].parent = sess[s].parent /\ sess'[s].born = sess[s].born
                       /\ sess'[s].expires = sess[s].expires /\ (sess'[s].clean <=> sess[s].clean)
  <2>1. ASSUME NEW s \in Drawn PROVE sess[s] \in SessionRow /\ s \in Sids
    BY DEF Drawn, LoginTypeOK
  <2>2. ASSUME NEW s \in Drawn PROVE sess'[s] = IF s \in ss THEN [sess[s] EXCEPT !.revoked = TRUE] ELSE sess[s]
    BY <1>1, <2>1
  <2>3. ASSUME NEW x \in SessionRow
        PROVE  /\ [x EXCEPT !.revoked = TRUE] \in SessionRow /\ [x EXCEPT !.revoked = TRUE].revoked
               /\ [x EXCEPT !.revoked = TRUE].parent = x.parent /\ [x EXCEPT !.revoked = TRUE].born = x.born
               /\ [x EXCEPT !.revoked = TRUE].expires = x.expires
               /\ ([x EXCEPT !.revoked = TRUE].clean <=> x.clean)
    BY DEF SessionRow
  <2>4. ASSUME NEW s \in Drawn, s \in ss
        PROVE  /\ sess'[s] \in SessionRow /\ sess'[s].revoked
               /\ sess'[s].parent = sess[s].parent /\ sess'[s].born = sess[s].born
               /\ sess'[s].expires = sess[s].expires /\ (sess'[s].clean <=> sess[s].clean)
    <3>1. sess'[s] = [sess[s] EXCEPT !.revoked = TRUE]
      BY <2>2, <2>4
    <3>2. QED
      BY <2>1, <2>3, <3>1
  <2>5. QED
    BY <2>1, <2>2, <2>4
<1>6. sess' \in [Sids -> SessionRow \cup {NoRow}] /\ Drawn' = Drawn
  <2>1. \A s \in Sids \ Drawn : sess'[s] = NoRow
    BY <1>1 DEF Drawn
  <2>2. QED
    BY <1>1, <1>5, <2>1 DEF Drawn
<1>7. LoginTypeOK'
  BY <1>2, <1>4, <1>6 DEF LoginTypeOK
<1>8. RowsHeld'
  <2>1. \A g \in Callers : call'[g].op # "none" => call'[g] = call[g]
    BY <1>3, NoCallIsOne
  <2>2. ASSUME NEW g \in Callers, Mints(g)' PROVE Mints(g) /\ call'[g] = call[g]
    BY <2>1, <2>2 DEF Mints, At
  <2>3. ASSUME NEW g \in Callers, Mints(g)' PROVE Live(call[g].sid, call[g].at)'
    <3>1. call[g].sid \notin ss /\ call[g].sid \in Drawn /\ Live(call[g].sid, call[g].at)
      BY <1>1, <2>2, <2>3 DEF Locked, Mints, RowsHeld, Live
    <3>2. QED
      BY <1>5, <1>6, <2>2, <2>3, <3>1 DEF Live
  <2>4. QED
    BY <1>6, <2>1, <2>2, <2>3 DEF RowsHeld
<1>9. Lineage'
  <2>1. ASSUME NEW r \in Drawn, sess[r].parent # NoRow
        PROVE  /\ sess'[r].parent \in Drawn /\ sess'[sess'[r].parent].revoked
               /\ sess'[r].clean /\ sess'[r].born < sess'[sess'[r].parent].expires
    BY <1>5, <2>1 DEF Lineage
  <2>2. \A r \in Drawn : sess'[r].parent = sess[r].parent
    BY <1>5
  <2>3. QED
    BY <1>6, <2>1, <2>2 DEF Lineage
<1>10. QED
  BY <1>7, <1>8, <1>9

\* There is no session and no failed login at first.
LEMMA SessionsStart == SessionsInit => LoginsInv
<1> SUFFICES ASSUME SessionsInit PROVE LoginsInv
  OBVIOUS
<1> USE LoginConstants DEF SessionsInit
<1>1. Drawn = {}
  BY DEF Drawn
<1>2. LoginTypeOK
  BY NoCallIsOne DEF LoginTypeOK
<1>3. RowsHeld /\ Lineage
  BY <1>1, NoCallIsOne DEF RowsHeld, Lineage, Mints, At
<1>4. ASSUME NEW k \in Keys PROVE Budget(k)
  <2>1. Cardinality(Callers) \in Nat \ {0}
    BY LoginAssumption, FS_CardinalityType, FS_EmptySet
  <2>2. late[k] = 0 /\ ~IsLocked(k)
    BY DEF IsLocked
  <2>3. QED
    BY <2>1, <2>2 DEF Budget
<1>5. QED
  BY <1>2, <1>3, <1>4 DEF LoginsInv, SessionsInv

\* Nobody passes the check of a locked key, so whoever leaves its throttle alone leaves
\* its budget alone.
LEMMA OthersKeepBudget ==
    ASSUME LoginTypeOK, LoginTypeOK', NEW k \in Keys, Budget(k),
           throttle'[k] = throttle[k], late'[k] = late[k], now <= now',
           IsLocked(k) => Past(k)' \subseteq Past(k)
    PROVE  Budget(k)'
<1>1. IsLocked(k)' => IsLocked(k)
  BY LoginConstants DEF IsLocked, LoginTypeOK, ThrottleRow
<1>2. CASE ~IsLocked(k)
  BY <1>1, <1>2 DEF Budget
<1>3. CASE IsLocked(k)
  <2>1. IsFiniteSet(Past(k)) /\ IsFiniteSet(Past(k)')
    BY LoginAssumption, FS_Subset DEF Past
  <2>2. /\ Cardinality(Past(k)') <= Cardinality(Past(k))
        /\ Cardinality(Past(k)) \in Nat /\ Cardinality(Past(k)') \in Nat
        /\ Cardinality(Callers) \in Nat
    BY <1>3, <2>1, LoginAssumption, FS_Subset, FS_CardinalityType
  <2>3. late[k] \in Nat
    BY DEF LoginTypeOK
  <2>4. QED
    BY <1>3, <2>2, <2>3 DEF Budget
<1>4. QED
  BY <1>2, <1>3

\* A failure that is recorded uses up the login that was past the check.
LEMMA FailureKeepsBudget ==
    ASSUME LoginTypeOK, LoginTypeOK', NEW k \in Keys, Budget(k), NEW h \in Past(k), RecordFailure(k),
           Past(k)' \subseteq Past(k) \ {h}
    PROVE  Budget(k)'
<1>1. IsFiniteSet(Callers) /\ IsFiniteSet(Past(k)) /\ IsFiniteSet(Past(k)') /\ IsFiniteSet(Past(k) \ {h})
  BY LoginAssumption, FS_Subset DEF Past
<1>2. /\ Cardinality(Past(k)) \in Nat /\ Cardinality(Past(k)') \in Nat /\ Cardinality(Callers) \in Nat
      /\ Cardinality(Past(k) \ {h}) = Cardinality(Past(k)) - 1
      /\ Cardinality(Past(k)') <= Cardinality(Past(k) \ {h})
  BY <1>1, FS_CardinalityType, FS_RemoveElement, FS_Subset
<1>3. Cardinality(Past(k)) <= Cardinality(Callers)
  BY <1>1, FS_Subset DEF Past
<1>4. late[k] \in Nat /\ late'[k] = IF IsLocked(k) THEN late[k] + 1 ELSE 0
  BY DEF LoginTypeOK, RecordFailure, IsLocked
<1>5. CASE IsLocked(k)
  BY <1>2, <1>4, <1>5 DEF Budget
<1>6. CASE ~IsLocked(k)
  BY <1>2, <1>3, <1>4, <1>6 DEF Budget
<1>7. QED
  BY <1>5, <1>6

\* A success clears the key.
LEMMA SuccessKeepsBudget ==
    ASSUME LoginTypeOK, NEW k \in Keys, RecordSuccess(k) PROVE Budget(k)'
<1>1. late'[k] = 0 /\ throttle'[k] = NoRow
  BY DEF LoginTypeOK, RecordSuccess
<1>2. Cardinality(Callers) \in Nat \ {0}
  BY LoginAssumption, FS_CardinalityType, FS_EmptySet
<1>3. QED
  BY <1>1, <1>2 DEF Budget, IsLocked

\* What is recorded on a key leaves the other one alone.
LEMMA OtherKeySame ==
    ASSUME LoginTypeOK, NEW j \in Keys, NEW k \in Keys, j # k, RecordFailure(j) \/ RecordSuccess(j)
    PROVE  throttle'[k] = throttle[k] /\ late'[k] = late[k]
BY DEF LoginTypeOK, RecordFailure, RecordSuccess

\* Every statement keeps the budget of both keys.
LEMMA BudgetKept ==
    ASSUME LoginsInv, [SessionsNext]_sessionVars, LoginTypeOK', NEW k \in Keys
    PROVE  Budget(k)'
<1> USE LoginConstants DEF LoginsInv, SessionsInv
<1>1. ASSUME UNCHANGED <<throttle, late>>, now <= now', IsLocked(k) => Past(k)' \subseteq Past(k)
      PROVE  Budget(k)'
  BY <1>1, OthersKeepBudget
<1>2. ASSUME NEW h \in Callers, call' = [call EXCEPT ![h] = call'[h]], now' = now,
             UNCHANGED <<throttle, late>>,
             IsLocked(k) => h \notin Past(k)' \/ h \in Past(k)
      PROVE  Budget(k)'
  <2>1. \A g \in Callers \ {h} : call'[g] = call[g]
    BY <1>2 DEF LoginTypeOK
  <2>2. IsLocked(k) => Past(k)' \subseteq Past(k)
    BY <1>2, <2>1 DEF Past
  <2>3. QED
    BY <1>1, <1>2, <2>2 DEF LoginTypeOK
<1>3. ASSUME NEW h \in Callers, NEW pw \in {0, 1}, NEW known \in BOOLEAN, LoginBegin(h, pw, known)
      PROVE  Budget(k)'
  <2>1. IsLocked("ip") => FALSE
    BY <1>3 DEF LoginBegin
  <2>2. k = "acct" => h \notin Past(k)'
    BY <1>3 DEF LoginBegin, Past, Beyond, LoginTypeOK
  <2>3. QED
    BY <1>2, <1>3, <2>1, <2>2 DEF LoginBegin, Keys, LoginTypeOK
<1>4. ASSUME NEW h \in Callers, LoginAccount(h) \/ Verify(h)
      PROVE  Budget(k)'
  <2>1. h \in Past("ip")
    BY <1>4 DEF LoginAccount, Verify, At, Past, Beyond, LoginSteps
  <2>2. IsLocked("acct") => h \notin Past("acct")' \/ h \in Past("acct")
    <3>1. CASE Verify(h)
      BY <3>1 DEF Verify, At, Past, Beyond
    <3>2. CASE LoginAccount(h) /\ IsLocked("acct")
      BY <3>2, NoCallIsOne DEF LoginAccount, Answered, LoginTypeOK, Past
    <3>3. QED
      BY <1>4, <3>1, <3>2
  <2>3. call' = [call EXCEPT ![h] = call'[h]]
    BY <1>4 DEF LoginAccount, Verify, Answered, Goes, LoginTypeOK
  <2>4. QED
    BY <1>2, <1>4, <2>1, <2>2, <2>3 DEF LoginAccount, Verify, Keys
<1>5. ASSUME NEW h \in Callers, NoteAccount(h) PROVE Budget(k)'
  <2>1. /\ \A g \in Callers \ {h} : call'[g] = call[g]
        /\ call'[h].op = "login" /\ call'[h].step \in {"clear ip", "fail ip"}
        /\ call[h].op = "login" /\ call[h].step \in {"clear acct", "fail acct"}
    <3>1. PICK st \in {"clear ip", "fail ip"} : Goes(h, st) /\ At(h, "login", call[h].step)
                                               /\ call[h].step \in {"clear acct", "fail acct"}
      BY <1>5 DEF NoteAccount, At
    <3>2. call[h] \in [op : {"login"}, step : LoginSteps, pw : {0, 1}]
      BY <3>1 DEF LoginTypeOK, LoginCalls, At
    <3>3. QED
      BY <3>1, <3>2 DEF Goes, At, LoginTypeOK
  <2>2. k = "acct" => h \in Past(k) /\ Past(k)' \subseteq Past(k) \ {h}
    BY <2>1 DEF Past, Beyond
  <2>3. k = "ip" => Past(k)' \subseteq Past(k)
    BY <2>1 DEF Past, Beyond, LoginSteps
  <2>4. k = "ip" => throttle'[k] = throttle[k] /\ late'[k] = late[k] /\ now <= now'
    <3>1. RecordFailure("acct") \/ RecordSuccess("acct")
      BY <1>5 DEF NoteAccount
    <3>2. "acct" \in Keys /\ "ip" \in Keys /\ "acct" # "ip"
      BY DEF Keys
    <3>3. now <= now'
      <4>1. now' = now
        BY <1>5 DEF NoteAccount
      <4>2. now \in Nat
        BY DEF LoginTypeOK
      <4>3. QED
        BY <4>1, <4>2
    <3>4. QED
      BY <3>1, <3>2, <3>3, OtherKeySame
  <2>5. CASE k = "ip"
    BY <2>3, <2>4, <2>5, OthersKeepBudget
  <2>6. CASE k = "acct"
    BY <1>5, <2>2, <2>6, FailureKeepsBudget, SuccessKeepsBudget DEF NoteAccount
  <2>7. QED
    BY <2>5, <2>6 DEF Keys
<1>6. ASSUME NEW h \in Callers, NoteAddress(h) PROVE Budget(k)'
  <2>1. /\ \A g \in Callers \ {h} : call'[g] = call[g]
        /\ call'[h].step \in {"session", "none"}
        /\ call[h].op = "login" /\ call[h].step \in {"clear ip", "fail ip"}
    <3>1. /\ Goes(h, "session") \/ Answered(h)
          /\ call[h].op = "login" /\ call[h].step \in {"clear ip", "fail ip"}
      BY <1>6 DEF NoteAddress, At
    <3>2. call[h] \in [op : {"login"}, step : LoginSteps, pw : {0, 1}]
      BY <3>1 DEF LoginTypeOK, LoginCalls
    <3>3. CASE Goes(h, "session")
      BY <3>1, <3>2, <3>3 DEF Goes, LoginTypeOK
    <3>4. CASE Answered(h)
      BY <3>1, <3>4, NoCallIsOne DEF Answered, LoginTypeOK
    <3>5. QED
      BY <3>1, <3>3, <3>4
  <2>2. k = "ip" => h \in Past(k) /\ Past(k)' \subseteq Past(k) \ {h}
    BY <2>1 DEF Past, Beyond, LoginSteps
  <2>3. k = "acct" => Past(k)' \subseteq Past(k)
    BY <2>1 DEF Past, Beyond
  <2>4. k = "acct" => throttle'[k] = throttle[k] /\ late'[k] = late[k] /\ now <= now'
    <3>1. RecordFailure("ip") \/ RecordSuccess("ip")
      BY <1>6 DEF NoteAddress
    <3>2. "acct" \in Keys /\ "ip" \in Keys /\ "acct" # "ip"
      BY DEF Keys
    <3>3. now <= now'
      <4>1. now' = now
        BY <1>6 DEF NoteAddress
      <4>2. now \in Nat
        BY DEF LoginTypeOK
      <4>3. QED
        BY <4>1, <4>2
    <3>4. QED
      BY <3>1, <3>2, <3>3, OtherKeySame
  <2>5. CASE k = "acct"
    BY <2>3, <2>4, <2>5, OthersKeepBudget
  <2>6. CASE k = "ip"
    BY <1>6, <2>2, <2>6, FailureKeepsBudget, SuccessKeepsBudget DEF NoteAddress
  <2>7. QED
    BY <2>5, <2>6 DEF Keys
<1>7. ASSUME NEW h \in Callers,
             \/ CreateSession(h) \/ Rotated(h) \/ RevokeAll(h) \/ ResetPassword(h) \/ Rotate(h)
             \/ \E s \in Sids : Refresh(h, s)
      PROVE  Budget(k)'
  <2>1. call' = [call EXCEPT ![h] = call'[h]] /\ now' = now /\ UNCHANGED <<throttle, late>>
    BY <1>7 DEF CreateSession, Rotated, RevokeAll, ResetPassword, Rotate, Refresh, RevokeFound, Goes,
                Answered, LoginTypeOK
  <2>2. call'[h].op # "login"
    <3>1. CASE Rotate(h) /\ Live(call[h].sid, call[h].at)
      <4>1. call'[h] = [call[h] EXCEPT !.step = "mint"] /\ call[h].op = "refresh" /\ call[h] \in LoginCalls
        BY <3>1 DEF Rotate, Goes, At, LoginTypeOK
      <4>2. QED
        BY <4>1 DEF LoginCalls
    <3>2. CASE ~(Rotate(h) /\ Live(call[h].sid, call[h].at))
      <4>1. CASE Answered(h)
        BY <4>1, NoCallIsOne DEF Answered, LoginTypeOK
      <4>2. ASSUME NEW rs \in BOOLEAN, RevokeFound(h, rs) PROVE call'[h].op # "login"
        BY <4>2 DEF RevokeFound, LoginTypeOK
      <4>3. CASE \E s \in Sids : Refresh(h, s)
        BY <4>3 DEF Refresh, LoginTypeOK
      <4>4. QED
        BY <1>7, <3>2, <4>1, <4>2, <4>3 DEF CreateSession, Rotated, RevokeAll, ResetPassword, Rotate
    <3>3. QED
      BY <3>1, <3>2
  <2>3. QED
    BY <1>2, <2>1, <2>2 DEF Past
<1>8. CASE (\E s \in Sids : Logout(s)) \/ Deactivate \/ Tick \/ UNCHANGED sessionVars
  <2>1. UNCHANGED <<throttle, late, call>> /\ now <= now'
    BY <1>8 DEF Logout, Deactivate, Tick, sessionVars, LoginTypeOK
  <2>2. QED
    BY <1>1, <2>1 DEF Past
<1>9. QED
  BY <1>3, <1>4, <1>5, <1>6, <1>7, <1>8 DEF SessionsNext

\* However logins, rotations, revocations and resets interleave: who has a session's row
\* has it alone, who comes from a session is its only successor, and a locked key has a
\* budget of failures.
THEOREM SessionsInvariant == SessionsSpec => []LoginsInv
<1>1. LoginsInv /\ [SessionsNext]_sessionVars => LoginsInv'
  <2> SUFFICES ASSUME LoginsInv, [SessionsNext]_sessionVars PROVE LoginsInv'
    OBVIOUS
  <2>1. SessionsInv
    BY DEF LoginsInv
  <2>2. ASSUME Deactivate \/ Tick \/ UNCHANGED sessionVars PROVE SessionsInv'
    <3>1. /\ UNCHANGED <<throttle, late, sess, call>>
          /\ now' \in Nat /\ user' \in [active : BOOLEAN, pw : {0, 1}]
      <4>1. CASE Deactivate
        BY <2>1, <4>1 DEF SessionsInv, LoginTypeOK, Deactivate
      <4>2. CASE Tick
        BY <2>1, <4>2 DEF SessionsInv, LoginTypeOK, Tick
      <4>3. CASE UNCHANGED sessionVars
        BY <2>1, <4>3 DEF SessionsInv, LoginTypeOK, sessionVars
      <4>4. QED
        BY <2>2, <4>1, <4>2, <4>3
    <3>2. LoginTypeOK'
      BY <2>1, <3>1 DEF SessionsInv, LoginTypeOK
    <3>3. RowsHeld' /\ Lineage'
      BY <2>1, <3>1 DEF SessionsInv, RowsHeld, Lineage, Mints, At, Live, Drawn
    <3>4. QED
      BY <3>2, <3>3 DEF SessionsInv
  <2>3. SessionsInv'
    BY <2>1, <2>2, LoginKeeps, MintKeeps, RotateKeeps, RevokeKeeps DEF SessionsNext
  <2>4. LoginTypeOK'
    BY <2>3 DEF SessionsInv
  <2>5. \A k \in Keys : Budget(k)'
    BY <2>4, BudgetKept
  <2>6. QED
    BY <2>3, <2>5 DEF LoginsInv, Keys
<1>2. QED
  BY <1>1, SessionsStart, PTL DEF SessionsSpec

\* A refresh session has one successor, got while it was live, however many requests
\* present its token at once, and a key that is locked takes the failures only of the
\* logins that were past its check, however many there are (rotate, is_locked).
THEOREM LoginsAreSound == SessionsSpec => []LoginsSound
<1>1. LoginsInv => LoginsSound
  <2> SUFFICES ASSUME LoginsInv PROVE LoginsSound
    OBVIOUS
  <2> USE LoginConstants DEF LoginsInv, SessionsInv
  <2>1. OneSuccessor
    <3> SUFFICES ASSUME NEW s \in Drawn
                 PROVE  LET heirs == {r \in Drawn : sess[r].parent = s}
                        IN /\ Cardinality(heirs) <= 1
                           /\ \A r \in heirs : sess[s].revoked /\ sess[r].clean /\ sess[r].born < sess[s].expires
      BY DEF OneSuccessor
    <3> DEFINE heirs == {r \in Drawn : sess[r].parent = s}
    <3>1. s # NoRow
      BY DEF Drawn
    <3>2. \A r \in heirs : sess[s].revoked /\ sess[r].clean /\ sess[r].born < sess[s].expires
      BY <3>1 DEF Lineage
    <3>3. \A q, r \in heirs : q = r
      BY <3>1 DEF Lineage
    <3> HIDE DEF heirs
    <3>4. Cardinality(heirs) <= 1
      <4>1. CASE heirs = {}
        BY <4>1, FS_EmptySet
      <4>2. ASSUME NEW r \in heirs PROVE Cardinality(heirs) <= 1
        <5>1. heirs = {r}
          BY <3>3
        <5>2. Cardinality({r}) = 1
          BY FS_Singleton
        <5>3. QED
          BY <5>1, <5>2
      <4>3. QED
        BY <4>1, <4>2
    <3>5. QED
      BY <3>2, <3>4 DEF heirs
  <2>2. LockStops
    BY DEF Budget, LockStops
  <2>3. QED
    BY <2>1, <2>2 DEF LoginsSound
<1>2. QED
  BY <1>1, SessionsInvariant, PTL

-----------------------------------------------------------------------------
(* Records *)

ArchiveRow == [at : Nat, rec : RecordRow]

AuditRow ==
    [op : {"create", "update"}, at : Nat, before : RecordRow \cup {Null}, after : RecordRow,
     base : RecordRow \cup {Null}]
    \cup [op : {"delete"}, at : Nat, before : RecordRow \cup {Null}, after : {Null},
          base : RecordRow \cup {Null}]

Transactions ==
    [op : {"create", "update", "delete", "restore"}, step : {"read", "write"}, id : Ids, at : Nat,
     body : Bodies, base : RecordRow \cup {Null}, before : RecordRow \cup {Null}]

StoreTypeOK ==
    /\ def \in Defs
    /\ row \in [Ids -> RecordRow \cup {Null}]
    /\ archive \in [Ids -> Seq(ArchiveRow)]
    /\ audit \in [Ids -> Seq(AuditRow)]
    /\ tx \in [Writers -> Transactions \cup {NoTx}]
    /\ clock \in Nat

\* Transactions have times of their own, and the archive has each at most once for a
\* record; one of its rows has the latest.
TimesDiffer ==
    /\ \A w \in Writers : tx[w] # NoTx =>
          /\ tx[w].at < clock
          /\ \A v \in Writers \ {w} : tx[v] # NoTx => tx[v].at # tx[w].at
          /\ \A id \in Ids : \A k \in DOMAIN archive[id] : archive[id][k].at # tx[w].at
    /\ \A id \in Ids : \A k \in DOMAIN archive[id] : archive[id][k].at < clock
    /\ \A id \in Ids : \A j, k \in DOMAIN archive[id] : j # k => archive[id][j].at # archive[id][k].at

HasLatest(rows_) == \E k \in DOMAIN rows_ : \A l \in DOMAIN rows_ : rows_[l].at <= rows_[k].at

LatestThere == \A id \in Ids : archive[id] # <<>> => HasLatest(archive[id])

\* A record begins with its log; whoever creates it is alone with it.
BeginsLogged ==
    /\ \A id \in Ids : audit[id] = <<>> => row[id] = Null /\ archive[id] = <<>>
    /\ \A w \in Writers : tx[w].op = "create" =>
          /\ audit[tx[w].id] = <<>>
          /\ \A v \in Writers \ {w} : tx[v] # NoTx => tx[v].id # tx[w].id

NeverEmpty ==
    def.required =>
        \A id \in Ids : /\ row[id] # Null => row[id].val # Null
                        /\ \A k \in DOMAIN archive[id] : archive[id][k].rec.val # Null

\* A restore that has chosen its archived row is to write no empty required field.
Fetched ==
    \A w \in Writers : tx[w].op = "restore" /\ tx[w].step = "write" =>
        /\ archive[tx[w].id] # <<>>
        /\ tx[w].before \in RecordRow /\ (def.required => tx[w].before.val # Null)

\* The images of a record in its log.
Wrote(id) == {k \in DOMAIN audit[id] : audit[id][k].op # "delete"}
Audited(id, k) == audit[id][k].after
Known(id, x) == \E k \in Wrote(id) : Audited(id, k).ver = x.ver /\ Audited(id, k).val = x.val

\* The version that the record has or was archived with.
UpTo(id, v) ==
    /\ row[id] # Null => v <= row[id].ver
    /\ row[id] = Null /\ archive[id] # <<>> => v <= archive[id][Len(archive[id])].rec.ver

\* An update that sends a version its client has seen sends that of an image in the log,
\* and has read that one or a later one.
UpdateKnown(w) ==
    LET t == tx[w] IN t.base.val # Absent =>
    /\ t.base \in RecordRow /\ Known(t.id, t.base)
    /\ t.step = "write" =>
          IF t.before # Null THEN Known(t.id, t.before) /\ t.base.ver <= t.before.ver
          ELSE row[t.id] # Null => t.base.ver < row[t.id].ver

Climbs(id) == \A j, k \in Wrote(id) : j < k => Audited(id, j).ver < Audited(id, k).ver
Honest(id) == \A k \in DOMAIN audit[id] :
                 audit[id][k].op = "update" /\ audit[id][k].base.val # Absent =>
                 /\ audit[id][k].before.ver = audit[id][k].base.ver
                 /\ audit[id][k].before.val = audit[id][k].base.val

InOrder(id) ==
    ~Rewindable(id) =>
        /\ Climbs(id) /\ Honest(id)
        /\ row[id] # Null => Known(id, row[id])
        /\ \A k \in Wrote(id) : UpTo(id, Audited(id, k).ver)
        /\ \A w \in Writers : tx[w].op = "update" /\ tx[w].id = id => UpdateKnown(w)

StoreInv ==
    /\ StoreTypeOK /\ TimesDiffer /\ LatestThere /\ BeginsLogged /\ NeverEmpty /\ Fetched
    /\ \A id \in Ids : InOrder(id)

\* What Append does to a sequence.
LEMMA AppendElements ==
    ASSUME NEW S, NEW s \in Seq(S), NEW e \in S
    PROVE  /\ Append(s, e) \in Seq(S) /\ Append(s, e) # <<>>
           /\ Len(s) \in Nat /\ Len(Append(s, e)) = Len(s) + 1
           /\ DOMAIN s = 1 .. Len(s) /\ DOMAIN Append(s, e) = 1 .. Len(s) + 1
           /\ \A k \in DOMAIN s : Append(s, e)[k] = s[k] /\ s[k] \in S
           /\ Append(s, e)[Len(s) + 1] = e
           /\ s = <<>> <=> Len(s) = 0
OBVIOUS

\* The rows of the log, by what they say.
LEMMA AuditRows ==
    ASSUME NEW e \in AuditRow
    PROVE  /\ e.op \in {"create", "update", "delete"} /\ e.at \in Nat
           /\ e.op # "delete" => e.after \in RecordRow
           /\ e.before \in RecordRow \cup {Null} /\ e.base \in RecordRow \cup {Null}
BY DEF AuditRow

\* A transaction in flight is not an idle one.
LEMMA TransactionFields ==
    ASSUME NEW t \in Transactions \cup {NoTx}
    PROVE  /\ t # NoTx => t \in Transactions
           /\ t.op # "none" \/ t.step # "none" => t \in Transactions
           /\ t \in Transactions =>
                 /\ t # NoTx /\ t.op \in {"create", "update", "delete", "restore"}
                 /\ t.step \in {"read", "write"} /\ t.id \in Ids /\ t.at \in Nat /\ t.body \in Bodies
                 /\ t.base \in RecordRow \cup {Null} /\ t.before \in RecordRow \cup {Null}
BY DEF Transactions, NoTx

\* The archived row with the latest time is one of the archive.
LEMMA LatestIsThere ==
    ASSUME NEW s \in Seq(ArchiveRow), HasLatest(s)
    PROVE  \E k \in DOMAIN s : LatestOf(s) = s[k] /\ \A l \in DOMAIN s : s[l].at <= s[k].at
<1>1. PICK k \in DOMAIN s : \A l \in DOMAIN s : s[l].at <= s[k].at
  BY DEF HasLatest
<1> QED
  BY <1>1 DEF LatestOf

\* Appending a row leaves a latest one.
LEMMA LatestAppended ==
    ASSUME NEW s \in Seq(ArchiveRow), NEW e \in ArchiveRow, s = <<>> \/ HasLatest(s)
    PROVE  HasLatest(Append(s, e))
<1>0. /\ DOMAIN s = 1 .. Len(s) /\ DOMAIN Append(s, e) = 1 .. Len(s) + 1 /\ Len(s) \in Nat
      /\ \A k \in DOMAIN s : Append(s, e)[k] = s[k] /\ s[k] \in ArchiveRow
      /\ Append(s, e)[Len(s) + 1] = e
      /\ s = <<>> <=> Len(s) = 0
  BY AppendElements
<1>1. /\ DOMAIN s = 1 .. Len(s) /\ DOMAIN Append(s, e) = 1 .. Len(s) + 1 /\ Len(s) \in Nat
      /\ \A k \in DOMAIN s : Append(s, e)[k] = s[k] /\ s[k].at \in Nat
      /\ Append(s, e)[Len(s) + 1] = e /\ e.at \in Nat
      /\ s = <<>> <=> Len(s) = 0
  BY <1>0 DEF ArchiveRow
<1>2. CASE s = <<>>
  BY <1>1, <1>2 DEF HasLatest
<1>3. CASE HasLatest(s)
  <2>1. PICK k \in DOMAIN s : \A l \in DOMAIN s : s[l].at <= s[k].at
    BY <1>3 DEF HasLatest
  <2>2. CASE e.at <= s[k].at
    <3>1. k \in DOMAIN Append(s, e) /\ Append(s, e)[k] = s[k]
      BY <1>1
    <3>2. \A l \in DOMAIN Append(s, e) : Append(s, e)[l].at <= s[k].at
      BY <1>1, <2>1, <2>2
    <3> QED
      BY <3>1, <3>2 DEF HasLatest
  <2>3. CASE s[k].at < e.at
    <3>1. \A l \in DOMAIN Append(s, e) : Append(s, e)[l].at <= e.at
      BY <1>1, <2>1, <2>3
    <3>2. Len(s) + 1 \in DOMAIN Append(s, e) /\ Append(s, e)[Len(s) + 1].at = e.at
      BY <1>1
    <3> QED
      BY <3>1, <3>2 DEF HasLatest
  <2> QED
    BY <2>2, <2>3, <1>1
<1> QED
  BY <1>2, <1>3

\* The store starts with no record.
LEMMA StoreStart == StoreInit => StoreInv
<1> SUFFICES ASSUME StoreInit PROVE StoreInv
  OBVIOUS
<1> USE DEF StoreInit, NoTx
<1>1. StoreTypeOK
  BY DEF StoreTypeOK
<1>2. TimesDiffer /\ LatestThere /\ BeginsLogged /\ NeverEmpty
  BY DEF TimesDiffer, LatestThere, BeginsLogged, NeverEmpty
<1>4. Fetched
  BY DEF Fetched
<1>3. ASSUME NEW id \in Ids PROVE InOrder(id)
  BY DEF InOrder, Climbs, Honest, Wrote, UpdateKnown
<1> QED
  BY <1>1, <1>2, <1>3, <1>4 DEF StoreInv

\* An image of a record is a row of its log.
LEMMA ImagesInLog ==
    ASSUME StoreTypeOK, NEW id \in Ids, NEW x \in Images(id)
    PROVE  x \in RecordRow /\ audit[id] # <<>> /\ Known(id, x)
<1>1. audit[id] \in Seq(AuditRow)
  BY DEF StoreTypeOK
<1>2. PICK k \in DOMAIN audit[id] : audit[id][k].op # "delete" /\ x = audit[id][k].after
  BY DEF Images
<1>3. audit[id][k] \in AuditRow /\ audit[id] # <<>>
  BY <1>1, <1>2
<1>4. x \in RecordRow
  BY <1>2, <1>3, AuditRows
<1> QED
  BY <1>2, <1>3, <1>4 DEF Known, Wrote, Audited

\* What a transaction is to write is a row of the table.
LEMMA RowsWritten ==
    ASSUME StoreTypeOK, NEW t \in Transactions
    PROVE  /\ [ver |-> 1, val |-> Cleared(Given(t.body.val)), ref |-> Cleared(t.body.ref)] \in RecordRow
           /\ Merged(t.body, t.before).val \in Vals \cup {Null, Absent}
           /\ Merged(t.body, t.before).ref \in Parents \cup {Null, Absent}
<1>1. t.body \in Bodies /\ t.before \in RecordRow \cup {Null} /\ def.default \in Vals \cup {Null, Absent}
  BY StoreAssumption, TransactionFields DEF StoreTypeOK
<1>2. t.body.val \in Vals \cup {Null, Absent} /\ t.body.ref \in Parents \cup {Null, Absent}
  BY <1>1 DEF Bodies
<1>3. Cleared(Given(t.body.val)) \in Vals \cup {Null, Absent} /\ Cleared(t.body.ref) \in Parents \cup {Null, Absent}
  BY <1>1, <1>2 DEF Cleared, Given
<1> QED
  BY <1>1, <1>2, <1>3 DEF RecordRow, Merged

\* What each step that begins a transaction does.
Begun(w, t) ==
    /\ t \in Transactions /\ tx[w] = NoTx /\ t.at = clock /\ t.before = Null
    /\ tx' = [tx EXCEPT ![w] = t] /\ clock' = clock + 1
    /\ UNCHANGED <<def, row, archive, audit, answer, misrestored>>

\* A transaction begins with what its request says.
LEMMA TransactionBegins ==
    ASSUME StoreTypeOK, NEW w \in Writers, NEW op \in {"create", "update", "delete", "restore"},
           NEW step \in {"read", "write"}, NEW id \in Ids, NEW body \in Bodies,
           NEW base \in RecordRow \cup {Null}, BeginTx(w, op, step, id, body, base)
    PROVE  \E t \in Transactions : /\ Begun(w, t) /\ t.op = op /\ t.step = step /\ t.id = id
                                   /\ t.base = base
<1> DEFINE t == [op |-> op, step |-> step, id |-> id, at |-> clock, body |-> body, base |-> base,
                 before |-> Null]
<1>1. t \in Transactions
  BY DEF Transactions, StoreTypeOK
<1>2. Begun(w, t)
  BY <1>1 DEF BeginTx, Begun
<1> QED
  BY <1>1, <1>2

\* The five ways to begin, with what each knows of its record.
LEMMA BeginKinds ==
    ASSUME StoreTypeOK, NEW w \in Writers, NEW id \in Ids,
           \/ BeginDelete(w, id) \/ BeginRestore(w, id)
           \/ \E b \in Bodies : \/ BeginCreate(w, id, b) \/ BeginMassUpdate(w, id, b)
                               \/ \E i \in Images(id) \cup Unseen : BeginUpdate(w, id, b, i)
    PROVE  \E t \in Transactions :
              /\ Begun(w, t) /\ t.id = id
              /\ \/ t.op \in {"delete", "restore"} /\ t.step = "read" /\ audit[id] # <<>>
                 \/ t.op = "create" /\ audit[id] = <<>> /\ \A v \in Writers : tx[v].id # id
                 \/ t.op = "update" /\ t.step = "read" /\ t.base \in RecordRow
                       /\ (t.base.val # Absent => Known(id, t.base)) /\ audit[id] # <<>>
                 \/ t.op = "update" /\ t.step = "read" /\ t.base = row[id] /\ row[id] # Null
<1>0. NoBody \in Bodies
  BY DEF NoBody, Bodies
<1>1. CASE BeginDelete(w, id)
  BY <1>0, <1>1, TransactionBegins DEF BeginDelete
<1>2. CASE BeginRestore(w, id)
  BY <1>0, <1>2, TransactionBegins DEF BeginRestore
<1>3. ASSUME NEW b \in Bodies, BeginCreate(w, id, b)
      PROVE  \E t \in Transactions :
                /\ Begun(w, t) /\ t.id = id
                /\ t.op = "create" /\ audit[id] = <<>> /\ \A v \in Writers : tx[v].id # id
  BY <1>3, TransactionBegins DEF BeginCreate
<1>4. ASSUME NEW b \in Bodies, BeginMassUpdate(w, id, b)
      PROVE  \E t \in Transactions :
                /\ Begun(w, t) /\ t.id = id
                /\ t.op = "update" /\ t.step = "read" /\ t.base = row[id] /\ row[id] # Null
  <2>1. row[id] \in RecordRow \cup {Null}
    BY DEF StoreTypeOK
  <2> QED
    BY <1>4, <2>1, TransactionBegins DEF BeginMassUpdate, Gone
<1>5. ASSUME NEW b \in Bodies, NEW i \in Images(id) \cup Unseen, BeginUpdate(w, id, b, i)
      PROVE  \E t \in Transactions :
                /\ Begun(w, t) /\ t.id = id
                /\ t.op = "update" /\ t.step = "read" /\ t.base \in RecordRow
                /\ (t.base.val # Absent => Known(id, t.base)) /\ audit[id] # <<>>
  <2>1. i \in RecordRow /\ audit[id] # <<>> /\ (i.val # Absent => Known(id, i))
    <3>1. CASE i \in Images(id)
      BY <1>5, <3>1, ImagesInLog DEF BeginUpdate
    <3>2. CASE i \in Unseen
      BY <1>5, <3>2, StoreAssumption DEF BeginUpdate, Unseen, RecordRow
    <3> QED
      BY <3>1, <3>2
  <2>2. BeginTx(w, "update", "read", id, b, i)
    BY <1>5 DEF BeginUpdate
  <2>3. PICK t \in Transactions : Begun(w, t) /\ t.op = "update" /\ t.step = "read" /\ t.id = id /\ t.base = i
    BY <2>1, <2>2, TransactionBegins
  <2> QED
    BY <2>1, <2>3
<1> QED
  BY <1>1, <1>2, <1>3, <1>4, <1>5

\* What a step that ends a transaction does to it.
Ended(w) ==
    /\ tx[w] \in Transactions /\ tx' = [tx EXCEPT ![w] = NoTx]
    /\ misrestored \subseteq misrestored' /\ UNCHANGED <<def, clock>>

\* A write that leaves the record with a new image, which it logs.
NewImage(w, e) ==
    /\ Ended(w) /\ tx[w].step = "write" /\ e \in AuditRow /\ e.op # "delete"
    /\ def.required => e.after.val # Null
    /\ row' = [row EXCEPT ![tx[w].id] = e.after]
    /\ audit' = [audit EXCEPT ![tx[w].id] = Append(@, e)]
    /\ archive' = archive

\* A write that was refused.
RefusedStep(w) == Ended(w) /\ UNCHANGED <<row, archive, audit>>

\* A refusal ends the transaction.
LEMMA Refusals ==
    ASSUME NEW w \in Writers, tx[w] \in Transactions, NEW why, Refuse(w, why)
    PROVE  RefusedStep(w)
BY DEF Refuse, RefusedStep, Ended

\* A row of the log, for a row of the table.
LEMMA LogsImage ==
    ASSUME StoreTypeOK, NEW t \in Transactions, NEW op \in {"create", "update"},
           NEW before \in RecordRow \cup {Null}, NEW rec \in RecordRow
    PROVE  [op |-> op, at |-> t.at, before |-> before, after |-> rec, base |-> t.base] \in AuditRow
BY TransactionFields DEF AuditRow

\* A create logs the first image of its record.
LEMMA CreateWrites ==
    ASSUME StoreInv, NEW w \in Writers, WriteCreate(w)
    PROVE  \/ RefusedStep(w)
           \/ \E e \in AuditRow : NewImage(w, e) /\ e.op = "create" /\ audit[tx[w].id] = <<>>
<1> DEFINE t == tx[w]
           rec == [ver |-> 1, val |-> Cleared(Given(t.body.val)), ref |-> Cleared(t.body.ref)]
           e == [op |-> "create", at |-> t.at, before |-> Null, after |-> rec, base |-> t.base]
<1>1. t \in Transactions /\ t.op = "create" /\ t.step = "write" /\ StoreTypeOK
  BY TransactionFields DEF WriteCreate, StoreInv, StoreTypeOK
<1>2. CASE ~ValidRecord(t.body) \/ ~Refers(rec.ref)
  BY <1>1, <1>2, Refusals DEF WriteCreate
<1>3. CASE ValidRecord(t.body) /\ Refers(rec.ref)
  <2>1. rec \in RecordRow /\ e \in AuditRow
    BY <1>1, RowsWritten, LogsImage
  <2>2. def.required => rec.val # Null
    BY <1>3 DEF ValidRecord, Cleared
  <2>3. /\ row' = [row EXCEPT ![t.id] = rec] /\ Logged(t, "create", Null, rec)
        /\ Done(w) /\ UNCHANGED <<def, archive, clock, misrestored>>
    BY <1>3 DEF WriteCreate
  <2>4. NewImage(w, e)
    BY <1>1, <2>1, <2>2, <2>3 DEF NewImage, Ended, Logged, Done
  <2>5. audit[t.id] = <<>>
    BY <1>1 DEF StoreInv, BeginsLogged
  <2> QED
    BY <2>1, <2>4, <2>5
<1> QED
  BY <1>2, <1>3

\* An update logs the successor of the version that its client sent.
LEMMA UpdateWrites ==
    ASSUME StoreInv, NEW w \in Writers, WriteUpdate(w)
    PROVE  \/ RefusedStep(w)
           \/ \E e \in AuditRow :
                 /\ NewImage(w, e) /\ e.op = "update" /\ tx[w].op = "update"
                 /\ e.before = tx[w].before /\ e.base = tx[w].base
                 /\ row[tx[w].id] \in RecordRow /\ row[tx[w].id].ver = tx[w].base.ver
                 /\ e.after.ver = row[tx[w].id].ver + 1
<1> DEFINE t == tx[w]
           old == row[t.id]
           ctx == Merged(t.body, t.before)
           rec == [ver |-> old.ver + 1, val |-> IF ctx.val = Absent THEN old.val ELSE ctx.val,
                   ref |-> IF ctx.ref = Absent THEN old.ref ELSE ctx.ref]
           e == [op |-> "update", at |-> t.at, before |-> t.before, after |-> rec, base |-> t.base]
<1>1. t \in Transactions /\ t.op = "update" /\ t.step = "write" /\ StoreTypeOK
  BY TransactionFields DEF WriteUpdate, StoreInv, StoreTypeOK
<1>2. CASE ~ValidRecord(ctx) \/ Numbered(t) \/ ~Matches(t, old) \/ ~Refers(ctx.ref)
  BY <1>1, <1>2, Refusals DEF WriteUpdate
<1>3. CASE ValidRecord(ctx) /\ ~Numbered(t) /\ Matches(t, old) /\ Refers(ctx.ref)
  <2>1. /\ old \in RecordRow /\ old.ver = t.base.ver /\ old # Null
        /\ old.ver \in Nat /\ old.val \in Vals \cup {Null, Absent} /\ old.ref \in Parents \cup {Null, Absent}
    BY <1>1, <1>3, TransactionFields DEF Matches, StoreTypeOK, RecordRow
  <2>2. /\ ctx.val \in Vals \cup {Null, Absent} /\ ctx.ref \in Parents \cup {Null, Absent}
        /\ t.before \in RecordRow \cup {Null}
    BY <1>1, RowsWritten, TransactionFields
  <2>3. rec \in RecordRow
    BY <2>1, <2>2 DEF RecordRow
  <2>4. e \in AuditRow
    BY <1>1, <2>2, <2>3, LogsImage
  <2>5. def.required => rec.val # Null
    BY <1>1, <1>3, <2>1, TransactionFields DEF ValidRecord, Given, StoreInv, NeverEmpty
  <2>6. /\ row' = [row EXCEPT ![t.id] = rec] /\ Logged(t, "update", t.before, rec)
        /\ Done(w) /\ UNCHANGED <<def, archive, clock, misrestored>>
    BY <1>3 DEF WriteUpdate
  <2>7. NewImage(w, e)
    BY <1>1, <2>4, <2>5, <2>6 DEF NewImage, Ended, Logged, Done
  <2> QED
    BY <1>1, <2>1, <2>4, <2>7
<1> QED
  BY <1>2, <1>3

\* A restore logs the successor of the version it has read, which is that of the latest
\* archived row unless the record is marked.
LEMMA RestoreWrites ==
    ASSUME StoreInv, NEW w \in Writers, WriteRestore(w)
    PROVE  \/ RefusedStep(w)
           \/ \E e \in AuditRow :
                 /\ NewImage(w, e) /\ e.op = "create" /\ row[tx[w].id] = Null
                 /\ tx[w].id \notin misrestored' =>
                       \E k \in DOMAIN archive[tx[w].id] :
                          /\ e.after.ver = archive[tx[w].id][k].rec.ver + 1
                          /\ \A l \in DOMAIN archive[tx[w].id] :
                                archive[tx[w].id][l].at <= archive[tx[w].id][k].at
<1> DEFINE t == tx[w]
           rec == Restored(t.before)
           e == [op |-> "create", at |-> t.at, before |-> Null, after |-> rec, base |-> t.base]
<1>1. t \in Transactions /\ t.op = "restore" /\ t.step = "write" /\ StoreTypeOK
  BY TransactionFields DEF WriteRestore, StoreInv, StoreTypeOK
<1>2. CASE ~Gone(t.id) \/ ~Refers(rec.ref)
  BY <1>1, <1>2, Refusals DEF WriteRestore
<1>3. CASE Gone(t.id) /\ Refers(rec.ref)
  <2>1. t.before \in RecordRow /\ (def.required => t.before.val # Null)
    BY <1>1 DEF StoreInv, Fetched
  <2>2. rec \in RecordRow /\ rec.ver = t.before.ver + 1 /\ rec.val = t.before.val
    BY <2>1 DEF Restored, RecordRow
  <2>3. e \in AuditRow
    BY <1>1, <2>2, LogsImage
  <2>4. /\ row' = [row EXCEPT ![t.id] = rec] /\ Logged(t, "create", Null, rec)
        /\ misrestored' = misrestored \cup
              (IF t.before = LatestOf(archive[t.id]).rec THEN {} ELSE {t.id})
        /\ Done(w) /\ UNCHANGED <<def, archive, clock>>
    BY <1>3 DEF WriteRestore
  <2>5. NewImage(w, e)
    BY <1>1, <2>1, <2>2, <2>3, <2>4 DEF NewImage, Ended, Logged, Done
  <2>6. ASSUME t.id \notin misrestored'
        PROVE  \E k \in DOMAIN archive[t.id] :
                  /\ rec.ver = archive[t.id][k].rec.ver + 1
                  /\ \A l \in DOMAIN archive[t.id] : archive[t.id][l].at <= archive[t.id][k].at
    <3>1. t.before = LatestOf(archive[t.id]).rec
      BY <2>4, <2>6
    <3>2. t.id \in Ids /\ archive[t.id] \in Seq(ArchiveRow) /\ archive[t.id] # <<>>
      BY <1>1, TransactionFields DEF StoreTypeOK, StoreInv, Fetched
    <3>3. HasLatest(archive[t.id])
      BY <3>2 DEF StoreInv, LatestThere
    <3> QED
      BY <2>2, <3>1, <3>2, <3>3, LatestIsThere
  <2> QED
    BY <1>3, <2>3, <2>5, <2>6 DEF Gone
<1> QED
  BY <1>2, <1>3

\* What a delete does to one record: it goes to the archive, or keeps its version and
\* its value.
Archived(id, at) ==
    /\ row[id] \in RecordRow /\ row'[id] = Null
    /\ archive'[id] = Append(archive[id], [at |-> at, rec |-> row[id]])
    /\ [at |-> at, rec |-> row[id]] \in ArchiveRow

Left(id) ==
    /\ archive'[id] = archive[id] /\ (row'[id] = Null <=> row[id] = Null)
    /\ row[id] # Null => row'[id].ver = row[id].ver /\ row'[id].val = row[id].val

Drops(w, e) ==
    /\ Ended(w) /\ Archived(tx[w].id, tx[w].at)
    /\ e \in AuditRow /\ e.op = "delete" /\ audit' = [audit EXCEPT ![tx[w].id] = Append(@, e)]
    /\ row' \in [Ids -> RecordRow \cup {Null}] /\ archive' \in [Ids -> Seq(ArchiveRow)]
    /\ \A id \in Ids : Archived(id, tx[w].at) \/ Left(id)

\* A delete archives the rows that go, and logs the one it was asked for.
LEMMA DeleteWrites ==
    ASSUME StoreInv, NEW w \in Writers, WriteDelete(w)
    PROVE  RefusedStep(w) \/ \E e \in AuditRow : Drops(w, e)
<1> DEFINE t == tx[w]
           refs == {c \in Children : ~Gone(c) /\ row[c].ref = t.id}
           goes == {t.id} \cup refs
           e == [op |-> "delete", at |-> t.at, before |-> t.before, after |-> Null, base |-> t.base]
           to(id) == IF id \in goes THEN Null ELSE row[id]
           old(id) == IF id \in goes THEN Append(archive[id], [at |-> t.at, rec |-> row[id]])
                      ELSE archive[id]
<1>1. t \in Transactions /\ t.op = "delete" /\ t.step = "write" /\ StoreTypeOK
  BY TransactionFields DEF WriteDelete, StoreInv, StoreTypeOK
<1>2. CASE Gone(t.id) \/ (refs # {} /\ def.on_delete # "cascade")
  BY <1>1, <1>2, Refusals DEF WriteDelete
<1>3. CASE ~Gone(t.id) /\ ~(refs # {} /\ def.on_delete # "cascade")
  <2>1. /\ row' = [id \in Ids |-> to(id)] /\ archive' = [id \in Ids |-> old(id)]
        /\ Logged(t, "delete", t.before, Null) /\ Done(w) /\ UNCHANGED <<def, clock, misrestored>>
    BY <1>3 DEF WriteDelete
  <2>2. e \in AuditRow
    BY <1>1, TransactionFields DEF AuditRow
  <2>3. t.id \in Ids /\ t.at \in Nat /\ goes \subseteq Ids /\ \A id \in goes \cup refs : row[id] # Null
    BY <1>1, <1>3, TransactionFields DEF Gone, Ids
  <2>4. ASSUME NEW id \in Ids
        PROVE  /\ row'[id] \in RecordRow \cup {Null} /\ archive'[id] \in Seq(ArchiveRow)
               /\ Archived(id, t.at) \/ Left(id)
    <3>1. row[id] \in RecordRow \cup {Null} /\ archive[id] \in Seq(ArchiveRow)
      BY <1>1 DEF StoreTypeOK
    <3>2. CASE id \in goes
      <4>1. row[id] \in RecordRow /\ row'[id] = Null
        BY <2>1, <2>3, <3>1, <3>2
      <4>2. [at |-> t.at, rec |-> row[id]] \in ArchiveRow
        BY <2>3, <4>1 DEF ArchiveRow
      <4>3. archive'[id] = Append(archive[id], [at |-> t.at, rec |-> row[id]])
        BY <2>1, <3>2
      <4>4. archive'[id] \in Seq(ArchiveRow)
        BY <3>1, <4>2, <4>3, AppendElements
      <4> QED
        BY <4>1, <4>2, <4>3, <4>4 DEF Archived
    <3>4. CASE id \notin goes
      <4>1. row'[id] = row[id] /\ archive'[id] = archive[id]
        BY <2>1, <3>4
      <4> QED
        BY <3>1, <4>1 DEF Left
    <3> QED
      BY <3>2, <3>4
  <2>5. row' \in [Ids -> RecordRow \cup {Null}] /\ archive' \in [Ids -> Seq(ArchiveRow)]
    BY <2>1, <2>4
  <2>6. Ended(w) /\ audit' = [audit EXCEPT ![t.id] = Append(@, e)]
    BY <1>1, <2>1 DEF Ended, Done, Logged
  <2>7. Archived(t.id, t.at)
    <3>1. row[t.id] # Null /\ row'[t.id] = Null
      BY <1>3, <2>1, <2>3 DEF Gone
    <3> QED
      BY <2>3, <2>4, <3>1 DEF Left
  <2>8. Drops(w, e)
    BY <2>2, <2>4, <2>5, <2>6, <2>7 DEF Drops
  <2> QED
    BY <2>2, <2>8
<1> QED
  BY <1>2, <1>3

\* What each step of the store is.
ReadsBefore(w) ==
    /\ tx[w] \in Transactions /\ tx[w].step = "read"
    /\ \E x \in RecordRow \cup {Null} :
          /\ tx' = [tx EXCEPT ![w] = [tx[w] EXCEPT !.step = "write", !.before = x]]
          /\ tx[w].op # "restore" => x = row[tx[w].id]
          /\ tx[w].op = "restore" =>
                archive[tx[w].id] # <<>> /\ x \in RecordRow /\ (def.required => x.val # Null)
    /\ UNCHANGED <<def, row, archive, audit, clock, misrestored>>

BeginsRight(w, t) ==
    /\ Begun(w, t)
    /\ \/ t.op \in {"delete", "restore"} /\ t.step = "read" /\ audit[t.id] # <<>>
       \/ t.op = "create" /\ audit[t.id] = <<>> /\ \A v \in Writers : tx[v].id # t.id
       \/ t.op = "update" /\ t.step = "read" /\ t.base \in RecordRow
             /\ (t.base.val # Absent => Known(t.id, t.base)) /\ audit[t.id] # <<>>
       \/ t.op = "update" /\ t.step = "read" /\ t.base = row[t.id] /\ row[t.id] # Null

Climbed(w, e) ==
    /\ NewImage(w, e)
    /\ \/ e.op = "create" /\ audit[tx[w].id] = <<>>
       \/ /\ e.op = "update" /\ tx[w].op = "update" /\ e.before = tx[w].before /\ e.base = tx[w].base
          /\ row[tx[w].id] \in RecordRow /\ row[tx[w].id].ver = tx[w].base.ver
          /\ e.after.ver = row[tx[w].id].ver + 1
       \/ /\ e.op = "create" /\ row[tx[w].id] = Null
          /\ tx[w].id \notin misrestored' =>
                \E k \in DOMAIN archive[tx[w].id] :
                   /\ e.after.ver = archive[tx[w].id][k].rec.ver + 1
                   /\ \A l \in DOMAIN archive[tx[w].id] :
                         archive[tx[w].id][l].at <= archive[tx[w].id][k].at

\* Every step begins, reads, is refused, writes an image or deletes.
LEMMA StoreSteps ==
    ASSUME StoreInv, StoreNext
    PROVE  \E w \in Writers :
              \/ \E t \in Transactions : BeginsRight(w, t)
              \/ ReadsBefore(w) \/ RefusedStep(w)
              \/ \E e \in AuditRow : Climbed(w, e) \/ Drops(w, e)
<1>1. PICK w \in Writers :
         \/ \E id \in Ids :
               \/ BeginDelete(w, id) \/ BeginRestore(w, id)
               \/ \E b \in Bodies : \/ BeginCreate(w, id, b) \/ BeginMassUpdate(w, id, b)
                                   \/ \E i \in Images(id) \cup Unseen : BeginUpdate(w, id, b, i)
         \/ ReadBefore(w) \/ ReadArchive(w)
         \/ WriteCreate(w) \/ WriteUpdate(w) \/ WriteDelete(w) \/ WriteRestore(w)
  BY DEF StoreNext
<1>2. ASSUME NEW id \in Ids,
             \/ BeginDelete(w, id) \/ BeginRestore(w, id)
             \/ \E b \in Bodies : \/ BeginCreate(w, id, b) \/ BeginMassUpdate(w, id, b)
                                 \/ \E i \in Images(id) \cup Unseen : BeginUpdate(w, id, b, i)
      PROVE  \E t \in Transactions : BeginsRight(w, t)
  <2>1. StoreTypeOK
    BY DEF StoreInv
  <2> QED
    BY <1>2, <2>1, BeginKinds DEF BeginsRight
<1>3. CASE ReadBefore(w)
  <2>1. tx[w] \in Transactions /\ tx[w].id \in Ids /\ StoreTypeOK
    BY <1>3, TransactionFields DEF ReadBefore, StoreInv, StoreTypeOK
  <2>2. row[tx[w].id] \in RecordRow \cup {Null}
    BY <2>1 DEF StoreTypeOK
  <2>3. tx' = [tx EXCEPT ![w] = [tx[w] EXCEPT !.step = "write", !.before = row[tx[w].id]]]
    BY <1>3, <2>1 DEF ReadBefore, StoreTypeOK
  <2> QED
    BY <1>3, <2>1, <2>2, <2>3 DEF ReadBefore, ReadsBefore
<1>8. CASE ReadArchive(w)
  <2> DEFINE t == tx[w]
             last == LatestOf(archive[t.id]).rec
  <2>1. t \in Transactions /\ t.id \in Ids /\ t.op = "restore" /\ t.step = "read" /\ StoreTypeOK
    BY <1>8, TransactionFields DEF ReadArchive, StoreInv, StoreTypeOK
  <2>2. CASE archive[t.id] = <<>>
    BY <1>8, <2>1, <2>2, Refusals DEF ReadArchive
  <2>3. CASE archive[t.id] # <<>>
    <3>1. archive[t.id] \in Seq(ArchiveRow) /\ HasLatest(archive[t.id])
      BY <2>1, <2>3 DEF StoreInv, StoreTypeOK, LatestThere
    <3>2. PICK k \in DOMAIN archive[t.id] : LatestOf(archive[t.id]) = archive[t.id][k]
      BY <3>1, LatestIsThere
    <3>3. archive[t.id][k] \in ArchiveRow
      BY <3>1
    <3>4. last \in RecordRow /\ (def.required => last.val # Null)
      BY <2>1, <3>2, <3>3 DEF ArchiveRow, StoreInv, NeverEmpty
    <3>5. /\ tx' = [tx EXCEPT ![w].step = "write", ![w].before = last]
          /\ UNCHANGED <<def, row, archive, audit, clock, misrestored>>
      BY <1>8, <2>3 DEF ReadArchive
    <3>6. tx' = [tx EXCEPT ![w] = [t EXCEPT !.step = "write", !.before = last]]
      BY <2>1, <3>5 DEF StoreTypeOK
    <3> QED
      BY <2>1, <2>3, <3>4, <3>5, <3>6 DEF ReadsBefore
  <2> QED
    BY <2>2, <2>3
<1>4. CASE WriteCreate(w)
  BY <1>4, CreateWrites DEF Climbed
<1>5. CASE WriteUpdate(w)
  BY <1>5, UpdateWrites DEF Climbed
<1>6. CASE WriteDelete(w)
  BY <1>6, DeleteWrites
<1>7. CASE WriteRestore(w)
  BY <1>7, RestoreWrites DEF Climbed
<1> QED
  BY <1>1, <1>2, <1>3, <1>4, <1>5, <1>6, <1>7, <1>8

\* What keeps the log of a record, and the record with its version and value, in order.
Ordered(id) ==
    /\ Climbs(id) /\ Honest(id)
    /\ row[id] # Null => Known(id, row[id])
    /\ \A k \in Wrote(id) : UpTo(id, Audited(id, k).ver)

\* The order of a record is that of its log, and of the updates in flight.
LEMMA InOrderParts ==
    ASSUME NEW id \in Ids
    PROVE  InOrder(id) <=>
              (~Rewindable(id) =>
                  Ordered(id) /\ \A w \in Writers : tx[w].op = "update" /\ tx[w].id = id => UpdateKnown(w))
BY DEF InOrder, Ordered

\* A record whose log and archive a step leaves alone, and whose row keeps version and
\* value, stays in order; so do the updates of it that the step leaves alone.
LEMMA RecordLeft ==
    ASSUME NEW id \in Ids, Left(id), audit'[id] = audit[id], misrestored \subseteq misrestored'
    PROVE  /\ Rewindable(id) => Rewindable(id)'
           /\ Ordered(id) => Ordered(id)'
           /\ \A w \in Writers :
                 tx'[w] = tx[w] /\ tx[w].id = id /\ UpdateKnown(w) => UpdateKnown(w)'
<1>1. Rewindable(id) => Rewindable(id)'
  BY DEF Rewindable, Overtaken, Left
<1>2. Ordered(id) => Ordered(id)'
  <2> SUFFICES ASSUME Ordered(id) PROVE Ordered(id)'
    OBVIOUS
  <2>1. Climbs(id)'
    BY DEF Ordered, Climbs, Wrote, Audited
  <2>2. Honest(id)'
    BY DEF Ordered, Honest
  <2>3. row'[id] # Null => Known(id, row[id])'
    BY DEF Ordered, Known, Wrote, Audited, Left
  <2>4. ASSUME NEW k \in Wrote(id)' PROVE UpTo(id, Audited(id, k).ver)'
    BY <2>4 DEF Ordered, Wrote, Audited, UpTo, Left
  <2> QED
    BY <2>1, <2>2, <2>3, <2>4 DEF Ordered
<1>3. ASSUME NEW w \in Writers, tx'[w] = tx[w], tx[w].id = id, UpdateKnown(w) PROVE UpdateKnown(w)'
  BY <1>3 DEF UpdateKnown, Known, Wrote, Audited, Left
<1> QED
  BY <1>1, <1>2, <1>3

\* What a longer log says of the images it had.
LEMMA LogGrows ==
    ASSUME StoreTypeOK, NEW id \in Ids, NEW e \in AuditRow, audit'[id] = Append(audit[id], e)
    PROVE  /\ \A k \in DOMAIN audit[id] : k \in DOMAIN audit'[id] /\ audit'[id][k] = audit[id][k]
           /\ DOMAIN audit'[id] = DOMAIN audit[id] \cup {Len(audit[id]) + 1}
           /\ audit'[id][Len(audit[id]) + 1] = e
           /\ \A k \in DOMAIN audit[id] : k \in Nat /\ k < Len(audit[id]) + 1
           /\ audit'[id] \in Seq(AuditRow) /\ audit'[id] # <<>>
<1>1. audit[id] \in Seq(AuditRow)
  BY DEF StoreTypeOK
<1>2. /\ Append(audit[id], e) \in Seq(AuditRow) /\ Append(audit[id], e) # <<>>
      /\ Len(audit[id]) \in Nat /\ DOMAIN audit[id] = 1 .. Len(audit[id])
      /\ DOMAIN Append(audit[id], e) = 1 .. Len(audit[id]) + 1
      /\ \A k \in DOMAIN audit[id] : Append(audit[id], e)[k] = audit[id][k]
      /\ Append(audit[id], e)[Len(audit[id]) + 1] = e
  BY <1>1, AppendElements
<1> QED
  BY <1>2

\* The same of a longer archive.
LEMMA ArchiveGrows ==
    ASSUME StoreTypeOK, NEW id \in Ids, NEW a \in ArchiveRow, archive'[id] = Append(archive[id], a)
    PROVE  /\ \A k \in DOMAIN archive[id] : k \in DOMAIN archive'[id] /\ archive'[id][k] = archive[id][k]
           /\ DOMAIN archive'[id] = DOMAIN archive[id] \cup {Len(archive[id]) + 1}
           /\ archive'[id][Len(archive[id]) + 1] = a
           /\ Len(archive'[id]) = Len(archive[id]) + 1
           /\ \A k \in DOMAIN archive[id] : k \in Nat /\ k < Len(archive[id]) + 1
           /\ archive'[id] \in Seq(ArchiveRow) /\ archive'[id] # <<>>
           /\ Overtaken(id) => Overtaken(id)'
<1>1. archive[id] \in Seq(ArchiveRow)
  BY DEF StoreTypeOK
<1>2. /\ Append(archive[id], a) \in Seq(ArchiveRow) /\ Append(archive[id], a) # <<>>
      /\ Len(archive[id]) \in Nat /\ DOMAIN archive[id] = 1 .. Len(archive[id])
      /\ Len(Append(archive[id], a)) = Len(archive[id]) + 1
      /\ DOMAIN Append(archive[id], a) = 1 .. Len(archive[id]) + 1
      /\ \A k \in DOMAIN archive[id] : Append(archive[id], a)[k] = archive[id][k]
      /\ Append(archive[id], a)[Len(archive[id]) + 1] = a
  BY <1>1, AppendElements
<1>3. Overtaken(id) => Overtaken(id)'
  BY <1>2 DEF Overtaken
<1> QED
  BY <1>2, <1>3

\* Images stay known, whatever is logged after them.
LEMMA KnownStays ==
    ASSUME StoreTypeOK, NEW id \in Ids,
           audit'[id] = audit[id] \/ \E e \in AuditRow : audit'[id] = Append(audit[id], e),
           NEW x, Known(id, x)
    PROVE  \E k \in Wrote(id)' : Audited(id, k)'.ver = x.ver /\ Audited(id, k)'.val = x.val
<1>1. CASE audit'[id] = audit[id]
  BY <1>1 DEF Known, Wrote, Audited
<1>2. ASSUME NEW e \in AuditRow, audit'[id] = Append(audit[id], e)
      PROVE  \E k \in Wrote(id)' : Audited(id, k)'.ver = x.ver /\ Audited(id, k)'.val = x.val
  BY <1>2, LogGrows DEF Known, Wrote, Audited
<1> QED
  BY <1>1, <1>2

\* A record that goes to the archive stays in order.
LEMMA RecordArchived ==
    ASSUME StoreTypeOK, NEW id \in Ids, NEW at, Archived(id, at),
           \/ audit'[id] = audit[id]
           \/ \E e \in AuditRow : e.op = "delete" /\ audit'[id] = Append(audit[id], e),
           misrestored \subseteq misrestored'
    PROVE  /\ Rewindable(id) => Rewindable(id)'
           /\ Ordered(id) => Ordered(id)'
           /\ \A w \in Writers :
                 tx'[w] = tx[w] /\ tx[w].id = id /\ UpdateKnown(w) => UpdateKnown(w)'
<1> DEFINE a == [at |-> at, rec |-> row[id]]
<1>1. a \in ArchiveRow /\ archive'[id] = Append(archive[id], a) /\ row[id] \in RecordRow /\ row'[id] = Null
  BY DEF Archived
<1>2. /\ Len(archive'[id]) = Len(archive[id]) + 1 /\ archive'[id][Len(archive[id]) + 1].rec = row[id]
      /\ Rewindable(id) => Rewindable(id)'
  BY <1>1, ArchiveGrows DEF Rewindable
<1>3. /\ Wrote(id)' = Wrote(id) /\ \A k \in Wrote(id) : audit'[id][k] = audit[id][k]
      /\ \A k \in DOMAIN audit'[id] : audit'[id][k].op = "update" =>
            k \in DOMAIN audit[id] /\ audit'[id][k] = audit[id][k]
  <2>1. CASE audit'[id] = audit[id]
    BY <2>1 DEF Wrote
  <2>2. ASSUME NEW e \in AuditRow, e.op = "delete", audit'[id] = Append(audit[id], e)
        PROVE  /\ Wrote(id)' = Wrote(id) /\ \A k \in Wrote(id) : audit'[id][k] = audit[id][k]
               /\ \A k \in DOMAIN audit'[id] : audit'[id][k].op = "update" =>
                     k \in DOMAIN audit[id] /\ audit'[id][k] = audit[id][k]
    BY <2>2, LogGrows DEF Wrote
  <2> QED
    BY <2>1, <2>2
<1>4. row[id] # Null
  BY <1>1, StoreAssumption
<1>5. Ordered(id) => Ordered(id)'
  <2> SUFFICES ASSUME Ordered(id) PROVE Ordered(id)'
    OBVIOUS
  <2>1. Climbs(id)'
    BY <1>3 DEF Ordered, Climbs, Audited
  <2>2. Honest(id)'
    BY <1>3 DEF Ordered, Honest
  <2>3. ASSUME NEW k \in Wrote(id)' PROVE UpTo(id, Audited(id, k).ver)'
    <3>1. k \in Wrote(id) /\ Audited(id, k)' = Audited(id, k)
      BY <1>3, <2>3 DEF Audited
    <3>2. Audited(id, k).ver <= row[id].ver
      BY <1>4, <3>1 DEF Ordered, UpTo
    <3> QED
      BY <1>1, <1>2, <3>1, <3>2 DEF UpTo
  <2> QED
    BY <1>1, <2>1, <2>2, <2>3 DEF Ordered
<1>6. ASSUME NEW w \in Writers, tx'[w] = tx[w], tx[w].id = id, UpdateKnown(w) PROVE UpdateKnown(w)'
  BY <1>1, <1>3, <1>6 DEF UpdateKnown, Known, Audited
<1> QED
  BY <1>2, <1>5, <1>6

\* A record whose new image has a version above those of its log stays in order, if an
\* update is logged with the image it replaces.
LEMMA RecordWritten ==
    ASSUME StoreTypeOK, NEW id \in Ids, NEW e \in AuditRow, e.op # "delete",
           audit'[id] = Append(audit[id], e), row'[id] = e.after, archive'[id] = archive[id],
           \A k \in Wrote(id) : Audited(id, k).ver < e.after.ver,
           e.op = "update" /\ e.base.val # Absent =>
               e.before.ver = e.base.ver /\ e.before.val = e.base.val
    PROVE  /\ Ordered(id) => Ordered(id)'
           /\ \A w \in Writers :
                 tx'[w] = tx[w] /\ tx[w] \in Transactions /\ tx[w].id = id /\ UpdateKnown(w)
                     => UpdateKnown(w)'
<1>1. PICK n \in Nat :
         /\ \A k \in DOMAIN audit[id] : /\ k \in DOMAIN audit'[id] /\ audit'[id][k] = audit[id][k]
                                        /\ k \in Nat /\ k < n
         /\ DOMAIN audit'[id] = DOMAIN audit[id] \cup {n} /\ audit'[id][n] = e
  <2>1. Len(audit[id]) + 1 \in Nat
    BY AppendElements DEF StoreTypeOK
  <2> QED
    BY <2>1, LogGrows
<1>2. /\ \A k \in Wrote(id) : k \in Wrote(id)' /\ Audited(id, k)' = Audited(id, k) /\ k \in Nat /\ k < n
      /\ Wrote(id)' = Wrote(id) \cup {n} /\ Audited(id, n)' = e.after
  BY <1>1 DEF Wrote, Audited
<1>3. e.after \in RecordRow /\ e.after # Null /\ e.after.ver \in Nat
  BY AuditRows, StoreAssumption DEF RecordRow
<1>4. \A k \in Wrote(id) : Audited(id, k) \in RecordRow /\ Audited(id, k).ver \in Nat
  <2>1. \A k \in DOMAIN audit[id] : audit[id][k] \in AuditRow
    BY AppendElements DEF StoreTypeOK
  <2> QED
    BY <2>1, AuditRows DEF Wrote, Audited, RecordRow
<1>5. Ordered(id) => Ordered(id)'
  <2> SUFFICES ASSUME Ordered(id) PROVE Ordered(id)'
    OBVIOUS
  <2>1. ASSUME NEW j \in Wrote(id)', NEW k \in Wrote(id)', j < k
        PROVE  Audited(id, j)'.ver < Audited(id, k)'.ver
    <3>1. j \in Wrote(id)
      BY <1>1, <1>2, <2>1
    <3>2. CASE k \in Wrote(id)
      BY <1>2, <2>1, <3>1, <3>2 DEF Ordered, Climbs
    <3>3. CASE k = n
      BY <1>2, <3>1, <3>3
    <3> QED
      BY <1>2, <3>2, <3>3
  <2>2. Climbs(id)'
    BY <2>1 DEF Climbs
  <2>3. Honest(id)'
    BY <1>1 DEF Ordered, Honest
  <2>4. Known(id, row[id])'
    BY <1>2 DEF Known
  <2>5. ASSUME NEW k \in Wrote(id)' PROVE UpTo(id, Audited(id, k).ver)'
    <3>1. Audited(id, k)'.ver <= e.after.ver
      BY <1>2, <1>3, <1>4
    <3> QED
      BY <1>3, <3>1 DEF UpTo
  <2> QED
    BY <2>2, <2>3, <2>4, <2>5 DEF Ordered
<1>6. ASSUME NEW w \in Writers, tx'[w] = tx[w], tx[w] \in Transactions, tx[w].id = id, UpdateKnown(w)
      PROVE  UpdateKnown(w)'
  <2>1. CASE tx[w].base.val = Absent
    BY <1>6, <2>1 DEF UpdateKnown
  <2>2. CASE tx[w].base.val # Absent
    <3>1. \A x : Known(id, x) => \E k \in Wrote(id)' : Audited(id, k)'.ver = x.ver /\ Audited(id, k)'.val = x.val
      BY KnownStays
    <3>2. tx[w].base \in RecordRow /\ Known(id, tx[w].base)
      BY <1>6, <2>2 DEF UpdateKnown
    <3>3. tx[w].base.ver < e.after.ver
      BY <3>2 DEF Known
    <3>4. Known(id, tx[w].base)'
      BY <1>6, <3>1, <3>2 DEF Known
    <3>5. ASSUME tx[w].step = "write", tx[w].before # Null
          PROVE  Known(id, tx[w].before)' /\ tx[w].base.ver <= tx[w].before.ver
      <4>1. Known(id, tx[w].before) /\ tx[w].base.ver <= tx[w].before.ver
        BY <1>6, <2>2, <3>5 DEF UpdateKnown
      <4> QED
        BY <1>6, <3>1, <4>1 DEF Known
    <3> QED
      BY <1>6, <3>2, <3>3, <3>4, <3>5 DEF UpdateKnown
  <2> QED
    BY <2>1, <2>2
<1> QED
  BY <1>5, <1>6

\* The transactions after one has ended.
LEMMA OthersStay ==
    ASSUME StoreTypeOK, NEW w \in Writers, Ended(w)
    PROVE  /\ tx' \in [Writers -> Transactions \cup {NoTx}] /\ tx'[w] = NoTx
           /\ \A v \in Writers \ {w} : tx'[v] = tx[v]
           /\ \A v \in Writers : tx'[v] # NoTx => v # w /\ tx'[v] = tx[v]
           /\ \A v \in Writers : tx'[v].op # "none" => v # w /\ tx'[v] = tx[v] /\ tx[v] \in Transactions
<1>1. /\ tx' \in [Writers -> Transactions \cup {NoTx}] /\ tx'[w] = NoTx
      /\ \A v \in Writers \ {w} : tx'[v] = tx[v]
  BY DEF StoreTypeOK, Ended
<1>2. NoTx.op = "none" /\ \A v \in Writers : tx[v] \in Transactions \cup {NoTx}
  BY DEF NoTx, StoreTypeOK
<1> QED
  BY <1>1, <1>2, TransactionFields

\* A refusal keeps the invariant.
LEMMA RefusedKeeps == ASSUME StoreInv, NEW w \in Writers, RefusedStep(w) PROVE StoreInv'
<1>1. /\ StoreTypeOK /\ TimesDiffer /\ LatestThere /\ BeginsLogged /\ NeverEmpty /\ Fetched
      /\ \A id \in Ids : InOrder(id)
  BY DEF StoreInv
<1>2. /\ Ended(w) /\ row' = row /\ archive' = archive /\ audit' = audit /\ def' = def
      /\ clock' = clock /\ misrestored \subseteq misrestored'
  BY DEF RefusedStep, Ended
<1>8. Fetched'
  BY <1>1, <1>2, OthersStay DEF Fetched
<1>3. StoreTypeOK'
  BY <1>1, <1>2, OthersStay DEF StoreTypeOK
<1>4. TimesDiffer'
  BY <1>1, <1>2, OthersStay DEF TimesDiffer
<1>5. LatestThere' /\ NeverEmpty'
  BY <1>1, <1>2 DEF LatestThere, NeverEmpty, HasLatest
<1>6. BeginsLogged'
  BY <1>1, <1>2, OthersStay DEF BeginsLogged
<1>7. ASSUME NEW id \in Ids PROVE InOrder(id)'
  <2>1. Left(id) /\ audit'[id] = audit[id]
    BY <1>2 DEF Left
  <2>2. \A v \in Writers : tx'[v].op = "update" => tx'[v] = tx[v]
    BY <1>1, <1>2, OthersStay
  <2>3. InOrder(id)
    BY <1>1
  <2> QED
    BY <1>2, <2>1, <2>2, <2>3, RecordLeft DEF InOrder, Ordered
<1> QED
  BY <1>3, <1>4, <1>5, <1>6, <1>7, <1>8 DEF StoreInv

\* Reading the before-image keeps the invariant: what is read is no older than the base.
LEMMA ReadKeeps == ASSUME StoreInv, NEW w \in Writers, ReadsBefore(w) PROVE StoreInv'
<1> DEFINE t == tx[w]
<1>1. /\ StoreTypeOK /\ TimesDiffer /\ LatestThere /\ BeginsLogged /\ NeverEmpty /\ Fetched
      /\ \A id \in Ids : InOrder(id)
  BY DEF StoreInv
<1>2. /\ row' = row /\ archive' = archive /\ audit' = audit /\ def' = def /\ clock' = clock
      /\ misrestored \subseteq misrestored' /\ t \in Transactions /\ t.step = "read"
  BY DEF ReadsBefore
<1>3. t.id \in Ids /\ t # NoTx
  BY <1>1, <1>2, TransactionFields DEF StoreTypeOK
<1>4. PICK u \in Transactions :
         /\ u.id = t.id /\ u.at = t.at /\ u.op = t.op /\ u.base = t.base /\ u.step = "write"
         /\ u.op # "restore" => u.before = row[t.id]
         /\ u.op = "restore" => /\ archive[t.id] # <<>> /\ u.before \in RecordRow
                                /\ def.required => u.before.val # Null
         /\ tx' = [tx EXCEPT ![w] = u]
  <2>1. PICK x \in RecordRow \cup {Null} :
           /\ tx' = [tx EXCEPT ![w] = [t EXCEPT !.step = "write", !.before = x]]
           /\ t.op # "restore" => x = row[t.id]
           /\ t.op = "restore" =>
                 archive[t.id] # <<>> /\ x \in RecordRow /\ (def.required => x.val # Null)
    BY DEF ReadsBefore
  <2> DEFINE r == [t EXCEPT !.step = "write", !.before = x]
  <2>2. /\ r \in Transactions /\ r.id = t.id /\ r.at = t.at /\ r.op = t.op /\ r.base = t.base
        /\ r.step = "write" /\ r.before = x
    BY <1>2 DEF Transactions
  <2> QED
    BY <2>1, <2>2
<1>5. /\ tx'[w] = u /\ \A v \in Writers \ {w} : tx'[v] = tx[v]
      /\ tx' \in [Writers -> Transactions \cup {NoTx}]
  BY <1>1, <1>2, <1>4 DEF StoreTypeOK
<1>11. Fetched'
  BY <1>1, <1>2, <1>4, <1>5 DEF Fetched
<1>6. StoreTypeOK'
  BY <1>1, <1>2, <1>5 DEF StoreTypeOK
<1>7. TimesDiffer'
  BY <1>1, <1>2, <1>3, <1>4, <1>5 DEF TimesDiffer
<1>8. LatestThere' /\ NeverEmpty'
  BY <1>1, <1>2 DEF LatestThere, NeverEmpty, HasLatest
<1>9. BeginsLogged'
  BY <1>1, <1>2, <1>3, <1>4, <1>5 DEF BeginsLogged
<1>10. ASSUME NEW id \in Ids PROVE InOrder(id)'
  <2>1. Left(id) /\ audit'[id] = audit[id]
    BY <1>2 DEF Left
  <2>2. SUFFICES ASSUME ~Rewindable(id)
                 PROVE  Ordered(id)' /\ \A v \in Writers : tx'[v].op = "update" /\ tx'[v].id = id => UpdateKnown(v)'
    BY <1>2, <2>1, RecordLeft DEF InOrder, Ordered
  <2>3. Ordered(id) /\ Ordered(id)'
    BY <1>1, <1>2, <2>1, <2>2, RecordLeft DEF InOrder, Ordered
  <2>4. ASSUME NEW v \in Writers \ {w}, tx'[v].op = "update", tx'[v].id = id PROVE UpdateKnown(v)'
    BY <1>1, <1>2, <1>5, <2>1, <2>2, <2>4, RecordLeft DEF InOrder
  <2>5. ASSUME u.op = "update", u.id = id PROVE UpdateKnown(w)'
    <3>0. CASE t.base.val = Absent
      BY <1>4, <1>5, <3>0 DEF UpdateKnown
    <3>1. CASE t.base.val # Absent
      <4>1. t.base \in RecordRow /\ Known(id, t.base)
        BY <1>1, <1>4, <2>2, <2>5, <3>1 DEF InOrder, UpdateKnown
      <4>2. row[id] # Null => Known(id, row[id]) /\ t.base.ver <= row[id].ver
        BY <2>3, <4>1 DEF Ordered, Known, UpTo
      <4>3. \A x : Known(id, x) => \E k \in Wrote(id)' : Audited(id, k)'.ver = x.ver /\ Audited(id, k)'.val = x.val
        BY <1>1, <2>1, KnownStays
      <4>4. u.base = t.base /\ u.before = row[id] /\ u.step = "write"
        BY <1>4, <2>5
      <4>5. Known(id, u.base)' /\ (row[id] # Null => Known(id, row[id])')
        BY <4>1, <4>2, <4>3, <4>4, <1>2 DEF Known
      <4> QED
        BY <1>2, <1>5, <2>5, <4>1, <4>2, <4>4, <4>5 DEF UpdateKnown
    <3> QED
      BY <3>0, <3>1
  <2> QED
    BY <1>5, <2>3, <2>4, <2>5
<1> QED
  BY <1>6, <1>7, <1>8, <1>9, <1>10, <1>11 DEF StoreInv

\* Beginning keeps the invariant: a create is alone with its record, an update has the
\* version of an image.
LEMMA BeginKeeps ==
    ASSUME StoreInv, NEW w \in Writers, NEW t \in Transactions, BeginsRight(w, t) PROVE StoreInv'
<1>1. /\ StoreTypeOK /\ TimesDiffer /\ LatestThere /\ BeginsLogged /\ NeverEmpty /\ Fetched
      /\ \A id \in Ids : InOrder(id)
  BY DEF StoreInv
<1>2. /\ row' = row /\ archive' = archive /\ audit' = audit /\ def' = def /\ clock' = clock + 1
      /\ clock \in Nat /\ t.at = clock /\ t.before = Null /\ tx[w] = NoTx /\ tx' = [tx EXCEPT ![w] = t]
      /\ misrestored \subseteq misrestored'
  BY <1>1 DEF BeginsRight, Begun, StoreTypeOK
<1>3. t # NoTx /\ t.id \in Ids /\ NoTx.op = "none" /\ t.op # "none"
  BY TransactionFields DEF NoTx
<1>4. /\ tx'[w] = t /\ \A v \in Writers \ {w} : tx'[v] = tx[v]
      /\ tx' \in [Writers -> Transactions \cup {NoTx}]
  BY <1>1, <1>2 DEF StoreTypeOK
<1>10. Fetched'
  BY <1>1, <1>2, <1>4 DEF Fetched, BeginsRight
<1>5. StoreTypeOK'
  BY <1>1, <1>2, <1>4 DEF StoreTypeOK
<1>6. TimesDiffer'
  <2>1. /\ \A v \in Writers : tx[v] # NoTx => tx[v].at \in Nat /\ tx[v].at < clock
        /\ \A id \in Ids : \A k \in DOMAIN archive[id] :
              archive[id][k].at \in Nat /\ archive[id][k].at < clock
    <3>1. \A id \in Ids : \A k \in DOMAIN archive[id] : archive[id][k] \in ArchiveRow
      BY <1>1, AppendElements DEF StoreTypeOK
    <3>2. \A v \in Writers : tx[v] # NoTx => tx[v].at \in Nat
      BY <1>1, TransactionFields DEF StoreTypeOK
    <3> QED
      BY <1>1, <3>1, <3>2 DEF TimesDiffer, ArchiveRow
  <2>2. ASSUME NEW v \in Writers, tx'[v] # NoTx
        PROVE  /\ tx'[v].at < clock'
               /\ \A u \in Writers \ {v} : tx'[u] # NoTx => tx'[u].at # tx'[v].at
               /\ \A id \in Ids : \A k \in DOMAIN archive'[id] : archive'[id][k].at # tx'[v].at
    <3>1. CASE v = w
      BY <1>2, <1>4, <2>1, <3>1
    <3>2. CASE v # w
      <4>1. tx'[v] = tx[v] /\ tx[v] # NoTx
        BY <1>4, <2>2, <3>2
      <4> QED
        BY <1>1, <1>2, <1>4, <2>1, <4>1 DEF TimesDiffer
    <3> QED
      BY <3>1, <3>2
  <2>3. \A id \in Ids : \A k \in DOMAIN archive'[id] : archive'[id][k].at < clock'
    BY <1>2, <2>1
  <2> QED
    BY <1>1, <1>2, <2>2, <2>3 DEF TimesDiffer
<1>7. LatestThere' /\ NeverEmpty'
  BY <1>1, <1>2 DEF LatestThere, NeverEmpty, HasLatest
<1>8. BeginsLogged'
  <2>1. t.op # "create" => audit[t.id] # <<>>
    BY <1>1, <1>3 DEF BeginsRight, BeginsLogged
  <2>2. t.op = "create" => audit[t.id] = <<>> /\ \A v \in Writers : tx[v].id # t.id
    BY <1>1, <1>3 DEF BeginsRight, BeginsLogged
  <2>3. ASSUME NEW v \in Writers, tx'[v].op = "create"
        PROVE  /\ audit'[tx'[v].id] = <<>>
               /\ \A u \in Writers \ {v} : tx'[u] # NoTx => tx'[u].id # tx'[v].id
    <3>1. CASE v = w
      BY <1>2, <1>4, <2>2, <2>3, <3>1
    <3>2. CASE v # w
      <4>1. tx'[v] = tx[v] /\ tx[v].op = "create" /\ audit[tx[v].id] = <<>>
        BY <1>1, <1>4, <2>3, <3>2 DEF BeginsLogged
      <4>2. t.id # tx[v].id
        BY <2>1, <2>2, <4>1
      <4> QED
        BY <1>1, <1>2, <1>4, <4>1, <4>2 DEF BeginsLogged
    <3> QED
      BY <3>1, <3>2
  <2> QED
    BY <1>1, <1>2, <2>3 DEF BeginsLogged
<1>9. ASSUME NEW id \in Ids PROVE InOrder(id)'
  <2>1. Left(id) /\ audit'[id] = audit[id]
    BY <1>2 DEF Left
  <2>2. SUFFICES ASSUME ~Rewindable(id)
                 PROVE  Ordered(id)' /\ \A v \in Writers : tx'[v].op = "update" /\ tx'[v].id = id => UpdateKnown(v)'
    BY <1>2, <2>1, RecordLeft DEF InOrder, Ordered
  <2>3. Ordered(id) /\ Ordered(id)'
    BY <1>1, <1>2, <2>1, <2>2, RecordLeft DEF InOrder, Ordered
  <2>4. ASSUME NEW v \in Writers \ {w}, tx'[v].op = "update", tx'[v].id = id PROVE UpdateKnown(v)'
    BY <1>1, <1>2, <1>4, <2>1, <2>2, <2>4, RecordLeft DEF InOrder
  <2>5. ASSUME t.op = "update", t.id = id PROVE UpdateKnown(w)'
    <3>1. /\ t.base.val # Absent => t.base \in RecordRow /\ Known(id, t.base)
          /\ t.step = "read"
      BY <1>1, <2>3, <2>5 DEF BeginsRight, Ordered, StoreTypeOK
    <3>2. t.base.val # Absent => Known(id, t.base)'
      BY <1>2, <3>1 DEF Known, Wrote, Audited
    <3> QED
      BY <1>4, <2>5, <3>1, <3>2 DEF UpdateKnown
  <2> QED
    BY <1>4, <2>3, <2>4, <2>5
<1> QED
  BY <1>5, <1>6, <1>7, <1>8, <1>9, <1>10 DEF StoreInv

\* While no delete overtook another, the archived row with the latest time is the last.
LEMMA LatestIsLast ==
    ASSUME StoreTypeOK, TimesDiffer, NEW id \in Ids, ~Overtaken(id), NEW k \in DOMAIN archive[id],
           \A l \in DOMAIN archive[id] : archive[id][l].at <= archive[id][k].at
    PROVE  k = Len(archive[id])
<1> DEFINE n == Len(archive[id])
<1>1. archive[id] \in Seq(ArchiveRow)
  BY DEF StoreTypeOK
<1>2. n \in Nat /\ DOMAIN archive[id] = 1 .. n /\ \A l \in DOMAIN archive[id] : archive[id][l].at \in Nat
  <2>1. n \in Nat /\ DOMAIN archive[id] = 1 .. n /\ \A l \in DOMAIN archive[id] : archive[id][l] \in ArchiveRow
    BY <1>1
  <2> QED
    BY <2>1 DEF ArchiveRow
<1>3. SUFFICES ASSUME k # n PROVE FALSE
  OBVIOUS
<1>4. k < n /\ n \in DOMAIN archive[id]
  BY <1>2, <1>3
<1>5. archive[id][k].at > archive[id][n].at
  BY <1>2, <1>4 DEF TimesDiffer
<1> QED
  BY <1>4, <1>5 DEF Overtaken

\* Two images of a log in order that have the same version are the same.
LEMMA SameVersion ==
    ASSUME StoreTypeOK, NEW id \in Ids, Climbs(id), NEW x, NEW y, Known(id, x), Known(id, y), x.ver = y.ver
    PROVE  x.val = y.val
<1>1. PICK j \in Wrote(id) : Audited(id, j).ver = x.ver /\ Audited(id, j).val = x.val
  BY DEF Known
<1>2. PICK k \in Wrote(id) : Audited(id, k).ver = y.ver /\ Audited(id, k).val = y.val
  BY DEF Known
<1>3. /\ audit[id] \in Seq(AuditRow) /\ j \in DOMAIN audit[id] /\ k \in DOMAIN audit[id]
      /\ audit[id][j].op # "delete" /\ audit[id][k].op # "delete"
  BY DEF StoreTypeOK, Wrote
<1>4. /\ j \in Nat /\ k \in Nat /\ audit[id][j] \in AuditRow /\ audit[id][k] \in AuditRow
  BY <1>3
<1>5. Audited(id, j).ver \in Nat /\ Audited(id, k).ver \in Nat
  BY <1>3, <1>4, AuditRows DEF Audited, RecordRow
<1>6. ~(j < k) /\ ~(k < j)
  BY <1>1, <1>2, <1>5 DEF Climbs
<1> QED
  BY <1>1, <1>2, <1>4, <1>6

\* Known images are rows with a version.
LEMMA KnownVersion ==
    ASSUME StoreTypeOK, NEW id \in Ids, NEW x, Known(id, x) PROVE x.ver \in Nat
<1>1. PICK k \in Wrote(id) : Audited(id, k).ver = x.ver
  BY DEF Known
<1>2. audit[id] \in Seq(AuditRow) /\ k \in DOMAIN audit[id] /\ audit[id][k].op # "delete"
  BY DEF StoreTypeOK, Wrote
<1>3. audit[id][k] \in AuditRow
  BY <1>2
<1> QED
  BY <1>1, <1>2, <1>3, AuditRows DEF Audited, RecordRow

\* A write whose image climbs is above all the images of the log, and an update replaces
\* the image whose version its client sent.
LEMMA ClimbsOverAll ==
    ASSUME StoreInv, NEW w \in Writers, NEW e \in AuditRow, Climbed(w, e),
           ~Rewindable(tx[w].id), tx[w].id \notin misrestored'
    PROVE  /\ \A k \in Wrote(tx[w].id) : Audited(tx[w].id, k).ver < e.after.ver
           /\ e.op = "update" /\ e.base.val # Absent =>
                 e.before.ver = e.base.ver /\ e.before.val = e.base.val
<1> DEFINE t == tx[w]
           id == t.id
<1>1. /\ StoreTypeOK /\ TimesDiffer /\ InOrder(id) /\ id \in Ids /\ t \in Transactions
      /\ t.step = "write" /\ e.op # "delete" /\ e.after \in RecordRow /\ e.after.ver \in Nat
  <2>1. t \in Transactions /\ t.step = "write" /\ e.op # "delete"
    BY DEF Climbed, NewImage, Ended
  <2>2. id \in Ids /\ e.after \in RecordRow
    BY <2>1, TransactionFields, AuditRows
  <2> QED
    BY <2>1, <2>2 DEF StoreInv, RecordRow
<1>0. ~Overtaken(id)
  BY DEF Rewindable
<1>2. Ordered(id) /\ (t.op = "update" => UpdateKnown(w))
  BY <1>1 DEF InOrder, Ordered
<1>3. \A k \in Wrote(id) : Audited(id, k).ver \in Nat
  <2>1. \A k \in Wrote(id) : Known(id, Audited(id, k))
    BY DEF Known
  <2> QED
    BY <1>1, <2>1, KnownVersion
<1>4. CASE e.op = "create" /\ audit[id] = <<>>
  BY <1>4 DEF Wrote
<1>5. CASE /\ e.op = "update" /\ t.op = "update" /\ e.before = t.before /\ e.base = t.base
           /\ row[id] \in RecordRow /\ row[id].ver = t.base.ver /\ e.after.ver = row[id].ver + 1
  <2>1. row[id] # Null /\ row[id].ver \in Nat
    BY <1>5, StoreAssumption DEF RecordRow
  <2>2. \A k \in Wrote(id) : Audited(id, k).ver <= row[id].ver
    BY <1>2, <2>1 DEF Ordered, UpTo
  <2>3. ASSUME t.base.val # Absent
        PROVE  t.before.ver = t.base.ver /\ t.before.val = t.base.val
    <3>1. Known(id, t.base) /\ t.before # Null /\ Known(id, t.before) /\ t.base.ver <= t.before.ver
      BY <1>1, <1>2, <1>5, <2>1, <2>3 DEF UpdateKnown
    <3>2. t.before.ver <= row[id].ver /\ t.before.ver \in Nat
      BY <1>1, <2>2, <3>1, KnownVersion DEF Known
    <3>3. t.before.ver = t.base.ver
      BY <1>5, <2>1, <3>1, <3>2
    <3>4. t.before.val = t.base.val
      BY <1>1, <1>2, <3>1, <3>3, SameVersion DEF Ordered
    <3> QED
      BY <3>3, <3>4
  <2> QED
    BY <1>3, <1>5, <2>1, <2>2, <2>3
<1>6. CASE /\ e.op = "create" /\ row[id] = Null
           /\ \E k \in DOMAIN archive[id] :
                 /\ e.after.ver = archive[id][k].rec.ver + 1
                 /\ \A l \in DOMAIN archive[id] : archive[id][l].at <= archive[id][k].at
  <2>1. PICK k \in DOMAIN archive[id] :
           /\ e.after.ver = archive[id][k].rec.ver + 1
           /\ \A l \in DOMAIN archive[id] : archive[id][l].at <= archive[id][k].at
    BY <1>6
  <2>2. k = Len(archive[id])
    BY <1>0, <1>1, <2>1, LatestIsLast
  <2>3. archive[id] \in Seq(ArchiveRow) /\ archive[id] # <<>> /\ archive[id][k] \in ArchiveRow
    BY <1>1, <2>1 DEF StoreTypeOK
  <2>4. archive[id][k].rec.ver \in Nat
    BY <2>3 DEF ArchiveRow, RecordRow
  <2>5. \A j \in Wrote(id) : Audited(id, j).ver <= archive[id][k].rec.ver
    BY <1>2, <1>6, <2>2, <2>3 DEF Ordered, UpTo
  <2> QED
    BY <1>3, <1>6, <2>1, <2>4, <2>5
<1> QED
  BY <1>4, <1>5, <1>6 DEF Climbed

\* Writing an image keeps the invariant.
LEMMA ImageKeeps ==
    ASSUME StoreInv, NEW w \in Writers, NEW e \in AuditRow, Climbed(w, e) PROVE StoreInv'
<1> DEFINE t == tx[w]
<1>1. /\ StoreTypeOK /\ TimesDiffer /\ LatestThere /\ BeginsLogged /\ NeverEmpty /\ Fetched
      /\ \A id \in Ids : InOrder(id)
  BY DEF StoreInv
<1>2. /\ Ended(w) /\ t \in Transactions /\ t.id \in Ids /\ t # NoTx /\ def' = def /\ clock' = clock
      /\ e.op # "delete" /\ e.after \in RecordRow /\ e.after # Null
      /\ misrestored \subseteq misrestored'
      /\ def.required => e.after.val # Null
      /\ row' = [row EXCEPT ![t.id] = e.after] /\ archive' = archive
      /\ audit' = [audit EXCEPT ![t.id] = Append(@, e)]
  <2>1. /\ Ended(w) /\ t \in Transactions /\ def' = def /\ clock' = clock
        /\ e.op # "delete" /\ def.required => e.after.val # Null
        /\ misrestored \subseteq misrestored'
        /\ row' = [row EXCEPT ![t.id] = e.after] /\ archive' = archive
        /\ audit' = [audit EXCEPT ![t.id] = Append(@, e)]
    BY DEF Climbed, NewImage, Ended
  <2>2. t.id \in Ids /\ t # NoTx /\ e.after \in RecordRow
    BY <2>1, TransactionFields, AuditRows DEF Climbed, NewImage
  <2>3. /\ def.required => e.after.val # Null
        /\ e.op # "delete"
    BY DEF Climbed, NewImage
  <2> QED
    BY <2>1, <2>2, <2>3, StoreAssumption
<1>3. /\ row'[t.id] = e.after /\ \A id \in Ids \ {t.id} : row'[id] = row[id] /\ audit'[id] = audit[id]
      /\ audit'[t.id] = Append(audit[t.id], e)
  BY <1>1, <1>2 DEF StoreTypeOK
<1>4. audit'[t.id] \in Seq(AuditRow) /\ audit'[t.id] # <<>>
  BY <1>1, <1>2, <1>3, LogGrows
<1>5. StoreTypeOK'
  <2>1. row' \in [Ids -> RecordRow \cup {Null}] /\ audit' \in [Ids -> Seq(AuditRow)]
    BY <1>1, <1>2, <1>3, <1>4 DEF StoreTypeOK
  <2> QED
    BY <1>1, <1>2, <2>1, OthersStay DEF StoreTypeOK
<1>6. TimesDiffer'
  BY <1>1, <1>2, OthersStay DEF TimesDiffer
<1>7. LatestThere'
  BY <1>1, <1>2 DEF LatestThere, HasLatest
<1>8. BeginsLogged'
  <2>1. \A id \in Ids : audit'[id] = <<>> => id # t.id /\ row'[id] = Null /\ archive'[id] = <<>>
    BY <1>1, <1>2, <1>3, <1>4 DEF BeginsLogged
  <2>2. ASSUME NEW v \in Writers, tx'[v].op = "create"
        PROVE  /\ audit'[tx'[v].id] = <<>>
               /\ \A u \in Writers \ {v} : tx'[u] # NoTx => tx'[u].id # tx'[v].id
    <3>1. v # w /\ tx'[v] = tx[v] /\ tx[v].id \in Ids
      BY <1>1, <1>2, <2>2, OthersStay, TransactionFields
    <3>2. audit[tx[v].id] = <<>> /\ \A u \in Writers \ {v} : tx[u] # NoTx => tx[u].id # tx[v].id
      BY <1>1, <2>2, <3>1 DEF BeginsLogged
    <3>3. tx[v].id # t.id
      BY <1>2, <3>1, <3>2
    <3> QED
      BY <1>1, <1>2, <1>3, <3>1, <3>2, <3>3, OthersStay
  <2> QED
    BY <2>1, <2>2 DEF BeginsLogged
<1>9. NeverEmpty'
  BY <1>1, <1>2, <1>3 DEF NeverEmpty
<1>11. Fetched'
  BY <1>1, <1>2, OthersStay DEF Fetched
<1>10. ASSUME NEW id \in Ids PROVE InOrder(id)'
  <2>1. \A v \in Writers : tx'[v].op = "update" => tx'[v] = tx[v] /\ tx[v] \in Transactions
    BY <1>1, <1>2, OthersStay
  <2>2. InOrder(id)
    BY <1>1
  <2>3. CASE id # t.id
    <3>1. Left(id) /\ audit'[id] = audit[id]
      BY <1>2, <1>3, <2>3 DEF Left
    <3> QED
      BY <1>2, <2>1, <2>2, <3>1, RecordLeft DEF InOrder, Ordered
  <2>4. CASE id = t.id
    <3>1. SUFFICES ASSUME ~Rewindable(id), id \notin misrestored'
                   PROVE  Ordered(id)' /\ \A v \in Writers : tx'[v].op = "update" /\ tx'[v].id = id => UpdateKnown(v)'
      BY <1>2 DEF InOrder, Ordered, Overtaken, Rewindable
    <3>2. /\ \A k \in Wrote(id) : Audited(id, k).ver < e.after.ver
          /\ e.op = "update" /\ e.base.val # Absent =>
                e.before.ver = e.base.ver /\ e.before.val = e.base.val
      BY <2>4, <3>1, ClimbsOverAll
    <3>3. audit'[id] = Append(audit[id], e) /\ row'[id] = e.after /\ archive'[id] = archive[id]
      BY <1>2, <1>3, <2>4
    <3>4. Ordered(id) /\ \A v \in Writers : tx[v].op = "update" /\ tx[v].id = id => UpdateKnown(v)
      BY <2>2, <3>1 DEF InOrder, Ordered
    <3> QED
      BY <1>1, <1>2, <2>1, <3>2, <3>3, <3>4, RecordWritten
  <2> QED
    BY <2>3, <2>4
<1> QED
  BY <1>5, <1>6, <1>7, <1>8, <1>9, <1>10, <1>11 DEF StoreInv

\* A delete keeps the invariant.
LEMMA DropKeeps ==
    ASSUME StoreInv, NEW w \in Writers, NEW e \in AuditRow, Drops(w, e) PROVE StoreInv'
<1> DEFINE t == tx[w]
<1>1. /\ StoreTypeOK /\ TimesDiffer /\ LatestThere /\ BeginsLogged /\ NeverEmpty /\ Fetched
      /\ \A id \in Ids : InOrder(id)
  BY DEF StoreInv
<1>2. /\ Ended(w) /\ t \in Transactions /\ t.id \in Ids /\ t # NoTx /\ def' = def /\ clock' = clock
      /\ e.op = "delete" /\ audit' = [audit EXCEPT ![t.id] = Append(@, e)]
      /\ misrestored \subseteq misrestored'
      /\ row' \in [Ids -> RecordRow \cup {Null}] /\ archive' \in [Ids -> Seq(ArchiveRow)]
      /\ Archived(t.id, t.at)
      /\ \A id \in Ids : Archived(id, t.at) \/ Left(id)
  BY TransactionFields DEF Drops, Ended
<1>3. /\ \A id \in Ids \ {t.id} : audit'[id] = audit[id]
      /\ audit'[t.id] = Append(audit[t.id], e)
  BY <1>1, <1>2 DEF StoreTypeOK
<1>4. audit'[t.id] \in Seq(AuditRow) /\ audit'[t.id] # <<>>
  BY <1>1, <1>2, <1>3, LogGrows
<1>5. StoreTypeOK'
  <2>1. audit' \in [Ids -> Seq(AuditRow)]
    BY <1>1, <1>2, <1>3, <1>4 DEF StoreTypeOK
  <2> QED
    BY <1>1, <1>2, <2>1, OthersStay DEF StoreTypeOK
<1>6. ASSUME NEW id \in Ids, Archived(id, t.at)
      PROVE  \E a \in ArchiveRow, n \in Nat :
                /\ a.at = t.at /\ a.rec = row[id] /\ row[id] # Null
                /\ \A k \in DOMAIN archive[id] : archive'[id][k] = archive[id][k]
                /\ DOMAIN archive'[id] = DOMAIN archive[id] \cup {n}
                /\ archive'[id][n] = a
  <2> DEFINE a == [at |-> t.at, rec |-> row[id]]
  <2>1. a \in ArchiveRow /\ archive'[id] = Append(archive[id], a) /\ row[id] # Null
    BY <1>6, StoreAssumption DEF Archived
  <2>2. Len(archive[id]) + 1 \in Nat
    BY <1>1, AppendElements DEF StoreTypeOK
  <2> QED
    BY <1>1, <2>1, <2>2, ArchiveGrows
<1>7. ASSUME NEW id \in Ids
      PROVE  /\ \A k \in DOMAIN archive'[id] :
                   \/ archive'[id][k].at = t.at
                   \/ k \in DOMAIN archive[id] /\ archive'[id][k] = archive[id][k]
             /\ \A j, k \in DOMAIN archive'[id] : j # k => archive'[id][j].at # archive'[id][k].at
  <2>1. CASE Archived(id, t.at)
    <3>1. PICK a \in ArchiveRow, n \in Nat :
             /\ a.at = t.at
             /\ \A k \in DOMAIN archive[id] : archive'[id][k] = archive[id][k]
             /\ DOMAIN archive'[id] = DOMAIN archive[id] \cup {n}
             /\ archive'[id][n] = a
      BY <1>6, <2>1
    <3>2. /\ \A k \in DOMAIN archive[id] : archive[id][k].at # t.at
          /\ \A j, k \in DOMAIN archive[id] : j # k => archive[id][j].at # archive[id][k].at
      BY <1>1, <1>2 DEF TimesDiffer
    <3>3. \A k \in DOMAIN archive'[id] : (k = n /\ archive'[id][k].at = t.at)
                                        \/ (k \in DOMAIN archive[id] /\ archive'[id][k] = archive[id][k])
      BY <3>1
    <3> QED
      BY <3>2, <3>3
  <2>2. CASE Left(id)
    BY <1>1, <2>2 DEF Left, TimesDiffer
  <2> QED
    BY <1>2, <2>1, <2>2
<1>8. TimesDiffer'
  <2>1. t.at < clock /\ \A v \in Writers \ {w} : tx[v] # NoTx => tx[v].at # t.at
    BY <1>1, <1>2 DEF TimesDiffer
  <2>2. \A v \in Writers : tx'[v] # NoTx => v # w /\ tx'[v] = tx[v]
    BY <1>1, <1>2, OthersStay
  <2>3. ASSUME NEW v \in Writers, tx'[v] # NoTx
        PROVE  /\ tx'[v].at < clock'
               /\ \A u \in Writers \ {v} : tx'[u] # NoTx => tx'[u].at # tx'[v].at
               /\ \A id \in Ids : \A k \in DOMAIN archive'[id] : archive'[id][k].at # tx'[v].at
    <3>1. v # w /\ tx'[v] = tx[v] /\ tx[v] # NoTx
      BY <2>2, <2>3
    <3>2. /\ tx[v].at < clock /\ \A u \in Writers \ {v} : tx[u] # NoTx => tx[u].at # tx[v].at
          /\ \A id \in Ids : \A k \in DOMAIN archive[id] : archive[id][k].at # tx[v].at
      BY <1>1, <3>1 DEF TimesDiffer
    <3>3. \A u \in Writers \ {v} : tx'[u] # NoTx => tx'[u].at # tx'[v].at
      BY <2>2, <3>1, <3>2
    <3>4. \A id \in Ids : \A k \in DOMAIN archive'[id] : archive'[id][k].at # tx'[v].at
      BY <1>7, <2>1, <3>1, <3>2
    <3> QED
      BY <1>2, <3>1, <3>2, <3>3, <3>4
  <2>4. \A id \in Ids : \A k \in DOMAIN archive'[id] : archive'[id][k].at < clock'
    BY <1>1, <1>2, <1>7, <2>1 DEF TimesDiffer
  <2> QED
    BY <1>7, <2>3, <2>4 DEF TimesDiffer
<1>9. LatestThere'
  <2>1. ASSUME NEW id \in Ids, archive'[id] # <<>> PROVE HasLatest(archive'[id])
    <3>1. CASE Archived(id, t.at)
      BY <1>1, <3>1, LatestAppended DEF Archived, LatestThere, StoreTypeOK
    <3>2. CASE Left(id)
      BY <1>1, <2>1, <3>2 DEF Left, LatestThere
    <3> QED
      BY <1>2, <3>1, <3>2
  <2> QED
    BY <2>1 DEF LatestThere, HasLatest
<1>10. BeginsLogged'
  <2>1. ASSUME NEW id \in Ids, audit'[id] = <<>> PROVE row'[id] = Null /\ archive'[id] = <<>>
    <3>1. id # t.id /\ audit[id] = <<>>
      BY <1>3, <1>4, <2>1
    <3>2. row[id] = Null /\ archive[id] = <<>>
      BY <1>1, <3>1 DEF BeginsLogged
    <3> QED
      BY <1>2, <3>2, StoreAssumption DEF Archived, Left
  <2>2. ASSUME NEW v \in Writers, tx'[v].op = "create"
        PROVE  /\ audit'[tx'[v].id] = <<>>
               /\ \A u \in Writers \ {v} : tx'[u] # NoTx => tx'[u].id # tx'[v].id
    <3>1. v # w /\ tx'[v] = tx[v] /\ tx[v].id \in Ids
      BY <1>1, <1>2, <2>2, OthersStay, TransactionFields
    <3>2. audit[tx[v].id] = <<>> /\ \A u \in Writers \ {v} : tx[u] # NoTx => tx[u].id # tx[v].id
      BY <1>1, <2>2, <3>1 DEF BeginsLogged
    <3>3. tx[v].id # t.id
      BY <1>2, <3>1, <3>2
    <3> QED
      BY <1>1, <1>2, <1>3, <3>1, <3>2, <3>3, OthersStay
  <2> QED
    BY <2>1, <2>2 DEF BeginsLogged
<1>11. NeverEmpty'
  <2>1. ASSUME def'.required, NEW id \in Ids
        PROVE  /\ row'[id] # Null => row'[id].val # Null
               /\ \A k \in DOMAIN archive'[id] : archive'[id][k].rec.val # Null
    <3>1. def.required
      BY <1>2, <2>1
    <3>2. CASE Archived(id, t.at)
      BY <1>1, <1>6, <3>1, <3>2 DEF Archived, NeverEmpty
    <3>3. CASE Left(id)
      BY <1>1, <3>1, <3>3 DEF Left, NeverEmpty
    <3> QED
      BY <1>2, <3>2, <3>3
  <2> QED
    BY <2>1 DEF NeverEmpty
<1>12. ASSUME NEW id \in Ids PROVE InOrder(id)'
  <2>1. \A v \in Writers : tx'[v].op = "update" => tx'[v] = tx[v]
    BY <1>1, <1>2, OthersStay
  <2>2. InOrder(id)
    BY <1>1
  <2>3. CASE Archived(id, t.at)
    <3>1. \/ audit'[id] = audit[id]
          \/ \E f \in AuditRow : f.op = "delete" /\ audit'[id] = Append(audit[id], f)
      BY <1>2, <1>3
    <3> QED
      BY <1>1, <1>2, <2>1, <2>2, <2>3, <3>1, RecordArchived DEF InOrder, Ordered
  <2>4. CASE Left(id) /\ ~Archived(id, t.at)
    <3>1. audit'[id] = audit[id]
      BY <1>2, <1>3, <2>4
    <3> QED
      BY <1>2, <2>1, <2>2, <2>4, <3>1, RecordLeft DEF InOrder, Ordered
  <2> QED
    BY <1>2, <2>3, <2>4
<1>13. Fetched'
  <2>1. ASSUME NEW id \in Ids, archive[id] # <<>> PROVE archive'[id] # <<>>
    <3>1. archive[id] \in Seq(ArchiveRow)
      BY <1>1 DEF StoreTypeOK
    <3>2. CASE Archived(id, t.at)
      BY <3>1, <3>2, AppendElements DEF Archived
    <3>3. CASE Left(id)
      BY <2>1, <3>3 DEF Left
    <3> QED
      BY <1>2, <3>2, <3>3
  <2>2. ASSUME NEW v \in Writers, tx'[v].op = "restore", tx'[v].step = "write"
        PROVE  /\ archive'[tx'[v].id] # <<>> /\ tx'[v].before \in RecordRow
               /\ def'.required => tx'[v].before.val # Null
    <3>1. tx'[v] = tx[v] /\ tx[v].id \in Ids
      BY <1>1, <1>2, <2>2, OthersStay, TransactionFields
    <3> QED
      BY <1>1, <1>2, <2>1, <2>2, <3>1 DEF Fetched
  <2> QED
    BY <2>2 DEF Fetched
<1> QED
  BY <1>5, <1>8, <1>9, <1>10, <1>11, <1>12, <1>13 DEF StoreInv

\* The invariant of the records: transactions have times of their own, a create is alone
\* with its record, a required field is never without a value, a restore holds a row that
\* was archived, and of each record that no older row came back of, the log's versions
\* climb, the row is the last image, and an update in flight by a client that has seen
\* the version it sends has that of an image in the log.
THEOREM StoreInvariant == StoreSpec => []StoreInv
<1>1. StoreInv /\ [StoreNext]_recordVars => StoreInv'
  <2> SUFFICES ASSUME StoreInv, [StoreNext]_recordVars PROVE StoreInv'
    OBVIOUS
  <2>1. CASE StoreNext
    BY <2>1, StoreSteps, BeginKeeps, ReadKeeps, RefusedKeeps, ImageKeeps, DropKeeps
  <2>2. CASE UNCHANGED recordVars
    BY <2>2 DEF recordVars, StoreInv, StoreTypeOK, TimesDiffer, LatestThere, HasLatest, BeginsLogged,
                NeverEmpty, Fetched, InOrder, Rewindable, Overtaken, Climbs, Honest, Known, Wrote, Audited, UpTo, UpdateKnown
  <2> QED
    BY <2>1, <2>2
<1> QED
  BY <1>1, StoreStart, PTL DEF StoreSpec

\* An update by a client that has seen the version it sends replaces that very image,
\* versions climb with every write of a record unless a restore brought an older row
\* back, and a required field is never without a value (update_tx, restore_tx,
\* validate_record), for all records, values, definitions and writers.
THEOREM RecordsAreSound == StoreSpec => []RecordsSound
<1>1. StoreInv => RecordsSound
  <2> SUFFICES ASSUME StoreInv PROVE RecordsSound
    OBVIOUS
  <2>1. ASSUME NEW id \in Ids, ~Rewindable(id)
        PROVE  /\ \A k \in DOMAIN audit[id] :
                     audit[id][k].op = "update" /\ audit[id][k].base.val # Absent =>
                     /\ audit[id][k].before.ver = audit[id][k].base.ver
                     /\ audit[id][k].before.val = audit[id][k].base.val
               /\ \A j, k \in DOMAIN audit[id] :
                     j < k /\ audit[id][j].op # "delete" /\ audit[id][k].op # "delete"
                         => audit[id][j].after.ver < audit[id][k].after.ver
    BY <2>1 DEF StoreInv, InOrder, Climbs, Honest, Wrote, Audited
  <2>2. RequiredHeld
    BY DEF StoreInv, NeverEmpty, RequiredHeld, Gone
  <2> QED
    BY <2>1, <2>2 DEF RecordsSound, NoBlindWrite
<1> QED
  BY <1>1, StoreInvariant, PTL

-----------------------------------------------------------------------------
(* Imports *)

Stored == [ver : Nat \ {0}, num : Nat]

ImportFields == {"step", "mode", "abort", "dry", "rows", "plan", "n", "pend", "drawn", "wrote",
                 "failed", "done", "count"}

\* Of an import that was asked for, what the proofs need to know; pend is what its batch
\* would leave.
IsImport(r) ==
    /\ r = [x \in ImportFields |-> r[x]]
    /\ r.abort \in BOOLEAN /\ r.dry \in BOOLEAN /\ r.rows \in Files
    /\ r.plan \in Seq([error : BOOLEAN, base : Nat]) /\ r.n \in Nat \ {0}
    /\ \A k \in DOMAIN r.pend : k \in RowKeys /\ r.pend[k] \in Stored
    /\ r.drawn \in Seq(Nat)

RowsOf(S) == {d.row : d \in S}

\* Each row written has replaced the record that the validation saw.
FoundAsSeen(r, S) == \A d \in S :
    IF r.plan[d.row].base = 0 THEN d.over = NoRec
    ELSE d.over # NoRec /\ d.over.ver = r.plan[d.row].base

\* An import whose rows are being validated, and one whose rows are being written.
Planning(r) ==
    /\ Len(r.plan) = r.n - 1 /\ r.n <= Len(r.rows)
    /\ r.failed = {m \in 1..(r.n - 1) : r.plan[m].error}
    /\ r.pend = <<>> /\ r.drawn = <<>> /\ r.wrote = {} /\ r.done = {} /\ r.count = 0

InWriting(r) ==
    /\ ~r.dry /\ Len(r.plan) = Len(r.rows) /\ r.n <= Len(r.rows) + 1
    /\ \A m \in 1..Len(r.rows) : r.plan[m].error => m \in r.failed
    /\ \A m \in r.failed : m \in 1..Len(r.rows) /\ (m < r.n \/ r.plan[m].error)
    /\ RowsOf(r.wrote \cup r.done) = 1..(r.n - 1) \ r.failed
    /\ r.count = Cardinality(RowsOf(r.wrote \cup r.done))
    /\ FoundAsSeen(r, r.wrote \cup r.done)
    /\ r.abort => r.done = {} /\ r.failed = {}

\* The report, which is the property of an import that is done.
Reported(r) ==
    /\ r.count = Cardinality(RowsOf(r.done))
    /\ ~r.dry /\ ~r.abort => RowsOf(r.done) = DOMAIN r.rows \ r.failed
    /\ r.dry => RowsOf(r.done) = {}
    /\ r.abort => RowsOf(r.done) = {} \/ RowsOf(r.done) = DOMAIN r.rows
    /\ FoundAsSeen(r, r.done)

\* The numbers drawn follow the last that was issued.
DrawnInOrder(r) == r.step = "write" =>
    /\ r.drawn # <<>> => numbered
    /\ \A m \in 1..Len(r.drawn) : r.drawn[m] = seq + m

ImportOK(r) ==
    /\ r # NotAsked => IsImport(r)
    /\ r.step = "plan" => Planning(r)
    /\ r.step = "write" => InWriting(r)
    /\ r.step = "done" => Reported(r)
    /\ DrawnInOrder(r)

OneDraws == \A i, j \in Imports : Draws(i) /\ Draws(j) => i = j

NoGap == issued \in Seq(Nat) /\ Len(issued) = seq /\ \A n \in 1..seq : issued[n] = n

ImportTypeOK ==
    /\ numbered \in BOOLEAN /\ seq \in Nat
    /\ keyed \in [RowKeys -> Stored \cup {NoRec}]
    /\ DOMAIN imp = Imports

ImportInv ==
    /\ ImportTypeOK /\ NoGap /\ OneDraws
    /\ imp = [i \in Imports |-> imp[i]] /\ \A i \in Imports : ImportOK(imp[i])

\* No import has begun.
LEMMA ImportStart == ImportInit => ImportInv
<1> SUFFICES ASSUME ImportInit PROVE ImportInv
  OBVIOUS
<1>1. \A i \in Imports : imp[i] = NotAsked /\ ImportOK(imp[i]) /\ ~Draws(i)
  BY DEF ImportInit, NotAsked, ImportOK, DrawnInOrder, Draws, Writing
<1>2. ImportTypeOK /\ NoGap
  BY DEF ImportInit, ImportTypeOK, NoGap
<1> QED
  BY <1>1, <1>2 DEF ImportInit, ImportInv, OneDraws

\* What a file is made of.
LEMMA FileRows ==
    ASSUME NEW f \in Files
    PROVE  /\ Len(f) \in Nat \ {0} /\ DOMAIN f = 1..Len(f)
           /\ \A n \in 1..Len(f) : f[n].key \in RowKeys
<1> DEFINE RowSet == [key : RowKeys, fault : {"no", "shape", "rule"}]
<1>1. f \in Seq(RowSet) /\ Len(f) > 0
  BY ImportAssumption
<1>2. \A x \in RowSet : x.key \in RowKeys
  OBVIOUS
<1> HIDE DEF RowSet
<1>3. \A n \in 1..Len(f) : f[n] \in RowSet
  BY <1>1
<1> QED
  BY <1>1, <1>2, <1>3

\* What an import is stays in order, unless it has drawn numbers and others are issued.
LEMMA StaysInOrder ==
    ASSUME NEW j \in Imports, ImportOK(imp'[j]), numbered' = numbered,
           seq' = seq \/ (imp'[j].step = "write" => imp'[j].drawn = <<>>)
    PROVE  ImportOK(imp[j])'
<1>1. DrawnInOrder(imp[j])'
  BY DEF ImportOK, DrawnInOrder
<1> QED
  BY <1>1 DEF ImportOK, IsImport, Planning, InWriting, Reported, FoundAsSeen

\* The numbers drawn, after those issued.
LEMMA Joined ==
    ASSUME NEW s \in Seq(Nat), NEW t \in Seq(Nat)
    PROVE  /\ s \o t \in Seq(Nat) /\ Len(s \o t) = Len(s) + Len(t)
           /\ \A n \in 1..Len(s) : (s \o t)[n] = s[n]
           /\ \A n \in 1..Len(t) : (s \o t)[Len(s) + n] = t[n]
OBVIOUS

\* An import that becomes something in order, drawing nothing while another does, keeps
\* the invariant.
LEMMA TurnKeeps ==
    ASSUME ImportInv, NEW i \in Imports, NEW r, ImportOK(r), Turn(i, r),
           r.step = "write" /\ r.drawn # <<>> => \A j \in Imports \ {i} : ~Draws(j),
           UNCHANGED <<numbered, keyed, seq, issued>>
    PROVE  ImportInv'
<1>1. imp' = [j \in Imports |-> IF j = i THEN r ELSE imp[j]]
  BY DEF ImportInv, Turn
<1>2. \A j \in Imports : imp'[j] = IF j = i THEN r ELSE imp[j]
  BY <1>1
<1>3. ASSUME NEW j \in Imports PROVE ImportOK(imp[j])'
  <2>1. ImportOK(imp'[j])
    BY <1>2 DEF ImportInv
  <2> QED
    BY <2>1, StaysInOrder
<1>4. OneDraws'
  <2>1. \A j \in Imports \ {i} : Draws(j)' => Draws(j)
    BY <1>2 DEF Draws, Writing
  <2>2. Draws(i)' => r.step = "write" /\ r.drawn # <<>>
    BY <1>2 DEF Draws, Writing
  <2> QED
    BY <2>1, <2>2 DEF OneDraws, ImportInv
<1>5. ImportTypeOK' /\ NoGap'
  BY <1>1 DEF ImportInv, ImportTypeOK, NoGap
<1>6. imp' = [j \in Imports |-> imp'[j]]
  BY <1>1, <1>2
<1> QED
  BY <1>3, <1>4, <1>5, <1>6 DEF ImportInv

\* A file that is submitted.
LEMMA SubmitKeeps ==
    ASSUME ImportInv, NEW i \in Imports, NEW mode \in {"create", "update", "upsert"},
           NEW a \in BOOLEAN, NEW d \in BOOLEAN, NEW f \in Files, Submit(i, mode, a, d, f)
    PROVE  ImportInv'
<1> DEFINE r == [step |-> "plan", mode |-> mode, abort |-> a, dry |-> d, rows |-> f,
                 plan |-> <<>>, n |-> 1, pend |-> <<>>, drawn |-> <<>>, wrote |-> {},
                 failed |-> {}, done |-> {}, count |-> 0]
<1>1. r = [x \in ImportFields |-> r[x]]
  BY DEF ImportFields
<1>2. IsImport(r)
  BY <1>1 DEF IsImport
<1>3. Planning(r)
  BY FileRows DEF Planning
<1>4. ImportOK(r)
  BY <1>2, <1>3 DEF ImportOK, DrawnInOrder
<1> QED
  BY <1>4, TurnKeeps DEF Submit

\* The next row.
LEMMA NextRow ==
    ASSUME NEW r, IsImport(r)
    PROVE  IsImport(Next1(r)) /\ Next1(r) = [r EXCEPT !.n = r.n + 1]
<1>1. r = [x \in ImportFields |-> r[x]] /\ r.n \in Nat \ {0}
  BY DEF IsImport
<1>2. Next1(r) = [r EXCEPT !.n = r.n + 1]
  BY DEF Next1
<1>3. Next1(r) = [x \in ImportFields |-> IF x = "n" THEN r.n + 1 ELSE r[x]]
  BY <1>1, <1>2 DEF ImportFields
<1>4. IsImport(Next1(r))
  <2> DEFINE s == Next1(r)
  <2>1. s = [x \in ImportFields |-> IF x = "n" THEN r.n + 1 ELSE r[x]]
    BY <1>3
  <2> HIDE DEF s
  <2>2. IsImport(s)
    BY <1>1, <2>1 DEF IsImport, ImportFields
  <2> QED
    BY <2>2 DEF s
<1> QED
  BY <1>2, <1>4

\* A row of the plan.
LEMMA PlanGrows ==
    ASSUME NEW s \in Seq([error : BOOLEAN, base : Nat]), NEW e \in BOOLEAN, NEW b \in Nat
    PROVE  LET t == Append(s, [error |-> e, base |-> b]) IN
           /\ t \in Seq([error : BOOLEAN, base : Nat]) /\ Len(t) = Len(s) + 1
           /\ \A m \in 1..Len(s) : t[m] = s[m]
           /\ t[Len(s) + 1].error = e
OBVIOUS

\* A row is validated; after the last one the rows are written, or the report is made.
LEMMA PlanKeeps ==
    ASSUME ImportInv, NEW i \in Imports, PlanRow(i)
    PROVE  ImportInv'
<1> DEFINE r == imp[i]
           n == r.n
           plan == Append(r.plan, [error |-> Error(i, n), base |-> Resolved(i, n)])
           bad == r.failed \cup (IF Error(i, n) THEN {n} ELSE {})
           next == [Next1(r) EXCEPT !.plan = plan, !.failed = bad]
           last == [r EXCEPT !.plan = plan, !.failed = bad, !.n = 1,
                             !.step = IF Writes(r, plan) THEN "write" ELSE "done"]
<1>1. /\ r.step = "plan" /\ Turn(i, IF n < Len(r.rows) THEN next ELSE last)
      /\ UNCHANGED <<numbered, keyed, seq, issued>>
  BY DEF PlanRow
<1>2. IsImport(r) /\ Planning(r)
  BY <1>1 DEF ImportInv, ImportOK, NotAsked
<1>3. r.rows \in Files /\ n \in 1..Len(r.rows)
  BY <1>2 DEF IsImport, ImportFields, Planning
<1>4. Error(i, n) \in BOOLEAN /\ Resolved(i, n) \in Nat
  <2>1. r.rows[n].key \in RowKeys
    BY <1>3, FileRows
  <2> QED
    BY <2>1, FileRows DEF Error, Resolved, Earlier, ImportInv, ImportTypeOK, Stored
<1>5. /\ plan \in Seq([error : BOOLEAN, base : Nat]) /\ Len(plan) = n
      /\ \A m \in 1..(n - 1) : plan[m] = r.plan[m]
      /\ plan[n].error = Error(i, n)
  BY <1>2, <1>4, PlanGrows DEF Planning, IsImport, ImportFields
<1>6. bad = {m \in 1..n : plan[m].error} /\ bad \in SUBSET Nat
  BY <1>2, <1>3, <1>5 DEF Planning
<1> HIDE DEF plan, bad
<1>7. CASE n < Len(r.rows)
  <2>1. IsImport(next)
    <3> DEFINE s == Next1(r)
    <3>1. IsImport(s) /\ next = [s EXCEPT !.plan = plan, !.failed = bad]
      BY <1>2, NextRow
    <3> HIDE DEF s, next
    <3>2. next = [x \in ImportFields |-> IF x = "plan" THEN plan ELSE IF x = "failed" THEN bad ELSE s[x]]
      BY <3>1 DEF IsImport, ImportFields
    <3> QED
      BY <1>5, <3>1, <3>2 DEF IsImport, ImportFields
  <2>2. /\ next.step = "plan" /\ next.n = n + 1 /\ next.plan = plan /\ next.failed = bad
        /\ next.rows = r.rows /\ next.pend = r.pend /\ next.drawn = r.drawn
        /\ next.wrote = r.wrote /\ next.done = r.done /\ next.count = r.count
    BY <1>1, <1>2 DEF Next1, IsImport, ImportFields
  <2>4. n + 1 \in Nat /\ (n + 1) - 1 = n /\ Len(r.rows) \in Nat /\ n \in Nat
    BY <1>3, FileRows
  <2>5. Planning(next)
    BY <1>2, <1>5, <1>6, <1>7, <2>2, <2>4 DEF Planning
  <2>3. ImportOK(next)
    BY <2>1, <2>2, <2>5 DEF ImportOK, DrawnInOrder
  <2> HIDE DEF next, r
  <2>6. Turn(i, next) /\ next.step = "plan" /\ UNCHANGED <<numbered, keyed, seq, issued>>
    BY <1>1, <1>7, <2>2
  <2> QED
    BY <2>3, <2>6, TurnKeeps
<1>8. CASE ~(n < Len(r.rows))
  <2>0. n = Len(r.rows) /\ IsImport(last)
    <3>1. Len(r.rows) \in Nat
      BY <1>3, FileRows
    <3>2. n = Len(r.rows)
      BY <1>3, <1>8, <3>1
    <3>3. IsImport(r) /\ plan \in Seq([error : BOOLEAN, base : Nat]) /\ bad \in SUBSET Nat
      BY <1>2, <1>5, <1>6
    <3>4. IsImport(last)
      <4> HIDE DEF r
      <4>1. last = [x \in ImportFields |->
                      CASE x = "plan" -> plan [] x = "failed" -> bad [] x = "n" -> 1
                        [] x = "step" -> (IF Writes(r, plan) THEN "write" ELSE "done")
                        [] OTHER -> r[x]]
        BY <3>3 DEF IsImport, ImportFields
      <4> HIDE DEF last
      <4> QED
        BY <3>3, <4>1 DEF IsImport, ImportFields
    <3> QED
      BY <3>2, <3>4
  <2>1. /\ last.rows = r.rows /\ last.plan = plan
        /\ last.failed = bad /\ last.n = 1 /\ last.pend = <<>> /\ last.drawn = <<>>
        /\ last.wrote = {} /\ last.done = {} /\ last.count = 0 /\ last.abort = r.abort
        /\ last.dry = r.dry /\ last.step = IF Writes(r, plan) THEN "write" ELSE "done"
    BY <1>2 DEF IsImport, ImportFields, Planning
  <2>9. Turn(i, last) /\ UNCHANGED <<numbered, keyed, seq, issued>>
    BY <1>1, <1>8
  <2> HIDE DEF last
  <2>2. RowsOf({}) = {} /\ Cardinality({}) = 0
    BY FS_EmptySet DEF RowsOf
  <2>3. FoundAsSeen(last, {})
    BY DEF FoundAsSeen
  <2>4. DrawnInOrder(last)
    BY <2>1 DEF DrawnInOrder
  <2>5. CASE Writes(r, plan)
    <3>1. InWriting(last)
      <4>1. Len(r.rows) \in Nat \ {0}
        BY <1>3, FileRows
      <4>2. /\ ~last.dry /\ Len(last.plan) = Len(last.rows) /\ last.n <= Len(last.rows) + 1
            /\ RowsOf(last.wrote \cup last.done) = {} /\ 1..(last.n - 1) = {}
            /\ FoundAsSeen(last, last.wrote \cup last.done)
        BY <1>5, <2>0, <2>1, <2>2, <2>3, <2>5, <4>1 DEF Writes
      <4>3. last.failed = {m \in 1..Len(last.rows) : last.plan[m].error}
        BY <1>6, <2>0, <2>1
      <4>4. last.abort => last.failed = {}
        BY <1>5, <1>6, <2>0, <2>1, <2>5, <4>1 DEF Writes, IsImport, ImportFields
      <4> QED
        BY <2>1, <2>2, <4>2, <4>3, <4>4 DEF InWriting
    <3> QED
      BY <2>0, <2>1, <2>4, <2>5, <2>9, <3>1, TurnKeeps DEF ImportOK
  <2>6. CASE ~Writes(r, plan)
    <3>1. Reported(last)
      BY <1>3, <1>5, <1>6, <2>0, <2>1, <2>2, <2>3, <2>6, FileRows DEF Reported, Writes
    <3> QED
      BY <2>0, <2>1, <2>4, <2>6, <2>9, <3>1, TurnKeeps DEF ImportOK
  <2> QED
    BY <2>5, <2>6
<1> QED
  BY <1>7, <1>8

\* A row that fails: an import that aborts writes nothing, another goes on without the row.
LEMMA FailingKeeps ==
    ASSUME ImportInv, NEW i \in Imports, Writing(i), imp[i].n <= Len(imp[i].rows),
           ~imp[i].plan[imp[i].n].error, Turn(i, Abandoned(imp[i])),
           UNCHANGED <<numbered, keyed, seq, issued>>
    PROVE  ImportInv'
<1> DEFINE r == imp[i]
           s == Abandoned(r)
           n == r.n
<1>1. IsImport(r) /\ InWriting(r) /\ DrawnInOrder(r) /\ r.step = "write"
  BY DEF ImportInv, ImportOK, NotAsked, Writing
<1>2. n \in 1..Len(r.rows) /\ Len(r.rows) \in Nat /\ DOMAIN r.rows = 1..Len(r.rows)
  BY <1>1, FileRows DEF IsImport, ImportFields
<1>3. CASE r.abort
  <2>1. /\ s = [r EXCEPT !.step = "done", !.failed = r.failed \cup {n}, !.count = 0,
                         !.pend = <<>>, !.drawn = <<>>, !.wrote = {}]
    BY <1>1, <1>3 DEF Abandoned, IsImport, ImportFields
  <2>3. IsImport(s)
    <3> HIDE DEF r
    <3>1. s = [x \in ImportFields |->
                 CASE x = "step" -> "done" [] x = "failed" -> r.failed \cup {n} [] x = "count" -> 0
                   [] x = "pend" -> <<>> [] x = "drawn" -> <<>> [] x = "wrote" -> {}
                   [] OTHER -> r[x]]
      BY <1>1, <2>1 DEF IsImport, ImportFields
    <3> HIDE DEF s
    <3> QED
      BY <1>1, <3>1 DEF IsImport, ImportFields
  <2>4. s.step = "done" /\ s.count = 0 /\ s.done = {} /\ s.abort /\ ~s.dry
    BY <1>1, <1>3, <2>1 DEF InWriting, IsImport, ImportFields
  <2> HIDE DEF s
  <2>5. RowsOf({}) = {} /\ Cardinality({}) = 0
    BY FS_EmptySet DEF RowsOf
  <2>6. Reported(s)
    BY <2>4, <2>5 DEF Reported, FoundAsSeen
  <2> QED
    BY <2>3, <2>4, <2>6, TurnKeeps DEF ImportOK, DrawnInOrder, s
<1>4. CASE ~r.abort
  <2>1. /\ s = [r EXCEPT !.n = n + 1, !.failed = r.failed \cup {n}] /\ IsImport(s)
    <3> HIDE DEF r
    <3>1. n + 1 \in Nat \ {0}
      BY <1>1, <1>2 DEF IsImport, ImportFields
    <3>2. s = [r EXCEPT !.n = n + 1, !.failed = r.failed \cup {n}]
      BY <1>1, <1>4 DEF Abandoned, Next1, IsImport, ImportFields
    <3> QED
      BY <1>1, <3>1, <3>2 DEF IsImport, ImportFields
  <2>2. /\ s.step = "write" /\ s.abort = r.abort /\ s.dry = r.dry /\ s.rows = r.rows
        /\ s.plan = r.plan /\ s.n = n + 1 /\ s.drawn = r.drawn /\ s.wrote = r.wrote
        /\ s.failed = r.failed \cup {n} /\ s.done = r.done /\ s.count = r.count
    BY <1>1, <2>1 DEF IsImport, ImportFields
  <2>3. Turn(i, s)
    OBVIOUS
  <2> HIDE DEF s
  <2>4. 1..(s.n - 1) \ s.failed = 1..(n - 1) \ r.failed
    BY <1>2, <2>2
  <2>5. InWriting(s)
    <3>1. \A m \in s.failed : m \in 1..Len(s.rows) /\ (m < s.n \/ s.plan[m].error)
      BY <1>1, <1>2, <2>2 DEF InWriting
    <3>2. \A m \in 1..Len(s.rows) : s.plan[m].error => m \in s.failed
      BY <1>1, <2>2 DEF InWriting
    <3>3. FoundAsSeen(s, s.wrote \cup s.done)
      BY <1>1, <2>2 DEF InWriting, FoundAsSeen
    <3>4. /\ RowsOf(s.wrote \cup s.done) = 1..(s.n - 1) \ s.failed
          /\ s.count = Cardinality(RowsOf(s.wrote \cup s.done))
      BY <1>1, <2>2, <2>4 DEF InWriting
    <3>5. ~s.dry /\ ~s.abort /\ Len(s.plan) = Len(s.rows) /\ s.n <= Len(s.rows) + 1
      BY <1>1, <1>2, <1>4, <2>2 DEF InWriting
    <3> QED
      BY <3>1, <3>2, <3>3, <3>4, <3>5 DEF InWriting
  <2>6. DrawnInOrder(s)
    BY <1>1, <2>2 DEF DrawnInOrder
  <2>7. s.drawn # <<>> => \A j \in Imports \ {i} : ~Draws(j)
    BY <2>2 DEF ImportInv, OneDraws, Draws, Writing
  <2> QED
    BY <2>1, <2>2, <2>3, <2>5, <2>6, <2>7, TurnKeeps DEF ImportOK
<1> QED
  BY <1>3, <1>4

\* A row counted once more.
LEMMA OneMoreRow ==
    ASSUME NEW n \in Nat \ {0}, NEW F, NEW R, R = 1..(n - 1) \ F, n \notin F
    PROVE  R \cup {n} = 1..n \ F /\ Cardinality(R \cup {n}) = Cardinality(R) + 1
<1>1. IsFiniteSet(1..(n - 1))
  BY FS_Interval
<1>2. IsFiniteSet(R) /\ n \notin R
  BY <1>1, FS_Subset
<1>3. Cardinality(R \cup {n}) = Cardinality(R) + 1
  BY <1>2, FS_AddElement
<1>4. R \cup {n} = 1..n \ F
  OBVIOUS
<1> QED
  BY <1>3, <1>4

\* The record that an import sees is one.
LEMMA SeesRecord ==
    ASSUME ImportInv, NEW i \in Imports, NEW k \in RowKeys
    PROVE  Seen(i, k) \in Stored \cup {NoRec}
<1>1. CASE Holds(i, k)
  <2>1. IsImport(imp[i]) /\ k \in DOMAIN imp[i].pend
    BY <1>1 DEF ImportInv, ImportOK, NotAsked, Holds, Writing
  <2> QED
    BY <1>1, <2>1 DEF Seen, IsImport
<1>2. CASE ~Holds(i, k)
  BY <1>2 DEF Seen, ImportInv, ImportTypeOK
<1> QED
  BY <1>1, <1>2

\* What a write that succeeds makes of an import.
Advanced(r, n, new, d, numbers) ==
    [r EXCEPT !.n = n + 1, !.count = @ + 1, !.wrote = @ \cup {d},
              !.pend = [x \in DOMAIN @ \cup {r.rows[n].key} |->
                           IF x = r.rows[n].key THEN new ELSE @[x]],
              !.drawn = numbers]

\* A row that was written: it has replaced the record that the validation saw, and any number
\* it has is the next one.
LEMMA WrittenKeeps ==
    ASSUME ImportInv, NEW i \in Imports, Writing(i), imp[i].n <= Len(imp[i].rows),
           ~imp[i].plan[imp[i].n].error, ~Fails(i, imp[i].n),
           NEW new \in Stored, NEW over, over = Seen(i, imp[i].rows[imp[i].n].key),
           NEW numbers \in Seq(Nat),
           \/ numbers = imp[i].drawn
           \/ /\ numbered /\ \A j \in Imports \ {i} : ~Draws(j)
              /\ numbers = Append(imp[i].drawn, seq + Len(imp[i].drawn) + 1),
           Turn(i, Advanced(imp[i], imp[i].n, new, [row |-> imp[i].n, over |-> over], numbers)),
           UNCHANGED <<numbered, keyed, seq, issued>>
    PROVE  ImportInv'
<1> DEFINE r == imp[i]
           n == r.n
           k == r.rows[n].key
           d == [row |-> n, over |-> over]
           pend == [x \in DOMAIN r.pend \cup {k} |-> IF x = k THEN new ELSE r.pend[x]]
           s == Advanced(r, n, new, d, numbers)
<1>1. IsImport(r) /\ InWriting(r) /\ DrawnInOrder(r) /\ r.step = "write"
  BY DEF ImportInv, ImportOK, NotAsked, Writing
<1>2. /\ n \in 1..Len(r.rows) /\ n \in Nat \ {0} /\ Len(r.rows) \in Nat /\ k \in RowKeys
      /\ n \notin r.failed
  <2>1. r.rows \in Files /\ n \in Nat \ {0}
    BY <1>1 DEF IsImport
  <2>2. Len(r.rows) \in Nat /\ n \in 1..Len(r.rows)
    BY <2>1, FileRows
  <2>3. k \in RowKeys
    BY <2>1, <2>2, FileRows
  <2>4. n \notin r.failed
    BY <1>1, <2>1 DEF InWriting
  <2> QED
    BY <2>1, <2>2, <2>3, <2>4
<1>3. s = [x \in ImportFields |->
             CASE x = "n" -> n + 1 [] x = "count" -> r.count + 1 [] x = "wrote" -> r.wrote \cup {d}
               [] x = "pend" -> pend [] x = "drawn" -> numbers [] OTHER -> r[x]]
  <2> HIDE DEF r, d
  <2> QED
    BY <1>1 DEF Advanced, IsImport, ImportFields
<1>4. Turn(i, s)
  OBVIOUS
<1> HIDE DEF s
<1>5. /\ s.step = "write" /\ s.abort = r.abort /\ s.dry = r.dry /\ s.rows = r.rows /\ s.plan = r.plan
      /\ s.n = n + 1 /\ s.pend = pend /\ s.drawn = numbers /\ s.wrote = r.wrote \cup {d}
      /\ s.failed = r.failed /\ s.done = r.done /\ s.count = r.count + 1
      /\ s = [x \in ImportFields |-> s[x]]
  BY <1>1, <1>3 DEF ImportFields
<1>6. IsImport(s)
  <2>1. \A x \in DOMAIN pend : x \in RowKeys /\ pend[x] \in Stored
    BY <1>1, <1>2 DEF IsImport
  <2> HIDE DEF pend, r, d
  <2> QED
    BY <1>1, <1>2, <1>5, <2>1 DEF IsImport
<1>7. FoundAsSeen(s, s.wrote \cup s.done)
  <2>1. over \in Stored \cup {NoRec}
    BY <1>2, SeesRecord
  <2>2. IF r.plan[n].base = 0 THEN over = NoRec ELSE over # NoRec /\ over.ver = r.plan[n].base
    BY <1>2, <2>1 DEF Fails
  <2>3. \A e \in r.wrote \cup r.done :
           IF r.plan[e.row].base = 0 THEN e.over = NoRec
           ELSE e.over # NoRec /\ e.over.ver = r.plan[e.row].base
    BY <1>1 DEF InWriting, FoundAsSeen
  <2>4. d.row = n /\ d.over = over
    OBVIOUS
  <2> HIDE DEF d, r, n
  <2> QED
    BY <1>5, <2>2, <2>3, <2>4 DEF FoundAsSeen
<1>8. /\ RowsOf(s.wrote \cup s.done) = 1..(s.n - 1) \ s.failed
      /\ s.count = Cardinality(RowsOf(s.wrote \cup s.done))
  <2>1. s.wrote \cup s.done = (r.wrote \cup r.done) \cup {d} /\ s.n - 1 = n
    BY <1>2, <1>5
  <2>2. d.row = n
    OBVIOUS
  <2> DEFINE R == RowsOf(r.wrote \cup r.done)
             F == r.failed
  <2>3. R = 1..(n - 1) \ F /\ r.count = Cardinality(R) /\ n \in Nat \ {0} /\ n \notin F
    BY <1>1, <1>2 DEF InWriting
  <2>4. RowsOf(s.wrote \cup s.done) = R \cup {n}
    <3> HIDE DEF d
    <3> QED
      BY <2>1, <2>2 DEF RowsOf
  <2> HIDE DEF R, F, r, n
  <2>5. R \cup {n} = 1..n \ F /\ Cardinality(R \cup {n}) = Cardinality(R) + 1
    BY <2>3, OneMoreRow, SMTT(20)
  <2> QED
    BY <1>5, <2>1, <2>3, <2>4, <2>5 DEF F
<1>9. InWriting(s)
  <2>1. \A m \in s.failed : m \in 1..Len(s.rows) /\ (m < s.n \/ s.plan[m].error)
    BY <1>1, <1>2, <1>5 DEF InWriting
  <2>2. \A m \in 1..Len(s.rows) : s.plan[m].error => m \in s.failed
    BY <1>1, <1>5 DEF InWriting
  <2>3. /\ ~s.dry /\ Len(s.plan) = Len(s.rows) /\ s.n <= Len(s.rows) + 1
        /\ s.abort => s.done = {} /\ s.failed = {}
    BY <1>1, <1>2, <1>5 DEF InWriting
  <2> QED
    BY <1>7, <1>8, <2>1, <2>2, <2>3 DEF InWriting
<1>10. DrawnInOrder(s) /\ (numbers # <<>> => \A j \in Imports \ {i} : ~Draws(j))
  <2>1. CASE numbers = r.drawn
    BY <1>1, <1>5, <2>1 DEF DrawnInOrder, ImportInv, OneDraws, Draws, Writing
  <2>2. CASE /\ numbered /\ \A j \in Imports \ {i} : ~Draws(j)
             /\ numbers = Append(r.drawn, seq + Len(r.drawn) + 1)
    <3>1. r.drawn \in Seq(Nat) /\ seq \in Nat
      BY <1>1 DEF IsImport, ImportInv, ImportTypeOK
    <3>2. /\ Len(numbers) = Len(r.drawn) + 1 /\ numbers[Len(numbers)] = seq + Len(numbers)
          /\ \A m \in 1..Len(r.drawn) : numbers[m] = r.drawn[m]
      BY <2>2, <3>1
    <3>3. \A m \in 1..Len(r.drawn) : r.drawn[m] = seq + m
      BY <1>1 DEF DrawnInOrder
    <3>4. \A m \in 1..Len(numbers) : numbers[m] = seq + m
      <4>1. Len(r.drawn) \in Nat
        BY <3>1
      <4> HIDE DEF r
      <4> QED
        BY <3>2, <3>3, <4>1
    <3> QED
      BY <1>5, <2>2, <3>4 DEF DrawnInOrder
  <2> QED
    BY <2>1, <2>2
<1> QED
  BY <1>4, <1>5, <1>6, <1>9, <1>10, TurnKeeps DEF ImportOK

\* A row is written, is passed over, or fails.
LEMMA WriteKeeps ==
    ASSUME ImportInv, NEW i \in Imports, WriteRow(i)
    PROVE  ImportInv'
<1> DEFINE r == imp[i]
           n == r.n
           k == r.rows[n].key
           fresh == r.plan[n].base = 0
           number == IF numbered /\ fresh THEN seq + Len(r.drawn) + 1 ELSE 0
           new == IF fresh THEN [ver |-> 1, num |-> number] ELSE [Seen(i, k) EXCEPT !.ver = @ + 1]
           d == [row |-> n, over |-> Seen(i, k)]
           numbers == IF number = 0 THEN r.drawn ELSE Append(r.drawn, number)
           s == Advanced(r, n, new, d, numbers)
<1>1. /\ Writing(i) /\ ~BatchEnds(r) /\ \A j \in Imports : ~WaitsFor(i, j)
      /\ UNCHANGED <<numbered, keyed, seq, issued>>
      /\ Turn(i, IF r.plan[n].error THEN Next1(r) ELSE IF Fails(i, n) THEN Abandoned(r) ELSE
                 [Next1(r) EXCEPT !.count = @ + 1, !.wrote = @ \cup {d},
                     !.pend  = [x \in DOMAIN @ \cup {k} |-> IF x = k THEN new ELSE @[x]],
                     !.drawn = IF number = 0 THEN @ ELSE Append(@, number)])
  BY DEF WriteRow
<1>2. IsImport(r) /\ InWriting(r) /\ DrawnInOrder(r) /\ r.step = "write"
  <2>1. imp[i].step = "write"
    BY <1>1 DEF Writing
  <2> QED
    BY <2>1 DEF ImportInv, ImportOK, NotAsked
<1>3. r.rows \in Files /\ n \in Nat \ {0} /\ r.drawn \in Seq(Nat) /\ Len(r.drawn) \in Nat
  BY <1>2 DEF IsImport
<1>4. n \in 1..Len(r.rows) /\ k \in RowKeys /\ n <= Len(r.rows) /\ Len(r.rows) \in Nat
  <2>1. Len(r.rows) \in Nat /\ n <= Len(r.rows)
    <3>1. ~(r.n > Len(r.rows))
      BY <1>1, Zenon DEF BatchEnds
    <3> QED
      BY <1>3, <3>1, FileRows
  <2>2. n \in 1..Len(r.rows)
    BY <1>3, <2>1
  <2> QED
    BY <1>3, <2>1, <2>2, FileRows
<1>5. CASE r.plan[n].error
  <2> DEFINE t == Next1(r)
  <2>1. IsImport(t) /\ t = [r EXCEPT !.n = n + 1] /\ Turn(i, t)
    BY <1>1, <1>2, <1>5, NextRow
  <2>2. /\ t.step = "write" /\ t.abort = r.abort /\ t.dry = r.dry /\ t.rows = r.rows
        /\ t.plan = r.plan /\ t.n = n + 1 /\ t.drawn = r.drawn /\ t.wrote = r.wrote
        /\ t.failed = r.failed /\ t.done = r.done /\ t.count = r.count
    BY <1>2, <2>1 DEF IsImport, ImportFields
  <2> HIDE DEF t
  <2>3. n \in r.failed
    BY <1>2, <1>4, <1>5 DEF InWriting
  <2>4. 1..(t.n - 1) \ t.failed = 1..(n - 1) \ r.failed
    BY <1>3, <2>2, <2>3
  <2>5. InWriting(t)
    <3>1. \A m \in t.failed : m \in 1..Len(t.rows) /\ (m < t.n \/ t.plan[m].error)
      BY <1>2, <1>3, <2>2 DEF InWriting
    <3>2. \A m \in 1..Len(t.rows) : t.plan[m].error => m \in t.failed
      BY <1>2, <2>2 DEF InWriting
    <3>3. FoundAsSeen(t, t.wrote \cup t.done)
      BY <1>2, <2>2 DEF InWriting, FoundAsSeen
    <3>4. /\ RowsOf(t.wrote \cup t.done) = 1..(t.n - 1) \ t.failed
          /\ t.count = Cardinality(RowsOf(t.wrote \cup t.done))
      BY <1>2, <2>2, <2>4 DEF InWriting
    <3>5. /\ ~t.dry /\ Len(t.plan) = Len(t.rows) /\ t.n <= Len(t.rows) + 1
          /\ t.abort => t.done = {} /\ t.failed = {}
      BY <1>2, <1>3, <1>4, <2>2 DEF InWriting
    <3> QED
      BY <3>1, <3>2, <3>3, <3>4, <3>5 DEF InWriting
  <2>6. DrawnInOrder(t)
    BY <1>2, <2>2 DEF DrawnInOrder
  <2>7. t.drawn # <<>> => \A j \in Imports \ {i} : ~Draws(j)
    BY <1>1, <2>2 DEF ImportInv, OneDraws, Draws
  <2> QED
    BY <1>1, <2>1, <2>2, <2>5, <2>6, <2>7, TurnKeeps DEF ImportOK
<1>6. CASE ~r.plan[n].error /\ Fails(i, n)
  BY <1>1, <1>4, <1>6, FailingKeeps
<1>7. CASE ~r.plan[n].error /\ ~Fails(i, n)
  <2>1. Turn(i, s)
    <3>1. [Next1(r) EXCEPT !.count = @ + 1, !.wrote = @ \cup {d},
                     !.pend  = [x \in DOMAIN @ \cup {k} |-> IF x = k THEN new ELSE @[x]],
                     !.drawn = IF number = 0 THEN @ ELSE Append(@, number)] = s
      <4> HIDE DEF r, d, k, new, number
      <4> QED
        BY <1>2 DEF Next1, Advanced, IsImport, ImportFields, k, n
    <3> QED
      BY <1>1, <1>7, <3>1
  <2>2. new \in Stored
    <3>1. number \in Nat
      BY <1>3 DEF ImportInv, ImportTypeOK
    <3>2. CASE fresh
      <4> HIDE DEF number
      <4> QED
        BY <3>1, <3>2 DEF Stored
    <3>3. CASE ~fresh
      <4>1. Seen(i, k) \in Stored
        BY <1>4, <1>7, <3>3, SeesRecord DEF Fails
      <4> QED
        BY <3>3, <4>1 DEF Stored
    <3> QED
      BY <3>2, <3>3
  <2>3. /\ numbers \in Seq(Nat)
        /\ \/ numbers = r.drawn
           \/ /\ numbered /\ \A j \in Imports \ {i} : ~Draws(j)
              /\ numbers = Append(r.drawn, seq + Len(r.drawn) + 1)
    <3>1. CASE ~(numbered /\ fresh)
      BY <1>3, <3>1
    <3>2. CASE numbered /\ fresh
      <4>1. number = seq + Len(r.drawn) + 1 /\ number \in Nat \ {0}
        BY <1>3, <3>2 DEF ImportInv, ImportTypeOK
      <4>2. \A j \in Imports \ {i} : ~Draws(j)
        BY <1>1, <1>4, <1>7, <3>2 DEF WaitsFor
      <4>3. numbers = Append(r.drawn, number)
        BY <4>1
      <4>4. Append(r.drawn, number) \in Seq(Nat)
        BY <1>3, <4>1
      <4> QED
        BY <3>2, <4>1, <4>2, <4>3, <4>4
    <3> QED
      BY <3>1, <3>2
  <2> HIDE DEF new, numbers
  <2>4. Turn(i, Advanced(r, n, new, [row |-> n, over |-> Seen(i, k)], numbers))
    BY <2>1
  <2> QED
    BY <1>1, <1>4, <1>7, <2>2, <2>3, <2>4, WrittenKeeps
<1> QED
  BY <1>5, <1>6, <1>7

\* A batch that commits leaves its rows written, and issues the numbers it has drawn.
LEMMA CommitKeeps ==
    ASSUME ImportInv, NEW i \in Imports, CommitBatch(i)
    PROVE  ImportInv'
<1> DEFINE r == imp[i]
           s == [r EXCEPT !.step = IF r.n > Len(r.rows) THEN "done" ELSE "write", !.pend = <<>>,
                          !.drawn = <<>>, !.done = r.done \cup r.wrote, !.wrote = {}]
<1>1. /\ Writing(i) /\ BatchEnds(r) /\ keyed' = [k \in RowKeys |-> Seen(i, k)]
      /\ seq' = seq + Len(r.drawn) /\ issued' = issued \o r.drawn /\ numbered' = numbered
      /\ Turn(i, s)
  BY DEF CommitBatch
<1>2. IsImport(r) /\ InWriting(r) /\ DrawnInOrder(r) /\ r.step = "write"
  BY <1>1 DEF ImportInv, ImportOK, NotAsked, Writing
<1>3. /\ r.rows \in Files /\ Len(r.rows) \in Nat /\ DOMAIN r.rows = 1..Len(r.rows)
      /\ r.drawn \in Seq(Nat) /\ Len(r.drawn) \in Nat /\ r.n \in Nat \ {0}
  BY <1>2, FileRows DEF IsImport
<1>4. \A j \in Imports : imp'[j] = IF j = i THEN s ELSE imp[j]
  BY <1>1 DEF ImportInv, Turn
<1>5. imp' = [j \in Imports |-> imp'[j]]
  BY <1>1 DEF ImportInv, Turn
<1>6. s = [x \in ImportFields |->
             CASE x = "step" -> (IF r.n > Len(r.rows) THEN "done" ELSE "write") [] x = "pend" -> <<>>
               [] x = "drawn" -> <<>> [] x = "done" -> r.done \cup r.wrote [] x = "wrote" -> {}
               [] OTHER -> r[x]]
  <2> HIDE DEF r
  <2> QED
    BY <1>2 DEF IsImport, ImportFields
<1> HIDE DEF s
<1>7. /\ s.step = (IF r.n > Len(r.rows) THEN "done" ELSE "write") /\ s.abort = r.abort
      /\ s.dry = r.dry /\ s.rows = r.rows /\ s.plan = r.plan /\ s.n = r.n /\ s.drawn = <<>>
      /\ s.wrote = {} /\ s.failed = r.failed /\ s.done = r.done \cup r.wrote /\ s.count = r.count
      /\ s.pend = <<>> /\ s = [x \in ImportFields |-> s[x]]
  BY <1>6 DEF ImportFields
<1>8. IsImport(s)
  <2> HIDE DEF r
  <2> QED
    BY <1>2, <1>7 DEF IsImport
<1>9. s.wrote \cup s.done = r.wrote \cup r.done /\ s.done = r.wrote \cup r.done
  BY <1>7
<1>10. s.step = "write" => InWriting(s)
  <2> SUFFICES ASSUME s.step = "write" PROVE InWriting(s)
    OBVIOUS
  <2>1. ~(r.n > Len(r.rows))
    BY <1>7
  <2>2. ~s.abort
    BY <1>1, <1>7, <2>1, Zenon DEF BatchEnds
  <2>3. FoundAsSeen(s, s.wrote \cup s.done)
    BY <1>2, <1>7, <1>9 DEF InWriting, FoundAsSeen
  <2>4. /\ RowsOf(s.wrote \cup s.done) = 1..(s.n - 1) \ s.failed
        /\ s.count = Cardinality(RowsOf(s.wrote \cup s.done))
    BY <1>2, <1>7, <1>9 DEF InWriting
  <2> QED
    BY <1>2, <1>7, <2>2, <2>3, <2>4 DEF InWriting
<1>11. s.step = "done" => Reported(s)
  <2> SUFFICES ASSUME s.step = "done" PROVE Reported(s)
    OBVIOUS
  <2>1. 1..(r.n - 1) = 1..Len(r.rows)
    BY <1>2, <1>3, <1>7 DEF InWriting
  <2>2. /\ RowsOf(s.done) = DOMAIN s.rows \ s.failed
        /\ s.count = Cardinality(RowsOf(s.done))
    BY <1>2, <1>3, <1>7, <1>9, <2>1 DEF InWriting
  <2>3. FoundAsSeen(s, s.done)
    BY <1>2, <1>7, <1>9 DEF InWriting, FoundAsSeen
  <2>4. ~s.dry /\ (s.abort => s.failed = {})
    BY <1>2, <1>7 DEF InWriting
  <2> QED
    BY <2>2, <2>3, <2>4 DEF Reported
<1>12. ImportOK(imp[i])'
  <2>1. ImportOK(s)
    BY <1>7, <1>8, <1>10, <1>11 DEF ImportOK, DrawnInOrder
  <2>2. imp'[i] = s /\ s.drawn = <<>>
    BY <1>4, <1>7
  <2>3. ImportOK(imp'[i]) /\ imp'[i].drawn = <<>> /\ numbered' = numbered
    BY <1>1, <2>1, <2>2
  <2> QED
    BY <2>3, StaysInOrder
<1>13. ASSUME NEW j \in Imports PROVE ImportOK(imp[j])'
  <2>1. CASE j = i
    BY <1>4, <1>12, <2>1
  <2>2. CASE j # i
    <3>1. imp'[j] = imp[j] /\ ImportOK(imp[j])
      BY <1>4, <2>2 DEF ImportInv
    <3>2. CASE imp[j].step = "write" /\ imp[j].drawn # <<>>
      <4>1. ~Draws(i)
        BY <2>2, <3>2 DEF ImportInv, OneDraws, Draws, Writing
      <4>2. r.drawn = <<>>
        BY <1>1, <4>1 DEF Draws
      <4>3. seq' = seq
        BY <1>1, <4>2 DEF ImportInv, ImportTypeOK
      <4> QED
        BY <1>1, <3>1, <4>3, StaysInOrder
    <3>3. CASE ~(imp[j].step = "write" /\ imp[j].drawn # <<>>)
      BY <1>1, <3>1, <3>3, StaysInOrder
    <3> QED
      BY <3>2, <3>3
  <2> QED
    BY <2>1, <2>2
<1>14. OneDraws'
  <2>1. \A j \in Imports : Draws(j)' => Draws(j)
    BY <1>1, <1>4, <1>7 DEF Draws, Writing
  <2> QED
    BY <2>1 DEF ImportInv, OneDraws
<1>15. NoGap'
  <2>1. /\ issued \in Seq(Nat) /\ Len(issued) = seq /\ \A n \in 1..seq : issued[n] = n /\ seq \in Nat
    BY DEF ImportInv, NoGap, ImportTypeOK
  <2>2. \A m \in 1..Len(r.drawn) : r.drawn[m] = seq + m
    BY <1>2 DEF DrawnInOrder
  <2> HIDE DEF r
  <2>3. /\ issued' \in Seq(Nat) /\ Len(issued') = seq + Len(r.drawn)
        /\ \A n \in 1..seq : issued'[n] = issued[n]
        /\ \A m \in 1..Len(r.drawn) : issued'[seq + m] = r.drawn[m]
    BY <1>1, <1>3, <2>1, Joined
  <2>4. ASSUME NEW n \in 1..seq' PROVE issued'[n] = n
    <3>1. CASE n <= seq
      BY <2>1, <2>3, <3>1
    <3>2. CASE n > seq
      <4> DEFINE m == n - seq
      <4>1. m \in 1..Len(r.drawn) /\ seq + m = n
        BY <1>1, <1>3, <2>1, <3>2
      <4> HIDE DEF m
      <4> QED
        BY <2>2, <2>3, <4>1
    <3> QED
      BY <2>1, <3>1, <3>2
  <2> QED
    BY <1>1, <1>3, <2>1, <2>3, <2>4 DEF NoGap
<1>16. ImportTypeOK'
  <2>1. keyed' \in [RowKeys -> Stored \cup {NoRec}]
    BY <1>1, SeesRecord
  <2> QED
    BY <1>1, <1>3, <1>5, <2>1 DEF ImportInv, ImportTypeOK, Stored
<1> QED
  BY <1>5, <1>13, <1>14, <1>15, <1>16 DEF ImportInv

\* Another request keeps what the imports have drawn in order: it draws no number while one
\* of them does.
LEMMA OtherKeeps ==
    ASSUME ImportInv, NEW k \in RowKeys, Write1(k)
    PROVE  ImportInv'
<1>1. /\ UNCHANGED <<numbered, imp>>
      /\ \/ UNCHANGED <<seq, issued>>
         \/ /\ numbered /\ \A i \in Imports : ~Draws(i)
            /\ seq' = seq + 1 /\ issued' = Append(issued, seq + 1)
  BY DEF Write1
<1>2. keyed' \in [RowKeys -> Stored \cup {NoRec}]
  <2>0. keyed \in [RowKeys -> Stored \cup {NoRec}] /\ seq \in Nat
    BY DEF ImportInv, ImportTypeOK
  <2>1. CASE keyed' = [keyed EXCEPT ![k] = [ver |-> 1, num |-> IF numbered THEN seq + 1 ELSE 0]]
    <3>1. [ver |-> 1, num |-> IF numbered THEN seq + 1 ELSE 0] \in Stored
      BY <2>0 DEF Stored
    <3> QED
      BY <2>0, <2>1, <3>1
  <2>2. CASE keyed[k] # NoRec /\ keyed' = [keyed EXCEPT ![k].ver = @ + 1]
    <3>1. keyed[k] \in Stored
      BY <2>0, <2>2
    <3>2. [keyed[k] EXCEPT !.ver = @ + 1] \in Stored
      BY <3>1 DEF Stored
    <3>3. keyed' = [keyed EXCEPT ![k] = [keyed[k] EXCEPT !.ver = @ + 1]]
      BY <2>2
    <3> QED
      BY <2>0, <3>2, <3>3
  <2>3. CASE keyed' = [keyed EXCEPT ![k] = NoRec]
    BY <2>0, <2>3
  <2> QED
    BY <2>1, <2>2, <2>3 DEF Write1
<1>3. ASSUME NEW j \in Imports PROVE ImportOK(imp[j])'
  <2>1. ImportOK(imp[j]) /\ imp' = imp
    BY <1>1 DEF ImportInv
  <2>2. seq' = seq \/ (imp[j].step = "write" => imp[j].drawn = <<>>)
    BY <1>1 DEF Draws, Writing
  <2> QED
    BY <1>1, <2>1, <2>2, StaysInOrder
<1>4. OneDraws'
  BY <1>1 DEF ImportInv, OneDraws, Draws, Writing
<1>5. NoGap' /\ seq' \in Nat
  <2>1. NoGap /\ seq \in Nat
    BY DEF ImportInv, ImportTypeOK
  <2>2. CASE UNCHANGED <<seq, issued>>
    BY <2>1, <2>2 DEF NoGap
  <2>3. CASE seq' = seq + 1 /\ issued' = Append(issued, seq + 1)
    BY <2>1, <2>3 DEF NoGap
  <2> QED
    BY <1>1, <2>2, <2>3
<1> QED
  BY <1>1, <1>2, <1>3, <1>4, <1>5 DEF ImportInv, ImportTypeOK

\* Each step of the imports and of other requests keeps the invariant.
LEMMA ImportStep == ImportInv /\ [ImportNext]_importVars => ImportInv'
<1> SUFFICES ASSUME ImportInv, [ImportNext]_importVars PROVE ImportInv'
  OBVIOUS
<1>1. ASSUME NEW i \in Imports, NEW m \in {"create", "update", "upsert"}, NEW a \in BOOLEAN,
             NEW d \in BOOLEAN, NEW f \in Files, Submit(i, m, a, d, f)
      PROVE  ImportInv'
  BY <1>1, SubmitKeeps
<1>2. ASSUME NEW i \in Imports, PlanRow(i) PROVE ImportInv'
  BY <1>2, PlanKeeps
<1>3. ASSUME NEW i \in Imports, WriteRow(i) PROVE ImportInv'
  BY <1>3, WriteKeeps
<1>4. ASSUME NEW i \in Imports, BreakDeadlock(i) PROVE ImportInv'
  <2>1. PICK j \in Imports : WaitsFor(i, j)
    BY <1>4 DEF BreakDeadlock
  <2>2. Writing(i) /\ imp[i].n <= Len(imp[i].rows) /\ ~imp[i].plan[imp[i].n].error
    BY <2>1 DEF WaitsFor
  <2> QED
    BY <1>4, <2>2, FailingKeeps DEF BreakDeadlock
<1>5. ASSUME NEW i \in Imports, CommitBatch(i) PROVE ImportInv'
  BY <1>5, CommitKeeps
<1>6. ASSUME NEW i \in Imports, Cut(i) PROVE ImportInv'
  <2>1. ImportOK(NotAsked) /\ NotAsked.step # "write"
    BY DEF ImportOK, NotAsked, DrawnInOrder
  <2> QED
    BY <1>6, <2>1, TurnKeeps DEF Cut
<1>7. ASSUME NEW k \in RowKeys, Write1(k) PROVE ImportInv'
  BY <1>7, OtherKeeps
<1>8. CASE UNCHANGED importVars
  <2>1. \A j \in Imports : ImportOK(imp[j])'
    BY <1>8, StaysInOrder DEF importVars, ImportInv
  <2> QED
    BY <1>8, <2>1 DEF importVars, ImportInv, ImportTypeOK, NoGap, OneDraws, Draws, Writing
<1> QED
  BY <1>1, <1>2, <1>3, <1>4, <1>5, <1>6, <1>7, <1>8 DEF ImportNext

\* What an import has written, counted and refused so far, and the numbers it has drawn, are
\* in order at each of its steps, whatever the other imports and requests do
\* (import_records).
THEOREM ImportInvariant == ImportSpec => []ImportInv
<1>1. ImportInit => ImportInv
  BY ImportStart
<1>2. ImportInv /\ [ImportNext]_importVars => ImportInv'
  BY ImportStep
<1> QED
  BY <1>1, <1>2, PTL DEF ImportSpec

\* The report of an import is what it did, and the numbers of records have no gap
\* (import_records).
THEOREM ReportsAreTrue == ImportSpec => []ImportedAsReported
<1>1. ImportInv => ImportedAsReported
  <2> SUFFICES ASSUME ImportInv PROVE ImportedAsReported
    OBVIOUS
  <2>1. ASSUME NEW i \in Imports, imp[i].step = "done" PROVE Reported(imp[i])
    BY <2>1 DEF ImportInv, ImportOK
  <2>2. issued = [n \in 1..seq |-> n]
    BY DEF ImportInv, NoGap, ImportTypeOK
  <2> QED
    BY <2>1, <2>2 DEF ImportedAsReported, Reported, RowsOf, FoundAsSeen
<1> QED
  BY <1>1, ImportInvariant, PTL

-----------------------------------------------------------------------------
(* Workflow transitions and rules *)

\* What of the state the steps rely on to be of its kind.  What a rule makes of a field is a
\* fold over the rules, of which nothing need be known.
FlowTypeOK ==
    /\ hist \in Seq(ToSet(hist))
    /\ wtx = [c \in Clients |-> wtx[c]]
    /\ \A e \in events : e = [ver |-> e.ver, m |-> e.m, take |-> e.take, dropped |-> e.dropped,
                             guessed |-> e.guessed]
    /\ \A e \in events : e.ver \in 2 .. Len(hist) /\ e.dropped \in BOOLEAN
    /\ \A k \in tasks : k.ver \in 1 .. Len(hist)

\* A transition under way has read an image that is in the history; the transition it has
\* chosen starts there, and its guard holds there.
ReadInHistory(t) ==
    t.op = "transition" =>
        /\ t.step \in {"choose", "rules", "write"} => t.at \in DOMAIN hist /\ t.base = hist[t.at]
        /\ t.step \in {"rules", "write"} => t.take.from = t.base.state /\ t.base.val \in t.take.guard

FlowInv ==
    /\ FlowTypeOK /\ \A c \in Clients : ReadInHistory(wtx[c])
    /\ TransitionsLegal /\ CalculatedFresh

\* A record starts without an image.
LEMMA FlowStart == WorkflowInit => FlowInv
<1> SUFFICES ASSUME WorkflowInit PROVE FlowInv
  OBVIOUS
<1> USE DEF WorkflowInit
<1>1. FlowTypeOK
  BY DEF FlowTypeOK, ToSet
<1>2. \A c \in Clients : ReadInHistory(wtx[c])
  BY DEF ReadInHistory, NoRequest
<1>3. TransitionsLegal /\ CalculatedFresh
  BY DEF TransitionsLegal, CalculatedFresh
<1> QED
  BY <1>1, <1>2, <1>3 DEF FlowInv

\* A history that has one image more.
LEMMA HistoryGrows ==
    ASSUME hist \in Seq(ToSet(hist)), NEW new, hist' = Append(hist, new)
    PROVE  /\ hist' \in Seq(ToSet(hist')) /\ Len(hist) \in Nat /\ Len(hist') = Len(hist) + 1
           /\ DOMAIN hist = 1 .. Len(hist) /\ DOMAIN hist' = 1 .. Len(hist) + 1
           /\ \A k \in DOMAIN hist : hist'[k] = hist[k]
           /\ hist'[Len(hist) + 1] = new
<1> DEFINE S == ToSet(hist) \cup {new}
<1>1. hist \in Seq(S) /\ new \in S
  OBVIOUS
<1> HIDE DEF S
<1>2. /\ Append(hist, new) \in Seq(S) /\ Len(hist) \in Nat /\ Len(Append(hist, new)) = Len(hist) + 1
      /\ DOMAIN hist = 1 .. Len(hist) /\ DOMAIN Append(hist, new) = 1 .. Len(hist) + 1
      /\ \A k \in DOMAIN hist : Append(hist, new)[k] = hist[k]
      /\ Append(hist, new)[Len(hist) + 1] = new
  BY <1>1
<1>3. hist' \in Seq(ToSet(hist'))
  BY <1>2 DEF ToSet
<1> QED
  BY <1>2, <1>3

\* A step that leaves the record, its events and its tasks alone keeps the invariant, if what
\* the request becomes has read the history.
LEMMA RequestMoves ==
    ASSUME FlowInv, NEW c \in Clients, NEW t, Becomes(c, t), ReadInHistory(t),
           UNCHANGED <<hist, events, tasks>>
    PROVE  FlowInv'
<1>1. wtx' = [wtx EXCEPT ![c] = t] /\ hist' = hist /\ events' = events /\ tasks' = tasks
  BY DEF Becomes
<1>2. wtx'[c] = t /\ \A d \in Clients \ {c} : wtx'[d] = wtx[d]
  BY <1>1 DEF FlowInv, FlowTypeOK
<1>3. FlowTypeOK'
  BY <1>1 DEF FlowInv, FlowTypeOK
<1>4. ASSUME NEW d \in Clients PROVE ReadInHistory(wtx[d])'
  <2>1. wtx'[d] = t \/ wtx'[d] = wtx[d]
    BY <1>2
  <2> QED
    BY <1>1, <2>1 DEF FlowInv, ReadInHistory
<1>5. TransitionsLegal' /\ CalculatedFresh'
  BY <1>1 DEF FlowInv, TransitionsLegal, CalculatedFresh
<1> QED
  BY <1>3, <1>4, <1>5 DEF FlowInv

\* Each step that writes nothing of the record.
LEMMA QuietFlow ==
    ASSUME FlowInv,
           \/ \E m \in Machines : \E g \in Designs, a \in BOOLEAN : CreateMachine(m, g, a)
           \/ \E r \in RuleIds : DeleteRule(r) \/ \E b \in RuleBodies : CreateRule(r, b)
           \/ UNCHANGED flowVars
    PROVE  FlowInv'
<1>1. UNCHANGED <<hist, events, tasks, wtx>>
  BY DEF CreateMachine, DeleteRule, CreateRule, flowVars
<1> QED
  BY <1>1 DEF FlowInv, FlowTypeOK, ReadInHistory, TransitionsLegal, CalculatedFresh


\* A request for authoring, and a write that has not written yet, has read nothing that must
\* be in the history.
LEMMA AuthoringMoves ==
    ASSUME FlowInv, NEW c \in Clients, NEW t, Becomes(c, t), t.op # "transition",
           UNCHANGED <<hist, events, tasks>>
    PROVE  FlowInv'
  BY RequestMoves DEF ReadInHistory

\* A request that is refused leaves the record alone.
LEMMA WriteRejected == ASSUME FlowInv, NEW c \in Clients, Reject(c) PROVE FlowInv'
<1>1. Becomes(c, NoRequest) /\ UNCHANGED <<hist, events, tasks>>
  BY DEF Reject
<1>2. NoRequest.op # "transition"
  BY DEF NoRequest
<1> QED
  BY <1>1, <1>2, AuthoringMoves

\* Each request for authoring and each write until it writes.
LEMMA RequestSteps ==
    ASSUME FlowInv, NEW c \in Clients,
           \/ \E m \in Machines, a \in Toggles : PatchMachineRead(c, m, a)
           \/ PatchMachineWrite(c)
           \/ \E r \in RuleIds, k \in {Unset, {}}, a \in Toggles : PatchRuleRead(c, r, k, a)
           \/ PatchRuleWrite(c)
           \/ \E op \in {"create", "update"} : \E k, v : BeginWrite(c, op, k, v)
           \/ ReadPatched(c) \/ \E v : HubReads(c, v)
    PROVE  FlowInv'
<1> USE AuthoringMoves
<1>1. ASSUME NEW m \in Machines, NEW a \in Toggles, PatchMachineRead(c, m, a) PROVE FlowInv'
  <2> DEFINE t == [op |-> "patch machine", step |-> "write", m |-> m,
                   active |-> IF a = Unset THEN machine[m].active ELSE a]
  <2>1. Becomes(c, t) /\ UNCHANGED <<hist, events, tasks>>
    BY <1>1 DEF PatchMachineRead
  <2>2. t.op # "transition"
    OBVIOUS
  <2> QED
    BY <2>1, <2>2
<1>2. ASSUME PatchMachineWrite(c) \/ PatchRuleWrite(c) PROVE FlowInv'
  <2>1. Becomes(c, NoRequest) /\ UNCHANGED <<hist, events, tasks>>
    BY <1>2 DEF PatchMachineWrite, PatchRuleWrite
  <2>2. NoRequest.op # "transition"
    BY DEF NoRequest
  <2> QED
    BY <2>1, <2>2
<1>3. ASSUME NEW r \in RuleIds, NEW k \in {Unset, {}}, NEW a \in Toggles, PatchRuleRead(c, r, k, a)
      PROVE FlowInv'
  <2>1. PICK body : Becomes(c, [op |-> "patch rule", step |-> "write", r |-> r, body |-> body])
                    /\ UNCHANGED <<hist, events, tasks>>
    BY <1>3 DEF PatchRuleRead
  <2> QED
    BY <2>1
<1>4. ASSUME NEW op \in {"create", "update"}, NEW k, NEW v, BeginWrite(c, op, k, v) PROVE FlowInv'
  <2>1. Becomes(c, [op |-> op, step |-> IF op = "create" THEN "write" ELSE "read",
                    ver |-> k, val |-> v, rules |-> LoadActive])
        /\ UNCHANGED <<hist, events, tasks>>
    BY <1>4 DEF BeginWrite, Advance
  <2> QED
    BY <2>1
<1>5. ASSUME ReadPatched(c) PROVE FlowInv'
  <2>1. PICK v : Becomes(c, [wtx[c] EXCEPT !.step = "write", !.val = v])
                 /\ wtx[c].op = "update" /\ UNCHANGED <<hist, events, tasks>>
    BY <1>5 DEF ReadPatched, Advance
  <2>2. [wtx[c] EXCEPT !.step = "write", !.val = v].op # "transition"
    BY <2>1
  <2> QED
    BY <2>1, <2>2
<1>6. ASSUME NEW v, HubReads(c, v) PROVE FlowInv'
  <2>1. Becomes(c, [op |-> "hub", step |-> "write", ver |-> Len(hist), val |-> v])
        /\ UNCHANGED <<hist, events, tasks>>
    BY <1>6 DEF HubReads, Advance
  <2> QED
    BY <2>1
<1> QED
  BY <1>1, <1>2, <1>3, <1>4, <1>5, <1>6

\* A transition reads: the image it reads is the last one; the transition it chooses starts
\* there.
LEMMA TransitionReads ==
    ASSUME FlowInv, NEW c \in Clients,
           \/ \E m \in Machines : \E name, v : PickMachine(c, name, v, m)
           \/ ReadRecord(c) \/ Choose(c) \/ LoadsRules(c)
    PROVE  FlowInv'
<1>1. ReadInHistory(wtx[c])
  BY DEF FlowInv
<1>2. ASSUME NEW m \in Machines, NEW name, NEW v, PickMachine(c, name, v, m) PROVE FlowInv'
  <2> DEFINE t == [op |-> "transition", step |-> "read", ver |-> v, m |-> m, name |-> name]
  <2>1. Becomes(c, t) /\ UNCHANGED <<hist, events, tasks>>
    BY <1>2 DEF PickMachine, Advance
  <2>2. ReadInHistory(t)
    BY <2>1 DEF ReadInHistory
  <2> QED
    BY <2>1, <2>2, RequestMoves
<1>3. ASSUME ReadRecord(c) PROVE FlowInv'
  <2> DEFINE t == [op |-> "transition", step |-> "choose", ver |-> wtx[c].ver, m |-> wtx[c].m,
                   name |-> wtx[c].name, base |-> Last(hist), at |-> Len(hist)]
  <2>1. Reject(c) \/ (Becomes(c, t) /\ hist # <<>> /\ UNCHANGED <<hist, events, tasks>>)
    BY <1>3 DEF ReadRecord, Advance
  <2>2. hist # <<>> => Len(hist) \in DOMAIN hist /\ Last(hist) = hist[Len(hist)]
    <3>1. hist \in Seq(ToSet(hist))
      BY DEF FlowInv, FlowTypeOK
    <3>2. Len(hist) \in Nat /\ DOMAIN hist = 1 .. Len(hist) /\ (hist # <<>> => Len(hist) > 0)
      BY <3>1
    <3> QED
      BY <3>2 DEF Last
  <2>3. hist # <<>> => ReadInHistory(t)
    BY <2>2 DEF ReadInHistory
  <2> QED
    BY <2>1, <2>3, RequestMoves, WriteRejected
<1>4. ASSUME Choose(c) PROVE FlowInv'
  <2>1. \/ Reject(c)
        \/ \E x : /\ x.from = wtx[c].base.state /\ wtx[c].base.val \in x.guard
                  /\ Advance(c, [op |-> "transition", step |-> "rules", ver |-> wtx[c].ver,
                                 m |-> wtx[c].m, base |-> wtx[c].base, at |-> wtx[c].at, take |-> x])
    BY <1>4 DEF Choose
  <2>2. ASSUME NEW x, x.from = wtx[c].base.state, wtx[c].base.val \in x.guard,
               Advance(c, [op |-> "transition", step |-> "rules", ver |-> wtx[c].ver,
                           m |-> wtx[c].m, base |-> wtx[c].base, at |-> wtx[c].at, take |-> x])
        PROVE FlowInv'
    <3> DEFINE t == [op |-> "transition", step |-> "rules", ver |-> wtx[c].ver,
                     m |-> wtx[c].m, base |-> wtx[c].base, at |-> wtx[c].at, take |-> x]
    <3>1. Becomes(c, t) /\ UNCHANGED <<hist, events, tasks>>
      BY <2>2 DEF Advance
    <3>2. ReadInHistory(t)
      BY <1>1, <1>4, <2>2 DEF ReadInHistory, Choose
    <3> QED
      BY <3>1, <3>2, RequestMoves
  <2> QED
    BY <2>1, <2>2, WriteRejected
<1>5. ASSUME LoadsRules(c) PROVE FlowInv'
  <2> DEFINE t == [op |-> "transition", step |-> "write", ver |-> wtx[c].ver, m |-> wtx[c].m,
                   base |-> wtx[c].base, at |-> wtx[c].at, take |-> wtx[c].take,
                   rules |-> LoadActive]
  <2>1. Becomes(c, t) /\ UNCHANGED <<hist, events, tasks>>
    BY <1>5 DEF LoadsRules, Advance
  <2>2. ReadInHistory(t)
    BY <1>1, <1>5 DEF ReadInHistory, LoadsRules
  <2> QED
    BY <2>1, <2>2, RequestMoves
<1> QED
  BY <1>2, <1>3, <1>4, <1>5

\* The events of a machine that is deleted say so, and its tasks are gone.
LEMMA MachineDeleted == ASSUME FlowInv, NEW m \in Machines, DeleteMachine(m) PROVE FlowInv'
<1>1. /\ hist' = hist /\ wtx' = wtx /\ tasks' = {k \in tasks : k.m # m}
      /\ events' = {[e EXCEPT !.dropped = @ \/ e.m = m] : e \in events}
  BY DEF DeleteMachine
<1>2. ASSUME NEW f \in events'
      PROVE  \E e \in events : /\ f = [ver |-> e.ver, m |-> e.m, take |-> e.take,
                                       dropped |-> e.dropped \/ e.m = m, guessed |-> e.guessed]
                               /\ e.dropped \in BOOLEAN /\ e.ver \in 2 .. Len(hist)
  <2>1. PICK e \in events : f = [e EXCEPT !.dropped = @ \/ e.m = m]
    BY <1>1, <1>2
  <2>2. e = [ver |-> e.ver, m |-> e.m, take |-> e.take, dropped |-> e.dropped,
                                guessed |-> e.guessed]
        /\ e.dropped \in BOOLEAN /\ e.ver \in 2 .. Len(hist)
    BY DEF FlowInv, FlowTypeOK
  <2>3. f = [ver |-> e.ver, m |-> e.m, take |-> e.take, dropped |-> e.dropped \/ e.m = m, guessed |-> e.guessed]
    BY <2>1, <2>2
  <2> QED
    BY <2>2, <2>3
<1>3. FlowTypeOK'
  <2>1. \A f \in events' : f = [ver |-> f.ver, m |-> f.m, take |-> f.take, dropped |-> f.dropped,
                                guessed |-> f.guessed]
    BY <1>2
  <2>2. ASSUME NEW f \in events' PROVE f.ver \in 2 .. Len(hist) /\ f.dropped \in BOOLEAN
    <3>1. PICK e \in events : /\ f = [ver |-> e.ver, m |-> e.m, take |-> e.take,
                                       dropped |-> e.dropped \/ e.m = m, guessed |-> e.guessed]
                              /\ e.ver \in 2 .. Len(hist)
      BY <1>2
    <3>2. f.ver = e.ver
      BY <3>1
    <3>3. f.dropped = (e.dropped \/ e.m = m)
      BY <3>1, Zenon
    <3>4. f.dropped \in BOOLEAN
      BY <3>3, Zenon
    <3> QED
      BY <3>1, <3>2, <3>4
  <2> QED
    BY <1>1, <2>1, <2>2 DEF FlowInv, FlowTypeOK
<1>4. \A c \in Clients : ReadInHistory(wtx[c])'
  BY <1>1 DEF FlowInv, ReadInHistory
<1>5. CalculatedFresh'
  BY <1>1 DEF FlowInv, CalculatedFresh
<1>6. TransitionsLegal'
  <2>1. ASSUME NEW f \in events'
        PROVE  LET from == hist'[f.ver - 1]
               IN /\ ~f.guessed => from.state = f.take.from /\ from.val \in f.take.guard
                  /\ hist'[f.ver].state = f.take.to
                  /\ (f.take.task /\ ~f.dropped <=> [m |-> f.m, ver |-> f.ver] \in tasks')
    <3>1. PICK e \in events :
                 /\ f = [ver |-> e.ver, m |-> e.m, take |-> e.take,
                         dropped |-> e.dropped \/ e.m = m, guessed |-> e.guessed]
                 /\ e.dropped \in BOOLEAN
      BY <1>2
    <3>2. /\ f.ver = e.ver /\ f.m = e.m /\ f.take = e.take /\ f.guessed = e.guessed
          /\ (f.dropped <=> (e.dropped \/ e.m = m))
      BY <3>1
    <3>3. /\ ~e.guessed => /\ hist[e.ver - 1].state = e.take.from
                            /\ hist[e.ver - 1].val \in e.take.guard
          /\ hist[e.ver].state = e.take.to
          /\ (e.take.task /\ ~e.dropped <=> [m |-> e.m, ver |-> e.ver] \in tasks)
      BY DEF FlowInv, TransitionsLegal
    <3>4. [m |-> e.m, ver |-> e.ver] \in tasks'
          <=> [m |-> e.m, ver |-> e.ver] \in tasks /\ e.m # m
      BY <1>1
    <3> QED
      BY <1>1, <3>2, <3>3, <3>4
  <2>2. ASSUME NEW k \in 2 .. Len(hist), hist[k].state # hist[k - 1].state
        PROVE  \E f \in events' : f.ver = k
    <3>1. PICK e \in events : e.ver = k
      BY <2>2 DEF FlowInv, TransitionsLegal
    <3>2. e = [ver |-> e.ver, m |-> e.m, take |-> e.take, dropped |-> e.dropped,
                                guessed |-> e.guessed]
      BY DEF FlowInv, FlowTypeOK
    <3>3. [e EXCEPT !.dropped = @ \/ e.m = m].ver = k
      BY <3>1, <3>2
    <3> QED
      BY <1>1, <3>3
  <2> QED
    BY <1>1, <2>1, <2>2 DEF TransitionsLegal
<1> QED
  BY <1>3, <1>4, <1>5, <1>6 DEF FlowInv

\* A write adds an image whose calculated field is fresh; what it logs and the tasks it makes
\* are of that image and of the move from the last one, and a state that changes is logged.
Adds(c, new, logged, newTasks) ==
    /\ (~new.hub => new.calc = new.val) /\ hist' = Append(hist, new)
    /\ events' = events \cup logged /\ tasks' = tasks \cup newTasks /\ Becomes(c, NoRequest)
    /\ logged # {} => Len(hist) > 0
    /\ Len(hist) > 0 /\ new.state # hist[Len(hist)].state => logged # {}
    /\ \A k \in newTasks : k.ver = Len(hist) + 1
    /\ \A e \in logged :
          /\ e = [ver |-> Len(hist) + 1, m |-> e.m, take |-> e.take, dropped |-> e.dropped,
                                guessed |-> e.guessed]
          /\ e.dropped \in BOOLEAN
          /\ ~e.guessed => /\ hist[Len(hist)].state = e.take.from
                            /\ hist[Len(hist)].val \in e.take.guard
          /\ new.state = e.take.to
          /\ (e.take.task /\ ~e.dropped <=> [m |-> e.m, ver |-> e.ver] \in newTasks)

\* The invariant holds of the longer history.
LEMMA ImageAdded ==
    ASSUME FlowInv, NEW c \in Clients, NEW new, NEW logged, NEW newTasks, Adds(c, new, logged, newTasks)
    PROVE  FlowInv'
<1> SUFFICES ASSUME ~new.hub => new.calc = new.val, hist' = Append(hist, new), Becomes(c, NoRequest),
                    \A e \in logged : e = [ver |-> Len(hist) + 1, m |-> e.m, take |-> e.take,
                                           dropped |-> e.dropped, guessed |-> e.guessed]
                                    /\ e.dropped \in BOOLEAN,
                    events' = events \cup logged, logged # {} => Len(hist) > 0,
                    \A k \in newTasks : k.ver = Len(hist) + 1,
                    tasks' = tasks \cup newTasks,
                    \A e \in logged :
                       /\ ~e.guessed => /\ hist[Len(hist)].state = e.take.from
                                         /\ hist[Len(hist)].val \in e.take.guard
                       /\ new.state = e.take.to
                       /\ (e.take.task /\ ~e.dropped <=> [m |-> e.m, ver |-> e.ver] \in newTasks),
                    Len(hist) > 0 /\ new.state # hist[Len(hist)].state => logged # {}
             PROVE  FlowInv'
  BY DEF Adds
<1>1. /\ hist' \in Seq(ToSet(hist')) /\ Len(hist) \in Nat /\ Len(hist') = Len(hist) + 1
      /\ DOMAIN hist = 1 .. Len(hist) /\ DOMAIN hist' = 1 .. Len(hist) + 1
      /\ \A k \in DOMAIN hist : hist'[k] = hist[k]
      /\ hist'[Len(hist) + 1] = new
  BY HistoryGrows DEF FlowInv, FlowTypeOK
<1>2. wtx' = [wtx EXCEPT ![c] = NoRequest] /\ wtx = [d \in Clients |-> wtx[d]]
  BY DEF Becomes, FlowInv, FlowTypeOK
<1>3. /\ \A e \in events : e = [ver |-> e.ver, m |-> e.m, take |-> e.take, dropped |-> e.dropped,
                                guessed |-> e.guessed]
      /\ \A e \in events : e.ver \in 2 .. Len(hist) /\ e.dropped \in BOOLEAN
      /\ \A k \in tasks : k.ver \in 1 .. Len(hist)
  BY DEF FlowInv, FlowTypeOK
<1>4. \A e \in logged : e.ver = Len(hist) + 1
  OBVIOUS
<1>5. FlowTypeOK'
  <2>1. wtx' = [d \in Clients |-> wtx'[d]]
    BY <1>2
  <2>2. \A e \in events' : e = [ver |-> e.ver, m |-> e.m, take |-> e.take, dropped |-> e.dropped,
                                guessed |-> e.guessed]
    BY <1>3
  <2>3. \A e \in events' : e.ver \in 2 .. Len(hist') /\ e.dropped \in BOOLEAN
    BY <1>1, <1>3, <1>4
  <2>4. \A k \in tasks' : k.ver \in 1 .. Len(hist')
    BY <1>1, <1>3
  <2> QED
    BY <1>1, <2>1, <2>2, <2>3, <2>4 DEF FlowTypeOK
<1>6. ASSUME NEW d \in Clients PROVE ReadInHistory(wtx[d])'
  <2>1. wtx'[d] = NoRequest \/ wtx'[d] = wtx[d]
    BY <1>2
  <2>2. CASE wtx'[d] = NoRequest
    BY <2>2 DEF ReadInHistory, NoRequest
  <2>3. CASE wtx'[d] = wtx[d]
    BY <1>1, <2>3 DEF FlowInv, ReadInHistory
  <2> QED
    BY <2>1, <2>2, <2>3
<1>7. CalculatedFresh'
  BY <1>1 DEF FlowInv, CalculatedFresh
<1>8. TransitionsLegal'
  <2>1. ASSUME NEW e \in events
        PROVE  /\ ~e.guessed => /\ hist'[e.ver - 1].state = e.take.from
                                 /\ hist'[e.ver - 1].val \in e.take.guard
               /\ hist'[e.ver].state = e.take.to
               /\ (e.take.task /\ ~e.dropped <=> [m |-> e.m, ver |-> e.ver] \in tasks')
    <3>1. hist'[e.ver - 1] = hist[e.ver - 1] /\ hist'[e.ver] = hist[e.ver]
      BY <1>1, <1>3
    <3>2. [m |-> e.m, ver |-> e.ver] \notin newTasks
      BY <1>1, <1>3
    <3> QED
      BY <3>1, <3>2 DEF FlowInv, TransitionsLegal
  <2>2. ASSUME NEW e \in logged
        PROVE  /\ ~e.guessed => /\ hist'[e.ver - 1].state = e.take.from
                                 /\ hist'[e.ver - 1].val \in e.take.guard
               /\ hist'[e.ver].state = e.take.to
               /\ (e.take.task /\ ~e.dropped <=> [m |-> e.m, ver |-> e.ver] \in tasks')
    <3>1. hist'[e.ver - 1] = hist[Len(hist)] /\ hist'[e.ver] = new
      BY <1>1, <1>4
    <3>2. [m |-> e.m, ver |-> e.ver] \notin tasks
      BY <1>1, <1>3, <1>4
    <3> QED
      BY <3>1, <3>2
  <2>3. ASSUME NEW k \in 2 .. Len(hist'), hist'[k].state # hist'[k - 1].state
        PROVE  \E e \in events' : e.ver = k
    <3>1. CASE k <= Len(hist)
      <4>1. k \in 2 .. Len(hist) /\ hist'[k] = hist[k] /\ hist'[k - 1] = hist[k - 1]
        BY <1>1, <3>1
      <4> QED
        BY <2>3, <4>1 DEF FlowInv, TransitionsLegal
    <3>2. CASE k > Len(hist)
      <4>1. k = Len(hist) + 1 /\ Len(hist) > 0 /\ hist'[k - 1] = hist[Len(hist)] /\ hist'[k] = new
        BY <1>1, <3>2
      <4> QED
        BY <1>4, <2>3, <4>1
    <3> QED
      BY <1>1, <3>1, <3>2
  <2> QED
    BY <2>1, <2>2, <2>3 DEF TransitionsLegal
<1> QED
  BY <1>5, <1>6, <1>7, <1>8 DEF FlowInv

\* A create and an update, of a client or of the hub, leave the state as it was; nothing is
\* logged.
LEMMA PlainWrites ==
    ASSUME FlowInv, NEW c \in Clients,
           Creates(c) \/ Updates(c) \/ HubUpdates(c)
    PROVE  FlowInv'
<1>1. ASSUME NEW new, ~new.hub => new.calc = new.val, hist = <<>> \/ new.state = Last(hist).state,
             hist' = Append(hist, new), Becomes(c, NoRequest), UNCHANGED <<events, tasks>>
      PROVE FlowInv'
  <2>1. Len(hist) > 0 => new.state = hist[Len(hist)].state
    BY <1>1 DEF Last
  <2>2. events' = events \cup {} /\ tasks' = tasks \cup {}
    BY <1>1
  <2>3. Adds(c, new, {}, {})
    BY <1>1, <2>1, <2>2 DEF Adds
  <2> QED
    BY <2>3, ImageAdded
<1>2. \A state, rules, event, val :
          LET new == Image(state, rules, event, val)
          IN (~new.hub => new.calc = new.val) /\ new.state = state
  BY DEF Image
<1>3. CASE Creates(c)
  <2> DEFINE new == Image("active", wtx[c].rules, "after_create", wtx[c].val)
  <2>1. \/ Reject(c)
        \/ /\ hist = <<>> /\ hist' = <<new>>
           /\ Becomes(c, NoRequest) /\ UNCHANGED <<events, tasks>>
    BY <1>3 DEF Creates
  <2>2. ~new.hub => new.calc = new.val
    BY <1>2
  <2> HIDE DEF new
  <2>3. \A x : Append(<<>>, x) = <<x>>
    OBVIOUS
  <2> QED
    BY <1>1, <2>1, <2>2, <2>3, WriteRejected
<1>4. CASE Updates(c)
  <2> DEFINE new == Image(Last(hist).state, wtx[c].rules, "after_update", wtx[c].val)
  <2>1. \/ Reject(c)
        \/ hist' = Append(hist, new) /\ Becomes(c, NoRequest) /\ UNCHANGED <<events, tasks>>
    BY <1>4 DEF Updates
  <2>2. (~new.hub => new.calc = new.val) /\ new.state = Last(hist).state
    BY <1>2
  <2> HIDE DEF new
  <2> QED
    BY <1>1, <2>1, <2>2, WriteRejected
<1>5. CASE HubUpdates(c)
  <2> DEFINE new == [state |-> Last(hist).state, val |-> wtx[c].val, calc |-> Last(hist).calc,
                     hub |-> TRUE]
  <2>1. \/ Reject(c)
        \/ hist' = Append(hist, new) /\ Becomes(c, NoRequest) /\ UNCHANGED <<events, tasks>>
    BY <1>5 DEF HubUpdates
  <2>2. new.hub /\ new.state = Last(hist).state
    OBVIOUS
  <2> HIDE DEF new
  <2> QED
    BY <1>1, <2>1, <2>2, WriteRejected
<1> QED
  BY <1>3, <1>4, <1>5

\* The hub's create: the first image, of which nothing is logged.
LEMMA HubCreated == ASSUME FlowInv, NEW v, HubCreates(v) PROVE FlowInv'
<1> DEFINE new == [state |-> "active", val |-> v, calc |-> Unset, hub |-> TRUE]
<1>1. hist = <<>> /\ hist' = <<new>> /\ new.hub /\ UNCHANGED <<events, tasks, wtx>>
  BY DEF HubCreates
<1> HIDE DEF new
<1>2. hist' = Append(hist, new)
  BY <1>1
<1>3. /\ hist' \in Seq(ToSet(hist')) /\ Len(hist) = 0 /\ Len(hist') = 1
      /\ DOMAIN hist = {} /\ DOMAIN hist' = 1 .. 1 /\ hist'[1] = new
  BY <1>1, <1>2, HistoryGrows DEF FlowInv, FlowTypeOK
<1>4. events = {} /\ tasks = {}
  BY <1>3 DEF FlowInv, FlowTypeOK
<1>5. FlowTypeOK'
  BY <1>1, <1>3, <1>4 DEF FlowInv, FlowTypeOK
<1>6. ASSUME NEW c \in Clients PROVE ReadInHistory(wtx[c])'
  BY <1>1, <1>3 DEF FlowInv, ReadInHistory
<1>7. TransitionsLegal' /\ CalculatedFresh'
  BY <1>1, <1>3, <1>4 DEF TransitionsLegal, CalculatedFresh
<1> QED
  BY <1>5, <1>6, <1>7 DEF FlowInv

\* A transition that is not refused has read the last image, unless its client guessed the
\* version.
LEMMA TransitionWrites == ASSUME FlowInv, NEW c \in Clients, Moves(c) PROVE FlowInv'
<1> DEFINE t == wtx[c]
           v == IF t.take.sets = Unset THEN t.base.val ELSE t.take.sets
           new == Image(t.take.to, t.rules, "after_update", v)
           event == [ver |-> Len(hist) + 1, m |-> t.m, take |-> t.take,
                     dropped |-> machine[t.m] = Unset, guessed |-> t.ver > t.at]
           task == [m |-> t.m, ver |-> Len(hist) + 1]
<1>1. t.op = "transition" /\ t.step = "write"
  BY DEF Moves
<1>2. \/ Reject(c)
      \/ /\ t.ver = Len(hist) /\ (t.take.task => machine[t.m] # Unset)
         /\ hist' = Append(hist, new) /\ events' = events \cup {event}
         /\ tasks' = IF t.take.task THEN tasks \cup {task} ELSE tasks
         /\ Becomes(c, NoRequest)
  BY DEF Moves, VersionIs
<1>3. ASSUME t.ver = Len(hist), t.take.task => machine[t.m] # Unset,
             hist' = Append(hist, new), events' = events \cup {event},
             tasks' = IF t.take.task THEN tasks \cup {task} ELSE tasks, Becomes(c, NoRequest)
      PROVE FlowInv'
  <2> DEFINE newTasks == IF t.take.task THEN {task} ELSE {}
  <2>1. (~new.hub => new.calc = new.val) /\ new.state = t.take.to
    BY DEF Image
  <2>2. hist \in Seq(ToSet(hist)) /\ ReadInHistory(t)
    BY DEF FlowInv, FlowTypeOK
  <2>3. Len(hist) \in Nat /\ DOMAIN hist = 1 .. Len(hist)
    BY <2>2
  <2>4. t.at \in 1 .. Len(hist) /\ t.base = hist[t.at] /\ Len(hist) > 0
    BY <1>1, <2>2, <2>3 DEF ReadInHistory
  <2>5. ~event.guessed => /\ t.take.from = hist[Len(hist)].state
                          /\ hist[Len(hist)].val \in t.take.guard
    <3>1. event.guessed = (t.ver > t.at)
      OBVIOUS
    <3>2. ~(t.ver > t.at) => t.at = Len(hist)
      BY <1>3, <2>3, <2>4
    <3>3. ASSUME t.at = Len(hist) PROVE /\ t.take.from = hist[Len(hist)].state
                                        /\ hist[Len(hist)].val \in t.take.guard
      BY <1>1, <2>2, <2>4, <3>3 DEF ReadInHistory
    <3> QED
      BY <3>1, <3>2, <3>3, Zenon
  <2>6. t.take.task /\ ~event.dropped <=> [m |-> event.m, ver |-> event.ver] \in newTasks
    BY <1>3
  <2>7. tasks' = tasks \cup newTasks /\ \A k \in newTasks : k.ver = Len(hist) + 1
    BY <1>3
  <2>8. /\ event = [ver |-> Len(hist) + 1, m |-> event.m, take |-> event.take,
                    dropped |-> event.dropped, guessed |-> event.guessed]
        /\ event.take = t.take /\ event.dropped \in BOOLEAN
    OBVIOUS
  <2> HIDE DEF new, event, newTasks, t
  <2>9. Adds(c, new, {event}, newTasks)
    BY <1>3, <2>1, <2>4, <2>5, <2>6, <2>7, <2>8 DEF Adds
  <2> QED
    BY <2>9, ImageAdded
<1> HIDE DEF new, event, task
<1> QED
  BY <1>2, <1>3, WriteRejected

\* The inductive invariant of a record and its workflow, for any machines, rules and number
\* of clients: a transition under way has read an image of the history, from whose state its
\* transition starts and on which its guard holds; where that image is not older than the
\* version its client sent and the version is still the last, it is the last image
\* (run_transition).
THEOREM FlowInvariant == WorkflowSpec => []FlowInv
<1>1. FlowInv /\ [WorkflowNext]_flowVars => FlowInv'
  <2> SUFFICES ASSUME FlowInv, [WorkflowNext]_flowVars PROVE FlowInv'
    OBVIOUS
  <2>1. CASE UNCHANGED flowVars
    BY <2>1, QuietFlow
  <2>2. ASSUME NEW m \in Machines, NEW g \in Designs, NEW a \in BOOLEAN, CreateMachine(m, g, a)
        PROVE FlowInv'
    BY <2>2, QuietFlow
  <2>3. ASSUME NEW m \in Machines, DeleteMachine(m) PROVE FlowInv'
    BY <2>3, MachineDeleted
  <2>4. ASSUME NEW r \in RuleIds, DeleteRule(r) \/ \E b \in RuleBodies : CreateRule(r, b)
        PROVE FlowInv'
    BY <2>4, QuietFlow
  <2>5. ASSUME NEW c \in Clients,
               \/ \E m \in Machines, a \in Toggles : PatchMachineRead(c, m, a)
               \/ PatchMachineWrite(c)
               \/ \E r \in RuleIds, k \in {Unset, {}}, a \in Toggles : PatchRuleRead(c, r, k, a)
               \/ PatchRuleWrite(c)
               \/ \E op \in {"create", "update"} : \E k, v : BeginWrite(c, op, k, v)
               \/ ReadPatched(c) \/ \E v : HubReads(c, v)
        PROVE FlowInv'
    BY <2>5, RequestSteps
  <2>6. ASSUME NEW c \in Clients,
               \/ \E m \in Machines : \E name, v : PickMachine(c, name, v, m)
               \/ ReadRecord(c) \/ Choose(c) \/ LoadsRules(c)
        PROVE FlowInv'
    BY <2>6, TransitionReads
  <2>7. ASSUME NEW c \in Clients, Creates(c) \/ Updates(c) \/ HubUpdates(c) PROVE FlowInv'
    BY <2>7, PlainWrites
  <2>8. ASSUME NEW c \in Clients, Moves(c) PROVE FlowInv'
    BY <2>8, TransitionWrites
  <2>9. ASSUME NEW v \in FieldVals, HubCreates(v) PROVE FlowInv'
    BY <2>9, HubCreated
  <2> QED
    BY <2>1, <2>2, <2>3, <2>4, <2>5, <2>6, <2>7, <2>8, <2>9 DEF WorkflowNext
<1> QED
  BY FlowStart, <1>1, PTL DEF WorkflowSpec

\* A state moves only along a transition, with its task while the machine is there, and from
\* the state it starts from and on a record its guard holds for unless the client guessed its
\* version; and a calculated field is the formula over the fields stored next to it in every
\* image the hub did not write: for any machines, rules and number of clients
\* (run_transition, fire, compute_calculated).
THEOREM TransitionsAreLegal == WorkflowSpec => []WorkflowSound
<1>1. FlowInv => WorkflowSound
  BY DEF FlowInv, WorkflowSound
<1> QED
  BY FlowInvariant, <1>1, PTL

-----------------------------------------------------------------------------
(* Inbound events *)

Materialized == [ver: Nat, own: Events \cup {NoRecord}, other: Nat]

RunType ==
    {NoRun} \cup
    [step: {"map", "lookup", "create", "read", "update", "link", "note"},
     event: Events \cup {NoRecord}, id: RecIds \cup {0}, ver: Nat, attempt: {0, 1}]

HubTypeOK ==
    /\ received \subseteq Events /\ enqueuing \subseteq Events
    /\ acked \subseteq Events /\ stopped \subseteq Events
    /\ outbox \in [Events -> {"none", "queued", "done", "dead"}]
    /\ tries \in [Events -> Nat]
    /\ record \in [RecIds -> Materialized \cup {NoRecord}]
    /\ link \in RecIds \cup {NoRecord}
    /\ run \in [Runners -> RunType]
    /\ pulls \in Nat /\ edits \in Nat /\ deaths \in Nat
    /\ kept \in [RecIds -> Nat]
    /\ overlap \in BOOLEAN /\ unlinked \in BOOLEAN

\* A runner that is at the record knows its id.
RunsRight ==
    \A w \in Runners : run[w].step \in {"read", "update", "link"} => run[w].id \in RecIds

\* Unless runs overlap there is one.
OneRuns == ~overlap => \A v, w \in Runners : run[v] # NoRun /\ run[w] # NoRun => v = w

\* What a run has found of the key is still so.
KeyFound(w) ==
    /\ run[w].step = "create" => link = NoRecord
    /\ run[w].step \in {"read", "update"} => link = run[w].id
    /\ run[w].step = "link" => link \in {NoRecord, run[w].id}

\* A record is what the key is linked to, or about to be.
KeyOwns == \A id \in RecIds : Alive(id) =>
    id = link \/ \E w \in Runners : run[w].step = "link" /\ run[w].id = id

KeyInv == ~overlap /\ ~unlinked => KeyOwns /\ \A w \in Runners : KeyFound(w)

\* An event whose dedupe row is in is in the outbox, or its first delivery is, or
\* ended, between the two rows; one that is not received is not acknowledged.
EventsKept ==
    /\ \A e \in received \ (enqueuing \cup stopped) : outbox[e] # "none"
    /\ enqueuing \subseteq received /\ acked \subseteq received

OthersKept ==
    policy = "field_level_sor" => \A id \in RecIds : Alive(id) => record[id].other = kept[id]

HubInv == HubTypeOK /\ RunsRight /\ OneRuns /\ KeyInv /\ EventsKept /\ OthersKept

\* Nothing is there at first.
LEMMA HubStart == InboundInit => HubInv
<1> SUFFICES ASSUME InboundInit PROVE HubInv
  OBVIOUS
<1>1. NoRun \in RunType /\ NoRun.step = "none"
  BY DEF RunType, NoRun
<1>2. HubTypeOK
  BY <1>1 DEF InboundInit, HubTypeOK
<1>3. (\A w \in Runners : run[w] = NoRun) /\ \A id \in RecIds : ~Alive(id)
  BY DEF InboundInit, Alive
<1>4. RunsRight /\ OneRuns /\ KeyInv
  BY <1>1, <1>3 DEF RunsRight, OneRuns, KeyInv, KeyOwns, KeyFound
<1>5. EventsKept /\ OthersKept
  BY <1>3 DEF InboundInit, EventsKept, OthersKept
<1>6. QED
  BY <1>2, <1>4, <1>5 DEF HubInv

\* What a runner does that moves no record and no link: the key stays as it was found.
LEMMA RunMoves ==
    ASSUME HubInv, NEW w \in Runners, run[w] # NoRun, NEW r \in RunType,
           run' = [run EXCEPT ![w] = r],
           r.step \in {"read", "update", "link"} => r.id \in RecIds,
           ~overlap /\ ~unlinked' =>
               /\ run[w].step = "link" => link = run[w].id
               /\ r.step = "create" => link = NoRecord
               /\ r.step \in {"read", "update", "link"} => link = r.id,
           outbox' \in [Events -> {"none", "queued", "done", "dead"}], tries' \in [Events -> Nat],
           \A e \in Events : outbox[e] # "none" => outbox'[e] # "none",
           deaths' \in Nat, unlinked' \in BOOLEAN, unlinked => unlinked',
           UNCHANGED <<receiverVars, record, link, pulls, edits, kept, overlap>>
    PROVE  HubInv'
<1>1. \A v \in Runners : run'[v] = IF v = w THEN r ELSE run[v]
  BY DEF HubInv, HubTypeOK
<1>2. HubTypeOK'
  BY <1>1 DEF HubInv, HubTypeOK, receiverVars
<1>3. RunsRight'
  BY <1>1 DEF HubInv, RunsRight
<1>4. OneRuns'
  BY <1>1 DEF HubInv, OneRuns
<1>5. KeyInv'
  <2> SUFFICES ASSUME ~overlap, ~unlinked' PROVE KeyOwns' /\ \A v \in Runners : KeyFound(v)'
    BY DEF KeyInv
  <2>1. KeyOwns /\ \A v \in Runners : KeyFound(v)
    BY DEF HubInv, KeyInv
  <2>2. \A v \in Runners \ {w} : run[v].step = "none"
    BY DEF HubInv, OneRuns, NoRun
  <2>3. \A id \in RecIds : Alive(id) => id = link
    BY <2>1, <2>2 DEF KeyOwns
  <2>4. KeyOwns'
    BY <2>3 DEF KeyOwns, Alive
  <2>5. \A v \in Runners : KeyFound(v)'
    BY <1>1, <2>2 DEF KeyFound
  <2>6. QED
    BY <2>4, <2>5
<1>6. EventsKept'
  BY DEF HubInv, HubTypeOK, EventsKept, receiverVars
<1>7. OthersKept'
  BY DEF HubInv, OthersKept, Alive, receiverVars
<1>8. QED
  BY <1>2, <1>3, <1>4, <1>5, <1>6, <1>7 DEF HubInv

\* A run that fails, or dies: if it was between a record and its link, that is noted.
LEMMA FailKeeps ==
    ASSUME HubInv, NEW w \in Runners, run[w] # NoRun, Fail(w) \/ RunnerDies(w)
    PROVE  HubInv'
<1>1. run[w] \in RunType /\ run[w].event \in Events \cup {NoRecord}
  BY DEF HubInv, HubTypeOK, RunType, NoRun
<1>2. /\ outbox' \in [Events -> {"none", "queued", "done", "dead"}]
      /\ tries' \in [Events -> Nat]
      /\ \A e \in Events : outbox[e] # "none" => outbox'[e] # "none"
  <2>1. CASE UNCHANGED <<outbox, tries>>
    BY <2>1 DEF HubInv, HubTypeOK
  <2>2. CASE run[w].event \in Events /\ Fail(w)
    BY <2>2 DEF HubInv, HubTypeOK, Fail
  <2>3. QED
    BY <1>1, <2>1, <2>2 DEF Fail, RunnerDies
<1>3. NoRun \in RunType /\ NoRun.step = "none"
  BY DEF RunType, NoRun
<1>4. /\ run' = [run EXCEPT ![w] = NoRun]
      /\ unlinked' = (unlinked \/ Unlinks(w))
      /\ UNCHANGED <<receiverVars, record, link, pulls, edits, kept, overlap>>
  BY DEF Fail, RunnerDies, Continue
<1>5. deaths' \in Nat
  BY DEF HubInv, HubTypeOK, Fail, RunnerDies
<1>6. unlinked' \in BOOLEAN /\ (unlinked => unlinked')
      /\ (~unlinked' /\ run[w].step = "link" => link = run[w].id)
  BY <1>4 DEF Unlinks
<1>7. QED
  BY <1>1, <1>2, <1>3, <1>4, <1>5, <1>6, RunMoves

\* The receiver and the external system.
LEMMA ReceiverKeeps ==
    ASSUME HubInv, NEW e \in Events, ReceiveEvent(e) \/ Enqueue(e) \/ EnqueueFails(e)
    PROVE  HubInv'
<1>1. UNCHANGED hubVars
  BY DEF ReceiveEvent, Enqueue, EnqueueFails
<1>2. HubTypeOK'
  <2>1. /\ received' \subseteq Events /\ enqueuing' \subseteq Events
        /\ acked' \subseteq Events /\ stopped' \subseteq Events
        /\ outbox' \in [Events -> {"none", "queued", "done", "dead"}]
    BY DEF HubInv, HubTypeOK, ReceiveEvent, Enqueue, EnqueueFails
  <2>2. QED
    BY <1>1, <2>1 DEF HubInv, HubTypeOK, hubVars
<1>3. RunsRight' /\ OneRuns' /\ OthersKept'
  BY <1>1 DEF HubInv, RunsRight, OneRuns, OthersKept, Alive, hubVars
<1>4. KeyInv'
  BY <1>1 DEF HubInv, KeyInv, KeyOwns, KeyFound, Alive, hubVars
<1>5. EventsKept'
  <2>1. CASE ReceiveEvent(e)
    BY <2>1 DEF HubInv, HubTypeOK, EventsKept, ReceiveEvent
  <2>2. CASE Enqueue(e)
    BY <2>2 DEF HubInv, HubTypeOK, EventsKept, Enqueue
  <2>3. CASE EnqueueFails(e)
    BY <2>3 DEF HubInv, HubTypeOK, EventsKept, EnqueueFails
  <2>4. QED
    BY <2>1, <2>2, <2>3
<1>6. QED
  BY <1>2, <1>3, <1>4, <1>5 DEF HubInv

\* A run begins, for an event or unasked.
LEMMA RunBeginKeeps ==
    ASSUME HubInv, NEW w \in Runners, NEW e \in Events \cup {NoRecord},
           Begins(w, [step |-> "map", event |-> e, id |-> 0, ver |-> 0, attempt |-> 0]),
           pulls' \in Nat
    PROVE  HubInv'
<1> DEFINE r == [step |-> "map", event |-> e, id |-> 0, ver |-> 0, attempt |-> 0]
<1>1. /\ run[w] = NoRun
      /\ run' = [run EXCEPT ![w] = r]
      /\ overlap' = (overlap \/ \E v \in Runners : run[v] # NoRun)
      /\ UNCHANGED <<receiverVars, outbox, tries, record, link, edits, deaths, kept, unlinked>>
  BY DEF Begins, Continue
<1>2. r \in RunType /\ r.step = "map"
  BY DEF RunType
<1> HIDE DEF r
<1>3. \A v \in Runners : run'[v] = IF v = w THEN r ELSE run[v]
  BY <1>1 DEF HubInv, HubTypeOK
<1>4. HubTypeOK'
  BY <1>1, <1>2 DEF HubInv, HubTypeOK, receiverVars
<1>5. RunsRight'
  BY <1>2, <1>3 DEF HubInv, RunsRight
<1>6. OneRuns'
  BY <1>1, <1>3 DEF OneRuns
<1>7. KeyInv'
  <2>1. overlap' \in BOOLEAN /\ (overlap => overlap')
    BY <1>1
  <2>2. NoRun.step = "none"
    BY DEF NoRun
  <2>3. ASSUME KeyOwns PROVE KeyOwns'
    BY <1>1, <1>2, <1>3, <2>2, <2>3 DEF KeyOwns, Alive
  <2>4. ASSUME NEW v \in Runners, KeyFound(v) PROVE KeyFound(v)'
    BY <1>1, <1>2, <1>3, <2>4 DEF KeyFound
  <2>5. QED
    BY <1>1, <2>1, <2>3, <2>4 DEF HubInv, KeyInv
<1>8. EventsKept' /\ OthersKept'
  BY <1>1 DEF HubInv, EventsKept, OthersKept, Alive, receiverVars
<1>9. QED
  BY <1>4, <1>5, <1>6, <1>7, <1>8 DEF HubInv

\* The steps of a run that read, and those that end it.
LEMMA ReadsKeep ==
    ASSUME HubInv, NEW w \in Runners, MapPayload(w) \/ LookUpKey(w) \/ ReadCurrent(w) \/ Settle(w)
    PROVE  HubInv'
<1>1. run[w] \in RunType /\ (run[w].step # "none" => run[w] # NoRun)
  BY DEF HubInv, HubTypeOK, NoRun
<1>2. run[w] # NoRun => run[w].event \in Events \cup {NoRecord} /\ run[w].id \in RecIds \cup {0}
  BY <1>1 DEF RunType
<1>3. NoRun \in RunType /\ NoRun.step = "none"
  BY DEF RunType, NoRun
<1>4. ~overlap /\ ~unlinked => KeyFound(w)
  BY DEF HubInv, KeyInv
<1>5. /\ outbox \in [Events -> {"none", "queued", "done", "dead"}] /\ tries \in [Events -> Nat]
      /\ deaths \in Nat /\ unlinked \in BOOLEAN
  BY DEF HubInv, HubTypeOK
<1>6. CASE MapPayload(w)
  <2>1. PICK next \in {"lookup", "note"} : Continue(w, [run[w] EXCEPT !.step = next])
    BY <1>6 DEF MapPayload
  <2> DEFINE r == [run[w] EXCEPT !.step = next]
  <2>2. r \in RunType /\ r.step = next
    BY <1>1, <1>6, <2>1 DEF MapPayload, RunType, NoRun
  <2>3. run' = [run EXCEPT ![w] = r]
    BY <2>1 DEF Continue
  <2> HIDE DEF r
  <2>4. QED
    BY <1>1, <1>5, <1>6, <2>2, <2>3, RunMoves DEF MapPayload
<1>7. CASE LookUpKey(w)
  <2> DEFINE r == [run[w] EXCEPT !.step = Found, !.id = IF Found = "read" THEN link ELSE 0]
  <2>1. Found \in {"create", "read"} /\ (Found = "create" => link = NoRecord)
        /\ (Found = "read" => link \in RecIds)
    BY DEF Found, HubInv, HubTypeOK
  <2>2. r \in RunType /\ r.step = Found /\ (Found = "read" => r.id = link)
    BY <1>1, <1>7, <2>1 DEF LookUpKey, RunType, NoRun
  <2>3. run' = [run EXCEPT ![w] = r]
    BY <1>7 DEF LookUpKey, Continue
  <2> HIDE DEF r
  <2>4. QED
    BY <1>1, <1>5, <1>7, <2>1, <2>2, <2>3, RunMoves DEF LookUpKey
<1>8. CASE ReadCurrent(w) /\ ~Fail(w)
  <2> DEFINE r == [run[w] EXCEPT !.step = "update", !.ver = record[run[w].id].ver]
  <2>1. run[w].step = "read" /\ run[w].id \in RecIds /\ Alive(run[w].id)
    BY <1>8 DEF ReadCurrent, HubInv, RunsRight
  <2>2. record[run[w].id].ver \in Nat
    BY <2>1 DEF HubInv, HubTypeOK, Alive, Materialized
  <2>3. r \in RunType /\ r.step = "update" /\ r.id = run[w].id
    BY <1>1, <2>1, <2>2 DEF RunType, NoRun
  <2>4. run' = [run EXCEPT ![w] = r]
        /\ UNCHANGED <<receiverVars, outbox, tries, record, link, pulls, edits, deaths, kept, overlap, unlinked>>
    BY <1>8, <2>1 DEF ReadCurrent, Continue
  <2> HIDE DEF r
  <2>5. ~overlap /\ ~unlinked => link = r.id
    BY <1>4, <2>1, <2>3 DEF KeyFound
  <2>6. QED
    BY <1>1, <1>5, <2>1, <2>3, <2>4, <2>5, RunMoves
<1>9. CASE Settle(w)
  <2>1. outbox' \in [Events -> {"none", "queued", "done", "dead"}]
        /\ \A e \in Events : outbox[e] # "none" => outbox'[e] # "none"
    BY <1>2, <1>5, <1>9, <1>1 DEF Settle
  <2>2. run' = [run EXCEPT ![w] = NoRun]
        /\ UNCHANGED <<receiverVars, tries, record, link, pulls, edits, deaths, kept, overlap, unlinked>>
        /\ run[w].step = "note"
    BY <1>9 DEF Settle, Continue
  <2>3. QED
    BY <1>1, <1>3, <1>5, <2>1, <2>2, RunMoves
<1>10. QED
  BY <1>1, <1>6, <1>7, <1>8, <1>9, FailKeeps DEF ReadCurrent

\* A record is created: the key was free.
LEMMA CreateKeeps ==
    ASSUME HubInv, NEW w \in Runners, NEW id \in RecIds, CreateRecord(w, id)
    PROVE  HubInv'
<1> DEFINE r == [run[w] EXCEPT !.step = "link", !.id = id]
           m == [ver |-> 1, own |-> run[w].event, other |-> 1]
<1>1. run[w] \in RunType /\ run[w] # NoRun /\ run[w].step = "create"
  BY DEF HubInv, HubTypeOK, NoRun, CreateRecord
<1>2. r \in RunType /\ r.step = "link" /\ r.id = id /\ m \in Materialized /\ m.other = 1
  BY <1>1 DEF RunType, Materialized
<1>3. /\ run' = [run EXCEPT ![w] = r] /\ record' = [record EXCEPT ![id] = m]
      /\ kept' = [kept EXCEPT ![id] = 1]
      /\ UNCHANGED <<receiverVars, outbox, tries, link, pulls, edits, deaths, overlap, unlinked>>
  BY DEF CreateRecord, Continue
<1> HIDE DEF r, m
<1>4. \A v \in Runners : run'[v] = IF v = w THEN r ELSE run[v]
  BY <1>3 DEF HubInv, HubTypeOK
<1>5. \A k \in RecIds : record'[k] = (IF k = id THEN m ELSE record[k])
                        /\ kept'[k] = (IF k = id THEN 1 ELSE kept[k])
  BY <1>3 DEF HubInv, HubTypeOK
<1>6. HubTypeOK'
  BY <1>2, <1>3 DEF HubInv, HubTypeOK, receiverVars
<1>7. RunsRight' /\ OneRuns'
  BY <1>1, <1>2, <1>3, <1>4 DEF HubInv, RunsRight, OneRuns
<1>8. KeyInv'
  <2> SUFFICES ASSUME ~overlap, ~unlinked PROVE KeyOwns' /\ \A v \in Runners : KeyFound(v)'
    BY <1>3 DEF KeyInv
  <2>1. KeyOwns /\ \A v \in Runners : KeyFound(v)
    BY DEF HubInv, KeyInv
  <2>2. \A v \in Runners \ {w} : run[v].step = "none"
    BY <1>1 DEF HubInv, OneRuns, NoRun
  <2>3. link = NoRecord
    BY <1>1, <2>1 DEF KeyFound
  <2>4. \A k \in RecIds : ~Alive(k)
    BY <1>1, <2>1, <2>2, <2>3, HubAssumption DEF KeyOwns
  <2>5. KeyOwns'
    BY <1>2, <1>4, <1>5, <2>4 DEF KeyOwns, Alive
  <2>6. \A v \in Runners : KeyFound(v)'
    BY <1>2, <1>3, <1>4, <2>2, <2>3 DEF KeyFound
  <2>7. QED
    BY <2>5, <2>6
<1>9. EventsKept'
  BY <1>3 DEF HubInv, EventsKept, receiverVars
<1>10. OthersKept'
  BY <1>2, <1>3, <1>5 DEF HubInv, OthersKept, Alive, receiverVars
<1>11. QED
  BY <1>6, <1>7, <1>8, <1>9, <1>10 DEF HubInv

\* A write of the system's own fields leaves those of the others, where the policy says so.
LEMMA UpdateKeeps ==
    ASSUME HubInv, NEW w \in Runners, Update(w)
    PROVE  HubInv'
<1>1. /\ run[w] \in RunType /\ run[w].step = "update" /\ run[w] # NoRun
      /\ run[w].id \in RecIds /\ run[w].event \in Events \cup {NoRecord} /\ run[w].ver \in Nat
  BY DEF HubInv, HubTypeOK, RunsRight, RunType, NoRun, Update
<1>2. ~overlap /\ ~unlinked => link = run[w].id
  BY <1>1 DEF HubInv, KeyInv, KeyFound
<1>3. CASE Fail(w)
  BY <1>1, <1>3, FailKeeps
<1>4. CASE /\ Continue(w, [run[w] EXCEPT !.step = "read", !.attempt = 1])
           /\ UNCHANGED <<receiverVars, outbox, tries, record, link, pulls, edits, deaths, kept, overlap, unlinked>>
  <2> DEFINE r == [run[w] EXCEPT !.step = "read", !.attempt = 1]
  <2>1. r \in RunType /\ r.step = "read" /\ r.id = run[w].id
    BY <1>1 DEF RunType
  <2>2. run' = [run EXCEPT ![w] = r]
    BY <1>4 DEF Continue
  <2> HIDE DEF r
  <2>3. /\ outbox \in [Events -> {"none", "queued", "done", "dead"}] /\ tries \in [Events -> Nat]
        /\ deaths \in Nat /\ unlinked \in BOOLEAN
    BY DEF HubInv, HubTypeOK
  <2>4. QED
    BY <1>1, <1>2, <1>4, <2>1, <2>2, <2>3, RunMoves
<1>5. CASE /\ Alive(run[w].id)
           /\ record' = [record EXCEPT ![run[w].id] =
                            [ver |-> run[w].ver + 1, own |-> run[w].event,
                             other |-> IF WritesOther THEN 1 ELSE record[run[w].id].other]]
           /\ Continue(w, [run[w] EXCEPT !.step = "link"])
           /\ UNCHANGED <<receiverVars, outbox, tries, link, pulls, edits, deaths, kept, overlap, unlinked>>
  <2> DEFINE r == [run[w] EXCEPT !.step = "link"]
             i == run[w].id
             m == [ver |-> run[w].ver + 1, own |-> run[w].event,
                   other |-> IF WritesOther THEN 1 ELSE record[i].other]
  <2>1. r \in RunType /\ r.step = "link" /\ r.id = i
    BY <1>1 DEF RunType
  <2>2. record[i] \in Materialized
    BY <1>1, <1>5 DEF HubInv, HubTypeOK, Alive
  <2>3. m \in Materialized /\ (~WritesOther => m.other = record[i].other)
    BY <1>1, <2>2 DEF Materialized
  <2>4. run' = [run EXCEPT ![w] = r] /\ record' = [record EXCEPT ![i] = m]
    BY <1>5 DEF Continue
  <2> HIDE DEF r, m
  <2>5. /\ \A v \in Runners : run'[v] = IF v = w THEN r ELSE run[v]
        /\ \A k \in RecIds : record'[k] = IF k = i THEN m ELSE record[k]
    BY <2>4 DEF HubInv, HubTypeOK
  <2>6. HubTypeOK'
    BY <1>1, <1>5, <2>1, <2>3, <2>4 DEF HubInv, HubTypeOK, receiverVars
  <2>7. RunsRight' /\ OneRuns'
    BY <1>1, <1>5, <2>1, <2>5 DEF HubInv, RunsRight, OneRuns
  <2>8. KeyInv'
    <3> SUFFICES ASSUME ~overlap, ~unlinked PROVE KeyOwns' /\ \A v \in Runners : KeyFound(v)'
      BY <1>5 DEF KeyInv
    <3>1. KeyOwns /\ \A v \in Runners : KeyFound(v)
      BY DEF HubInv, KeyInv
    <3>2. \A v \in Runners \ {w} : run[v].step = "none"
      BY <1>1 DEF HubInv, OneRuns, NoRun
    <3>3. KeyOwns'
      BY <1>1, <1>5, <2>5, <3>1, <3>2 DEF KeyOwns, Alive
    <3>4. \A v \in Runners : KeyFound(v)'
      BY <1>2, <1>5, <2>1, <2>5, <3>2 DEF KeyFound
    <3>5. QED
      BY <3>3, <3>4
  <2>9. EventsKept'
    BY <1>5 DEF HubInv, EventsKept, receiverVars
  <2>10. OthersKept'
    BY <1>1, <1>5, <2>3, <2>5 DEF HubInv, OthersKept, Alive, receiverVars, WritesOther
  <2>11. QED
    BY <2>6, <2>7, <2>8, <2>9, <2>10 DEF HubInv
<1>6. QED
  BY <1>3, <1>4, <1>5 DEF Update

\* The key is linked to what the run has created or found.
LEMMA LinkKeeps ==
    ASSUME HubInv, NEW w \in Runners, LinkKey(w)
    PROVE  HubInv'
<1> DEFINE r == [run[w] EXCEPT !.step = "note"]
<1>1. run[w] \in RunType /\ run[w].step = "link" /\ run[w] # NoRun /\ run[w].id \in RecIds
  BY DEF HubInv, HubTypeOK, RunsRight, NoRun, LinkKey
<1>2. r \in RunType /\ r.step = "note"
  BY <1>1 DEF RunType
<1>3. /\ run' = [run EXCEPT ![w] = r] /\ link' = run[w].id
      /\ UNCHANGED <<receiverVars, outbox, tries, record, pulls, edits, deaths, kept, overlap, unlinked>>
  BY DEF LinkKey, Continue
<1> HIDE DEF r
<1>4. \A v \in Runners : run'[v] = IF v = w THEN r ELSE run[v]
  BY <1>3 DEF HubInv, HubTypeOK
<1>5. HubTypeOK'
  BY <1>1, <1>2, <1>3 DEF HubInv, HubTypeOK, receiverVars
<1>6. RunsRight' /\ OneRuns'
  BY <1>1, <1>2, <1>3, <1>4 DEF HubInv, RunsRight, OneRuns
<1>7. KeyInv'
  <2> SUFFICES ASSUME ~overlap, ~unlinked PROVE KeyOwns' /\ \A v \in Runners : KeyFound(v)'
    BY <1>3 DEF KeyInv
  <2>1. KeyOwns /\ \A v \in Runners : KeyFound(v)
    BY DEF HubInv, KeyInv
  <2>2. \A v \in Runners \ {w} : run[v].step = "none"
    BY <1>1 DEF HubInv, OneRuns, NoRun
  <2>3. \A k \in RecIds : Alive(k) => k = run[w].id
    BY <1>1, <2>1, <2>2, HubAssumption DEF KeyOwns, KeyFound
  <2>4. KeyOwns'
    BY <1>3, <2>3 DEF KeyOwns, Alive
  <2>5. \A v \in Runners : KeyFound(v)'
    BY <1>2, <1>4, <2>2 DEF KeyFound
  <2>6. QED
    BY <2>4, <2>5
<1>8. EventsKept' /\ OthersKept'
  BY <1>3 DEF HubInv, EventsKept, OthersKept, Alive, receiverVars
<1>9. QED
  BY <1>5, <1>6, <1>7, <1>8 DEF HubInv

\* A user writes or deletes the record.
LEMMA OutsideKeeps ==
    ASSUME HubInv, NEW id \in RecIds, UserEdit(id)
    PROVE  HubInv'
<1>1. /\ edits \in Nat /\ record[id] \in Materialized /\ Alive(id)
      /\ edits' = edits + 1
      /\ UNCHANGED <<receiverVars, outbox, tries, link, run, pulls, deaths, overlap, unlinked>>
  BY DEF HubInv, HubTypeOK, UserEdit, Alive
<1>2. \E m \in Materialized \cup {NoRecord} : record' = [record EXCEPT ![id] = m]
  <2>1. CASE record' = [record EXCEPT ![id].ver = @ + 1, ![id].other = edits + 2]
    <3>1. record' = [record EXCEPT ![id] = [record[id] EXCEPT !.ver = @ + 1, !.other = edits + 2]]
      BY <1>1, <2>1 DEF HubInv, HubTypeOK
    <3>2. PICK x \in Nat, y \in Events \cup {NoRecord}, z \in Nat :
              record[id] = [ver |-> x, own |-> y, other |-> z]
      BY <1>1 DEF Materialized
    <3>3. [record[id] EXCEPT !.ver = @ + 1, !.other = edits + 2] \in Materialized
      <4>1. x + 1 \in Nat /\ edits + 2 \in Nat
        BY <1>1
      <4> DEFINE m == [ver |-> x, own |-> y, other |-> z]
      <4>2. [m EXCEPT !.ver = x + 1, !.other = edits + 2] \in Materialized
        BY <4>1 DEF Materialized
      <4>3. QED
        BY <3>2, <4>2
    <3>4. QED
      BY <3>1, <3>3
  <2>2. QED
    BY <2>1 DEF UserEdit
<1>3. kept' \in [RecIds -> Nat]
  BY <1>1 DEF HubInv, HubTypeOK, UserEdit
<1>4. HubTypeOK'
  <2>1. record' \in [RecIds -> Materialized \cup {NoRecord}]
    BY <1>2 DEF HubInv, HubTypeOK
  <2>2. QED
    BY <1>1, <1>3, <2>1 DEF HubInv, HubTypeOK, receiverVars
<1>5. \A k \in RecIds : Alive(k)' => Alive(k)
  BY <1>1, <1>2 DEF HubInv, HubTypeOK, Alive
<1>6. RunsRight' /\ OneRuns' /\ EventsKept'
  BY <1>1 DEF HubInv, RunsRight, OneRuns, EventsKept, receiverVars
<1>7. KeyInv'
  BY <1>1, <1>5 DEF HubInv, KeyInv, KeyOwns, KeyFound
<1>8. OthersKept'
  <2>1. ASSUME policy' = "field_level_sor", NEW k \in RecIds, Alive(k)'
        PROVE  record'[k].other = kept'[k]
    <3>1. policy = "field_level_sor" /\ Alive(k) /\ record[k].other = kept[k]
      BY <1>1, <1>5, <2>1 DEF HubInv, OthersKept, receiverVars
    <3>2. CASE k # id
      BY <3>1, <3>2 DEF UserEdit, HubInv, HubTypeOK
    <3>3. CASE k = id
      BY <1>1, <2>1, <3>3 DEF UserEdit, HubInv, HubTypeOK, Alive, Materialized
    <3>4. QED
      BY <3>2, <3>3
  <2>2. QED
    BY <2>1 DEF OthersKept
<1>9. QED
  BY <1>4, <1>6, <1>7, <1>8 DEF HubInv

\* Each step of the receiver, the flows and the users keeps the invariant.
LEMMA HubStep == HubInv /\ [InboundNext]_inboundVars => HubInv'
<1> SUFFICES ASSUME HubInv, [InboundNext]_inboundVars PROVE HubInv'
  OBVIOUS
<1>1. pulls \in Nat
  BY DEF HubInv, HubTypeOK
<1>2. ASSUME NEW w \in Runners, NEW e \in Events, TakeEvent(w, e) PROVE HubInv'
  BY <1>1, <1>2, RunBeginKeeps DEF TakeEvent
<1>3. ASSUME NEW w \in Runners, Pull(w) \/ ManualRun(w) PROVE HubInv'
  BY <1>1, <1>3, RunBeginKeeps DEF Pull, ManualRun, Unasked
<1>4. ASSUME NEW w \in Runners, StepFails(w) \/ RunnerDies(w) PROVE HubInv'
  BY <1>4, FailKeeps DEF StepFails, RunnerDies
<1>5. CASE UNCHANGED inboundVars
  BY <1>5 DEF inboundVars, HubInv, HubTypeOK, RunsRight, OneRuns, KeyInv, KeyOwns, KeyFound,
     EventsKept, OthersKept, Alive
<1>6. QED
  BY <1>2, <1>3, <1>4, <1>5, ReceiverKeeps, ReadsKeep, CreateKeeps, UpdateKeeps, LinkKeeps, OutsideKeeps
     DEF InboundNext

\* The invariant of the receiver and the flows holds.
THEOREM HubInvariant == InboundSpec => []HubInv
BY HubStart, HubStep, PTL DEF InboundSpec

\* A flow keeps one record for a key unless runs overlap or one ends before the link of
\* its record; an acknowledged event is in the outbox unless its first delivery is, or
\* ended, between the two rows; and the fields the policy gives to others are left alone.
THEOREM HubIsConsistent == InboundSpec => []HubConsistent
<1>1. HubInv => HubConsistent
  <2> SUFFICES ASSUME HubInv PROVE HubConsistent
    OBVIOUS
  <2>1. ASSUME ~overlap, ~unlinked PROVE Cardinality(Records) <= 1
    <3>1. KeyOwns /\ \A w \in Runners : KeyFound(w)
      BY <2>1 DEF HubInv, KeyInv
    <3>2. \A j, k \in RecIds : Alive(j) /\ Alive(k) => j = k
      <4>1. \A v, w \in Runners : run[v].step = "link" /\ run[w].step = "link" => v = w
        BY <2>1 DEF HubInv, OneRuns, NoRun
      <4>2. QED
        BY <3>1, <4>1, HubAssumption DEF KeyOwns, KeyFound
    <3>3. Records = {} \/ \E k \in RecIds : Records = {k}
      BY <3>2 DEF Records
    <3>4. QED
      <4>1. CASE Records = {}
        BY <4>1, FS_EmptySet
      <4>2. ASSUME NEW k \in RecIds, Records = {k} PROVE Cardinality(Records) <= 1
        <5>1. Cardinality({k}) = 1
          BY FS_Singleton
        <5>2. QED
          BY <4>2, <5>1
      <4>3. QED
        BY <3>3, <4>1, <4>2
  <2>2. \A e \in acked \ (enqueuing \cup stopped) : outbox[e] # "none"
    BY DEF HubInv, EventsKept
  <2>3. policy = "field_level_sor" => \A id \in Records : record[id].other = kept[id]
    BY DEF HubInv, OthersKept, Records
  <2>4. QED
    BY <2>1, <2>2, <2>3 DEF HubConsistent
<1>2. QED
  BY <1>1, HubInvariant, PTL

-----------------------------------------------------------------------------
(* Record forms of the browser *)

FormSignals ==
    [kind : {"none", "edit", "new"}, load : {"none", "def", "blank", "read", "done"},
     got : Nat \cup {NoVersion}, seen : Nat \cup {NoVersion},
     save : {"no", "sent", "ok", "refused"}, banner : Nat \cup {NoVersion},
     stream : {"none", "ticket", "open", "closed"}, pos : Nat]

FormTypeOK ==
    /\ ver \in Nat /\ top \in Nat /\ page \in Forms \cup {"list"}
    /\ form \in [Forms -> FormSignals]
    /\ made \in [Forms -> Nat] /\ dropped \in [Forms -> Nat]

\* Of a form with these signals, that has created n records and lost d answers: it has an open
\* stream only when it is mounted; every record it has created but one was one whose answer
\* was lost; and while it may save, or a save is on its way or refused, all of them were.
FormSound(s, n, d, mounted) ==
    /\ s.kind = "none" => s.save = "no" /\ n = 0
    /\ mounted => s.kind # "none"
    /\ s.stream = "open" => mounted
    /\ n <= 1 + d
    /\ s.save \in {"sent", "refused"} => n <= d
    /\ mounted /\ s.save # "ok" => n <= d

FormInv == FormTypeOK /\ \A f \in Forms : FormSound(form[f], made[f], dropped[f], Mounted(f))

\* No form is mounted at first.
LEMMA FormStart == FormInit => FormInv
  BY FormAssumption DEF FormInit, FormInv, FormTypeOK, FormSound, FormSignals, Closed, Mounted

\* A step of one form leaves the others as they were.
LEMMA OneForm ==
    ASSUME FormInv, NEW f \in Forms, NEW s \in FormSignals, NEW n \in Nat, NEW d \in Nat,
           form' = [form EXCEPT ![f] = s], made' = [made EXCEPT ![f] = n],
           dropped' = [dropped EXCEPT ![f] = d], page' = page, ver' \in Nat, top' \in Nat,
           FormSound(s, n, d, Mounted(f))
    PROVE  FormInv'
<1>1. FormTypeOK'
  BY DEF FormInv, FormTypeOK
<1>2. ASSUME NEW g \in Forms PROVE FormSound(form[g], made[g], dropped[g], Mounted(g))'
  <2>1. CASE g = f
    BY <2>1 DEF FormInv, FormTypeOK, FormSound, Mounted
  <2>2. CASE g # f
    BY <2>2 DEF FormInv, FormTypeOK, FormSound, Mounted
  <2> QED
    BY <2>1, <2>2
<1> QED
  BY <1>1, <1>2 DEF FormInv

\* What a form does while it is mounted, and the ticket that comes late.
LEMMA FormSteps ==
    ASSUME FormInv, NEW f \in Forms,
           Fetch(f) \/ Loaded(f) \/ Ticket(f) \/ Message(f) \/ StreamRefused(f) \/ Save(f)
    PROVE  FormInv'
<1>1. /\ form[f] \in FormSignals /\ made[f] \in Nat /\ dropped[f] \in Nat
      /\ FormSound(form[f], made[f], dropped[f], Mounted(f))
      /\ ver \in Nat /\ top \in Nat
  BY DEF FormInv, FormTypeOK
<1>2. /\ made' = [made EXCEPT ![f] = made[f]] /\ dropped' = [dropped EXCEPT ![f] = dropped[f]]
      /\ page' = page /\ ver' = ver /\ top' = top
  BY DEF FormInv, FormTypeOK, Fetch, Loaded, Ticket, Message, StreamRefused, Save
<1>3. ASSUME NEW s \in FormSignals, form' = [form EXCEPT ![f] = s],
             FormSound(s, made[f], dropped[f], Mounted(f))
      PROVE  FormInv'
  BY <1>1, <1>2, <1>3, OneForm
<1>4. CASE Fetch(f)
  <2> DEFINE s == [form[f] EXCEPT !.load = "read", !.got = ver]
  <2>1. form' = [form EXCEPT ![f] = s]
    BY <1>4 DEF Fetch, FormInv, FormTypeOK
  <2>2. s \in FormSignals /\ FormSound(s, made[f], dropped[f], Mounted(f))
    BY <1>1 DEF FormSignals, FormSound
  <2> QED
    BY <1>3, <2>1, <2>2
<1>5. CASE Loaded(f)
  <2>1. PICK got \in {form[f].got, NoVersion} :
           form' = [form EXCEPT ![f].load = "done",
                                ![f].seen = IF got = 0 THEN NoVersion ELSE got]
    BY <1>5 DEF Loaded
  <2> DEFINE s == [form[f] EXCEPT !.load = "done", !.seen = IF got = 0 THEN NoVersion ELSE got]
  <2>2. form' = [form EXCEPT ![f] = s]
    BY <2>1 DEF FormInv, FormTypeOK
  <2>3. s \in FormSignals /\ FormSound(s, made[f], dropped[f], Mounted(f))
    BY <1>1 DEF FormSignals, FormSound
  <2> QED
    BY <1>3, <2>2, <2>3
<1>6. CASE Ticket(f)
  <2>1. PICK x \in {Opens(f), "none"} : form' = [form EXCEPT ![f].stream = x]
    BY <1>6 DEF Ticket
  <2> DEFINE s == [form[f] EXCEPT !.stream = x]
  <2>2. form' = [form EXCEPT ![f] = s]
    BY <2>1 DEF FormInv, FormTypeOK
  <2>3. s \in FormSignals /\ FormSound(s, made[f], dropped[f], Mounted(f))
    BY <1>1 DEF FormSignals, FormSound, Opens
  <2> QED
    BY <1>3, <2>2, <2>3
<1>7. CASE Message(f)
  <2> DEFINE s == [form[f] EXCEPT !.pos = @ + 1, !.banner = form[f].pos + 1]
  <2>1. form' = [form EXCEPT ![f] = s]
    BY <1>7 DEF Message, FormInv, FormTypeOK
  <2>2. form[f].pos + 1 \in Nat
    BY <1>1 DEF FormSignals
  <2>3. s \in FormSignals
    BY <1>1, <2>2 DEF FormSignals
  <2>4. s.kind = form[f].kind /\ s.save = form[f].save /\ s.stream = form[f].stream
    BY <1>1 DEF FormSignals
  <2>5. FormSound(s, made[f], dropped[f], Mounted(f))
    BY <1>1, <2>4 DEF FormSound
  <2> QED
    BY <1>3, <2>1, <2>3, <2>5
<1>8. CASE StreamRefused(f)
  <2> DEFINE s == [form[f] EXCEPT !.stream = "closed"]
  <2>1. form' = [form EXCEPT ![f] = s]
    BY <1>8 DEF StreamRefused, FormInv, FormTypeOK
  <2>2. s \in FormSignals /\ FormSound(s, made[f], dropped[f], Mounted(f))
    BY <1>1 DEF FormSignals, FormSound
  <2> QED
    BY <1>3, <2>1, <2>2
<1>9. CASE Save(f)
  <2> DEFINE s == [form[f] EXCEPT !.save = "sent"]
  <2>1. form' = [form EXCEPT ![f] = s]
    BY <1>9 DEF Save, FormInv, FormTypeOK
  <2>2. s \in FormSignals /\ FormSound(s, made[f], dropped[f], Mounted(f))
    BY <1>1, <1>9 DEF FormSignals, FormSound, Save, CanSave
  <2> QED
    BY <1>3, <2>1, <2>2
<1> QED
  BY <1>4, <1>5, <1>6, <1>7, <1>8, <1>9

\* The server takes a save, or its answer is a refusal or lost.
LEMMA SaveSteps ==
    ASSUME FormInv, NEW f \in Forms, Serve(f) \/ NotSaved(f) PROVE FormInv'
<1>1. /\ form[f] \in FormSignals /\ made[f] \in Nat /\ dropped[f] \in Nat
      /\ FormSound(form[f], made[f], dropped[f], Mounted(f))
      /\ ver \in Nat /\ top \in Nat
      /\ form \in [Forms -> FormSignals] /\ made \in [Forms -> Nat] /\ dropped \in [Forms -> Nat]
  BY DEF FormInv, FormTypeOK
<1>2. CASE Serve(f)
  <2>1. PICK a \in {"ok", "refused"}, n \in {made[f], made[f] + 1} :
           /\ form' = [form EXCEPT ![f].save = a] /\ made' = [made EXCEPT ![f] = n]
           /\ ver' \in Nat /\ top' \in Nat /\ page' = page /\ dropped' = dropped
           /\ a = "refused" => n = made[f]
    <3>1. /\ page' = page /\ dropped' = dropped /\ ver' \in Nat /\ top' \in Nat
      BY <1>1, <1>2 DEF Serve
    <3>2. CASE made' = [made EXCEPT ![f] = @ + 1] /\ form' = [form EXCEPT ![f].save = "ok"]
      BY <3>1, <3>2
    <3>3. CASE made' = made /\ \E a \in {"ok", "refused"} : form' = [form EXCEPT ![f].save = a]
      <4>1. made' = [made EXCEPT ![f] = made[f]]
        BY <1>1, <3>3
      <4> QED
        BY <3>1, <3>3, <4>1
    <3> QED
      BY <1>2, <3>2, <3>3 DEF Serve
  <2> DEFINE s == [form[f] EXCEPT !.save = a]
  <2>2. form' = [form EXCEPT ![f] = s] /\ dropped' = [dropped EXCEPT ![f] = dropped[f]]
    BY <1>1, <2>1
  <2>3. form[f].save = "sent"
    BY <1>2 DEF Serve
  <2>4. s \in FormSignals /\ n \in Nat /\ FormSound(s, n, dropped[f], Mounted(f))
    BY <1>1, <2>1, <2>3 DEF FormSignals, FormSound
  <2> QED
    BY <1>1, <2>1, <2>2, <2>4, OneForm
<1>3. CASE NotSaved(f)
  <2> DEFINE s == [form[f] EXCEPT !.save = "no"]
  <2>1. PICK d \in {dropped[f], dropped[f] + 1} :
           /\ dropped' = [dropped EXCEPT ![f] = d]
           /\ form[f].save \in {"sent", "ok"} => d = dropped[f] + 1
           /\ form[f].save # "no"
    BY <1>1, <1>3 DEF NotSaved
  <2>2. /\ form' = [form EXCEPT ![f] = s] /\ made' = [made EXCEPT ![f] = made[f]]
        /\ page' = page /\ ver' = ver /\ top' = top
    BY <1>1, <1>3 DEF NotSaved
  <2>3. s \in FormSignals /\ d \in Nat /\ FormSound(s, made[f], d, Mounted(f))
    BY <1>1, <2>1 DEF FormSignals, FormSound
  <2> QED
    BY <1>1, <2>1, <2>2, <2>3, OneForm
<1> QED
  BY <1>2, <1>3

\* The page that is left closes its stream, whoever navigates.
LEMMA PageLeft ==
    ASSUME FormInv, NEW fs \in [Forms -> FormSignals],
           \A g \in Forms :
              /\ fs[g].stream = form[g].stream
              /\ fs[g].kind = "none" => fs[g].save = "no" /\ made[g] = 0
              /\ fs[g].save \in {"sent", "refused"} => made[g] <= dropped[g],
           form' = LeftPage(fs, page), page' = "list", UNCHANGED <<ver, top, made, dropped>>
    PROVE  FormInv'
<1>1. form' \in [Forms -> FormSignals]
  <2>1. \A g \in Forms : [fs[g] EXCEPT !.stream = "closed"] \in FormSignals
    BY DEF FormSignals
  <2> QED
    BY <2>1 DEF LeftPage
<1>2. FormTypeOK'
  BY <1>1 DEF FormInv, FormTypeOK
<1>3. ASSUME NEW g \in Forms PROVE FormSound(form[g], made[g], dropped[g], Mounted(g))'
  <2>1. /\ form'[g].save = fs[g].save /\ form'[g].kind = fs[g].kind
        /\ form'[g].stream = "open" => fs[g].stream = "open" /\ g # page
    BY DEF LeftPage, FormSignals
  <2>2. form'[g].stream # "open"
    BY <2>1 DEF FormInv, FormSound, Mounted
  <2>3. ~Mounted(g)'
    BY FormAssumption DEF Mounted
  <2> QED
    BY <2>1, <2>2, <2>3 DEF FormInv, FormSound
<1> QED
  BY <1>2, <1>3 DEF FormInv

\* The inductive invariant of the record forms, for any number of visits to a form and
\* whatever answers are lost: a stream is open only on the form that is mounted, and while a
\* form may still save, all it has created are records whose answers were lost (on_cleanup,
\* es_closed, saving).
THEOREM FormInvariant == FormSpec => []FormInv
<1>1. FormInv /\ [FormNext]_formVars => FormInv'
  <2> SUFFICES ASSUME FormInv, [FormNext]_formVars PROVE FormInv'
    OBVIOUS
  <2>1. CASE UNCHANGED formVars
    BY <2>1 DEF formVars, FormInv, FormTypeOK, Mounted
  <2>2. ASSUME NEW f \in Forms, NEW sort \in {"edit", "new"}, OpenForm(f, sort) PROVE FormInv'
    <3> DEFINE s == [Closed EXCEPT !.kind = sort,
                                   !.load = IF sort = "edit" THEN "def" ELSE "blank",
                                   !.stream = IF sort = "edit" THEN "ticket" ELSE "none"]
    <3>1. /\ form' = [form EXCEPT ![f] = s] /\ page = "list" /\ page' = f /\ form[f] = Closed
          /\ UNCHANGED <<ver, top, made, dropped>>
      BY <2>2 DEF OpenForm, FormInv, FormTypeOK
    <3>2. s \in FormSignals /\ s.kind # "none" /\ s.save = "no" /\ s.stream # "open"
      BY DEF Closed, FormSignals
    <3>3. made[f] = 0
      BY <3>1 DEF FormInv, FormSound, Closed
    <3>4. FormTypeOK'
      BY <3>1, <3>2 DEF FormInv, FormTypeOK
    <3>5. ASSUME NEW g \in Forms PROVE FormSound(form[g], made[g], dropped[g], Mounted(g))'
      <4>1. CASE g = f
        BY <3>1, <3>2, <3>3, <4>1 DEF FormInv, FormTypeOK, FormSound, Mounted
      <4>2. CASE g # f
        BY <3>1, <4>2, FormAssumption DEF FormInv, FormTypeOK, FormSound, Mounted
      <4> QED
        BY <4>1, <4>2
    <3> HIDE DEF s
    <3> QED
      BY <3>4, <3>5 DEF FormInv
  <2>3. ASSUME NEW f \in Forms,
               Fetch(f) \/ Loaded(f) \/ Ticket(f) \/ Message(f) \/ StreamRefused(f) \/ Save(f)
        PROVE FormInv'
    BY <2>3, FormSteps
  <2>4. ASSUME NEW f \in Forms, Serve(f) \/ NotSaved(f) PROVE FormInv'
    BY <2>4, SaveSteps
  <2>5. ASSUME NEW f \in Forms, Saved(f) PROVE FormInv'
    <3> DEFINE fs == [form EXCEPT ![f].save = "no"]
    <3>1. /\ form' = LeftPage(fs, page) /\ page' = "list" /\ UNCHANGED <<ver, top, made, dropped>>
      BY <2>5 DEF Saved
    <3>2. fs \in [Forms -> FormSignals]
      BY DEF FormInv, FormTypeOK, FormSignals
    <3>3. \A g \in Forms :
             /\ fs[g].stream = form[g].stream
             /\ fs[g].kind = "none" => fs[g].save = "no" /\ made[g] = 0
             /\ fs[g].save \in {"sent", "refused"} => made[g] <= dropped[g]
      BY DEF FormInv, FormTypeOK, FormSignals, FormSound
    <3> HIDE DEF fs
    <3> QED
      BY <3>1, <3>2, <3>3, PageLeft
  <2>6. CASE Leave
    <3>1. /\ form' = LeftPage(form, page) /\ page' = "list" /\ UNCHANGED <<ver, top, made, dropped>>
      BY <2>6 DEF Leave
    <3>2. form \in [Forms -> FormSignals]
      BY DEF FormInv, FormTypeOK
    <3>3. \A g \in Forms :
             /\ form[g].kind = "none" => form[g].save = "no" /\ made[g] = 0
             /\ form[g].save \in {"sent", "refused"} => made[g] <= dropped[g]
      BY DEF FormInv, FormSound
    <3> QED
      BY <3>1, <3>2, <3>3, PageLeft
  <2>7. CASE RemoteUpdate \/ Delete
    BY <2>7 DEF RemoteUpdate, Delete, FormInv, FormTypeOK, Mounted
  <2> QED
    BY <2>1, <2>2, <2>3, <2>4, <2>5, <2>6, <2>7 DEF FormNext
<1> QED
  BY FormStart, <1>1, PTL DEF FormSpec

\* No event stream outlives its form, though its ticket may come after the form was left, and a
\* form creates its record once unless an answer is lost, for any number of forms
\* (RecordForm).
THEOREM FormsStayClean == FormSpec => []FormsClean
<1>1. FormInv => FormsClean
  BY DEF FormInv, FormSound, FormsClean
<1> QED
  BY FormInvariant, <1>1, PTL
-----------------------------------------------------------------------------
(* The check of a draft and its publish *)

DefRow == [status : {"active", "retired"}, def : Definitions]

\* The entity a row names has a row, active or not.
RowsNested ==
    \A i \in DefIds \ EntityIds : defRow[i] # NoDef =>
        defRow[i].def.on \in EntityIds /\ defRow[defRow[i].def.on] # NoDef

GateInv == defRow \in [DefIds -> DefRow \cup {NoDef}] /\ RowsNested /\ GateSound

\* The live model: the definitions of the rows that are active, under active entities.
LEMMA LiveRows ==
    /\ \A i : i \in DOMAIN LiveModel <=>
           i \in DefIds /\ Stands(i) /\ (i \in EntityIds \/ Stands(defRow[i].def.on))
    /\ \A i \in DOMAIN LiveModel : LiveModel[i] = defRow[i].def
BY DEF LiveModel

\* A chain of some formulas is one of more formulas.
LEMMA ChainsStay == ASSUME NEW fs, NEW gs, fs \subseteq gs, NEW k, HasChain(fs, k)
                    PROVE  HasChain(gs, k)
<1>1. PICK chain \in [0..k -> {f \in fs : Calculated(f)}] :
          \A n \in 1..k : chain[n].name \in chain[n - 1].logic
  BY DEF HasChain
<1>2. chain \in [0..k -> {f \in gs : Calculated(f)}]
  BY <1>1
<1> QED
  BY <1>1, <1>2 DEF HasChain

\* Nothing is live before the first publish.
LEMMA GateStart == GateInit => GateInv
<1> SUFFICES ASSUME GateInit PROVE GateInv
  OBVIOUS
<1>1. DOMAIN LiveModel = {}
  BY LiveRows DEF GateInit, Stands
<1>2. LiveIsDrafted
  BY <1>1 DEF GateInit, LiveIsDrafted
<1>3. LogicSound
  BY <1>1 DEF LogicSound, Of
<1> QED
  BY <1>2, <1>3 DEF GateInit, GateInv, GateSound, RowsNested

\* What a publish makes of a row: what the draft names is active, and is as the draft
\* says unless it was there before; what it does not name and is active was left out of
\* the live model already.
LEMMA RowPublished ==
    ASSUME GateInv, NEW d \in DraftModels, Published(d), NEW i \in DefIds
    PROVE  /\ defRow'[i] \in DefRow \cup {NoDef}
           /\ i \in DOMAIN d => Stands(i)'
           /\ i \in DOMAIN d \ revived' => defRow'[i].def = d[i]
           /\ i \notin DOMAIN d /\ Stands(i)' =>
                  Stands(i) /\ i \notin DOMAIN LiveModel
           /\ defRow[i] # NoDef => defRow'[i] # NoDef /\ defRow'[i].def = defRow[i].def
           /\ defRow[i] = NoDef /\ defRow'[i] # NoDef =>
                  i \in DOMAIN d /\ defRow'[i].def = d[i]
<1> DEFINE after == RowAfter(LiveModel, d, i)
<1>1. NoDef \notin DefRow
  BY GateAssumption DEF DefRow
<1>2. i \in DOMAIN d => d[i] \in Definitions
  BY DEF Definitions
<1>3. defRow'[i] = after
  BY DEF Published
<1>4. defRow[i] \in DefRow \cup {NoDef}
  BY DEF GateInv
<1>5. CASE i \in New(LiveModel, d) /\ defRow[i] = NoDef
  <2>1. after = [status |-> "active", def |-> d[i]]
    BY <1>5 DEF RowAfter, New
  <2>2. after \in DefRow
    BY <2>1, <1>2, <1>5 DEF DefRow, New
  <2> QED
    BY <2>1, <2>2, <1>1, <1>3, <1>5 DEF New, Stands
<1>6. CASE i \in New(LiveModel, d) /\ defRow[i] # NoDef
  <2>1. after = [defRow[i] EXCEPT !.status = "active"]
    BY <1>6 DEF RowAfter, New
  <2>2. after \in DefRow /\ after.status = "active" /\ after.def = defRow[i].def
    BY <2>1, <1>4, <1>6 DEF DefRow
  <2>3. i \in revived'
    BY <1>6 DEF Published
  <2> QED
    BY <2>2, <2>3, <1>1, <1>3, <1>6 DEF New, Stands
<1>7. CASE i \in DOMAIN LiveModel \ DOMAIN d
  <2>1. after = [defRow[i] EXCEPT !.status = "retired"]
    BY <1>7 DEF RowAfter, New
  <2>2. defRow[i] # NoDef
    BY <1>7, LiveRows DEF Stands
  <2>3. after \in DefRow /\ after.status = "retired" /\ after.def = defRow[i].def
    BY <2>1, <2>2, <1>4 DEF DefRow
  <2> QED
    BY <2>2, <2>3, <1>1, <1>3, <1>7 DEF Stands
<1>8. CASE i \notin New(LiveModel, d) /\ i \notin DOMAIN LiveModel \ DOMAIN d
  <2>1. after = defRow[i]
    BY <1>8 DEF RowAfter
  <2>2. i \in DOMAIN d <=> i \in DOMAIN LiveModel
    BY <1>8 DEF New
  <2>3. i \in DOMAIN d => Stands(i) /\ defRow[i].def = d[i]
    <3>1. Transforms(LiveModel, d) = {}
      BY DEF Published, Acceptable
    <3> QED
      BY <2>2, <3>1, LiveRows DEF Transforms, Canon
  <2> QED
    BY <2>1, <2>2, <2>3, <1>3, <1>4 DEF Stands
<1> QED
  BY <1>5, <1>6, <1>7, <1>8

\* What a publish makes live: the draft's entities, and no row without its entity's.
LEMMA PublishedRows ==
    ASSUME GateInv, NEW d \in DraftModels, Published(d)
    PROVE  /\ defRow' \in [DefIds -> DefRow \cup {NoDef}] /\ RowsNested'
           /\ \A e \in EntityIds : Stands(e)' <=> e \in DOMAIN d
           /\ \A i : i \in DOMAIN LiveModel' <=>
                  i \in DefIds /\ Stands(i)' /\ (i \in EntityIds \/ Stands(defRow[i].def.on)')
           /\ \A i \in DOMAIN LiveModel' : LiveModel'[i] = defRow'[i].def
<1>1. EntityIds \subseteq DefIds /\ DOMAIN d \subseteq DefIds /\ Nested(d)
  BY GateAssumption DEF DefIds
<1>2. defRow' \in [DefIds -> DefRow \cup {NoDef}]
  <2>1. defRow' = [i \in DefIds |-> RowAfter(LiveModel, d, i)]
    BY DEF Published
  <2>2. \A i \in DefIds : defRow'[i] \in DefRow \cup {NoDef}
    BY RowPublished
  <2> QED
    BY <2>1, <2>2
<1>3. \A e \in EntityIds : Stands(e)' <=> e \in DOMAIN d
  BY <1>1, RowPublished, LiveRows
<1>4. RowsNested'
  <2> SUFFICES ASSUME NEW i \in DefIds \ EntityIds, defRow'[i] # NoDef
               PROVE  defRow'[i].def.on \in EntityIds /\ defRow'[defRow'[i].def.on] # NoDef
    BY DEF RowsNested
  <2>1. CASE defRow[i] # NoDef
    <3>1. defRow'[i].def = defRow[i].def
      BY <2>1, RowPublished
    <3>2. defRow[i].def.on \in EntityIds /\ defRow[defRow[i].def.on] # NoDef
      BY <2>1 DEF GateInv, RowsNested
    <3> QED
      BY <3>1, <3>2, <1>1, RowPublished
  <2>2. CASE defRow[i] = NoDef
    <3>1. i \in DOMAIN d /\ defRow'[i].def = d[i]
      BY <2>2, RowPublished
    <3>2. d[i].on \in DOMAIN d \cap EntityIds
      BY <3>1, <1>1 DEF Nested
    <3> QED
      BY <3>1, <3>2, <1>3 DEF Stands
  <2> QED
    BY <2>1, <2>2
<1>5. /\ \A i : i \in DOMAIN LiveModel' <=>
             i \in DefIds /\ Stands(i)' /\ (i \in EntityIds \/ Stands(defRow[i].def.on)')
      /\ \A i \in DOMAIN LiveModel' : LiveModel'[i] = defRow'[i].def
  BY DEF LiveModel, Stands
<1> QED
  BY <1>2, <1>3, <1>4, <1>5

\* What is live after a publish is the draft, what came back excepted.
LEMMA LiveAfter ==
    ASSUME GateInv, NEW d \in DraftModels, Published(d)
    PROVE  LiveIsDrafted'
<1>1. DOMAIN d \subseteq DefIds /\ Nested(d) /\ drafted' = d
  BY GateAssumption DEF Published
<1>2. ASSUME NEW i \in DOMAIN d \ DOMAIN LiveModel'
      PROVE  i \in revived' /\ defRow'[i].def.on # d[i].on
  <2>1. Stands(i)' /\ i \notin EntityIds /\ ~Stands(defRow[i].def.on)'
    BY <1>1, <1>2, RowPublished, PublishedRows
  <2>2. d[i].on \in DOMAIN d \cap EntityIds
    BY <2>1, <1>1, <1>2 DEF Nested
  <2>3. Stands(d[i].on)'
    BY <2>2, PublishedRows
  <2>4. defRow'[i].def.on # d[i].on
    BY <2>1, <2>3 DEF Stands
  <2> QED
    BY <2>4, <1>1, <1>2, RowPublished
<1>3. ASSUME NEW i \in DOMAIN LiveModel' \ DOMAIN d
      PROVE  LiveModel'[i].on \in revived'
  <2> DEFINE e == defRow[i].def.on
  <2>1. i \in DefIds /\ Stands(i)' /\ (i \in EntityIds \/ Stands(defRow[i].def.on)')
    BY <1>3, PublishedRows
  <2>2. i \notin EntityIds /\ Stands(i) /\ i \notin DOMAIN LiveModel
    BY <2>1, <1>3, RowPublished, PublishedRows
  <2>3. defRow'[i].def = defRow[i].def
    BY <2>1, <2>2, RowPublished DEF Stands
  <2>4. e \in EntityIds /\ defRow[e] # NoDef
    BY <2>1, <2>2 DEF GateInv, RowsNested, Stands
  <2>5. e \in DOMAIN d
    <3>1. defRow'[e] # NoDef /\ defRow'[e].status = "active"
      BY <2>1, <2>2, <2>3 DEF Stands
    <3>2. \A k \in EntityIds :
              k \in DOMAIN d <=> defRow'[k] # NoDef /\ defRow'[k].status = "active"
      BY PublishedRows DEF Stands
    <3> QED
      BY <2>4, <3>1, <3>2
  <2>6. e \notin DOMAIN LiveModel
    BY <2>1, <2>2, LiveRows
  <2>7. e \in revived'
    BY <2>4, <2>5, <2>6 DEF Published, New
  <2> QED
    BY <2>3, <2>7, <1>3, PublishedRows
<1>4. ASSUME NEW i \in DOMAIN LiveModel' \cap DOMAIN d
      PROVE  i \in revived' \/ LiveModel'[i] = d[i]
  BY <1>1, <1>4, RowPublished, PublishedRows
<1> QED
  BY <1>1, <1>2, <1>3, <1>4 DEF LiveIsDrafted

\* The formulas of a draft that is published as it is form no chain that is too long.
LEMMA DraftHasNoChain ==
    ASSUME NEW live, NEW d, Acceptable(live, d), NEW e \in Of(EntityIds, d)
    PROVE  ~HasChain({f \in {d[i] : i \in Of(FieldIds, d)} : f.on = e}, MaxDepth + 1)
<1> DEFINE own == {d[i] : i \in {k \in Of(FieldIds, d) : d[k].on = e}}
<1>1. ~TooDeep(FieldsSeen(live, d, e))
  BY DEF Acceptable, Errors
<1>2. own \subseteq FieldsSeen(live, d, e)
  BY DEF FieldsSeen
<1>3. {f \in {d[i] : i \in Of(FieldIds, d)} : f.on = e} \subseteq own
  OBVIOUS
<1> QED
  BY <1>1, <1>2, <1>3, ChainsStay DEF TooDeep

\* What is live is the last draft, and its formulas are sound.
THEOREM GateInvariant == GateSpec => []GateInv
<1>1. GateInv /\ [GateNext]_gateVars => GateInv'
  <2> SUFFICES ASSUME GateInv, [GateNext]_gateVars PROVE GateInv'
    OBVIOUS
  <2>1. ASSUME NEW d \in DraftModels, Published(d) PROVE GateInv'
    <3>1. LiveIsDrafted'
      BY <2>1, LiveAfter
    <3>2. LogicSound'
      <4>1. drafted' = d /\ Acceptable(LiveModel, d)
        BY <2>1 DEF Published
      <4>2. \A e \in Of(EntityIds, d) :
                ~HasChain({f \in {d[i] : i \in Of(FieldIds, d)} : f.on = e}, MaxDepth + 1)
        BY <4>1, DraftHasNoChain
      <4> QED
        BY <4>1, <4>2 DEF LogicSound
    <3> QED
      BY <2>1, <3>1, <3>2, PublishedRows DEF GateInv, GateSound
  <2>2. CASE UNCHANGED gateVars
    <3>1. LiveModel' = LiveModel /\ UNCHANGED <<defRow, drafted, revived>>
      BY <2>2 DEF gateVars, LiveModel, Stands
    <3> QED
      BY <3>1 DEF GateInv, GateSound, LiveIsDrafted, LogicSound, RowsNested
  <2> QED
    BY <2>1, <2>2 DEF GateNext, Rejected, RolledBack
<1> QED
  BY GateStart, <1>1, PTL DEF GateSpec

\* What is live after any number of publishes is what the last draft said, except for
\* what came back from retirement, which is as it was, under the entity it had been in;
\* and unless something came back otherwise, no live formulas form a cycle or too long a
\* chain, for every set of drafts (DraftGate).
THEOREM LiveAsDrafted == GateSpec => []GateSound
<1>1. GateInv => GateSound
  BY DEF GateInv
<1> QED
  BY GateInvariant, <1>1, PTL
=============================================================================

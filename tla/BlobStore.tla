------------------------------ MODULE BlobStore ------------------------------
(***************************************************************************)
(* Attachments (mda-api/src/blobs.rs): a row of sys_blob for each upload,  *)
(* one file for all uploads of the same bytes in a tenant.  Files are      *)
(* outside of the database: a file is written before the transaction that  *)
(* names it commits, and unlinked after the one that drops its last name.  *)
(***************************************************************************)
EXTENDS Naturals

CONSTANTS
    BlobIds,      \* ids of uploads, which are also the keys of files
    Tenants,
    Sums,         \* checksums of contents
    BlobHandlers, \* requests in flight
    MaxLost,      \* bound: requests that die half-way
    NoBlob

BlobRow == [tenant : Tenants, key : BlobIds, sum : Sums]

ASSUME BlobAssumption == MaxLost \in Nat /\ NoBlob \notin Sums \cup BlobRow

VARIABLES
    blob,   \* sys_blob: tenant, storage_key, checksum
    file,   \* the checksum of the bytes under each key
    breq,   \* what each request is in the middle of
    lost,   \* requests that died
    drawn   \* ids drawn

blobVars == <<blob, file, breq, lost, drawn>>

NoReq == [op |-> "none"]

Rows == {b \in BlobIds : blob[b] # NoBlob}

\* pg_advisory_xact_lock, keyed on the checksum.
LockFree(sum) == ~\E h \in BlobHandlers : breq[h].op \in {"lookup", "put", "insert", "drop"} /\ breq[h].sum = sum

\* Mutant: rows of every tenant are looked up.
SameBytesAnywhere(t, sum) == {b \in Rows : blob[b].sum = sum}

\* The rows an upload may share the bytes of.
SameBytes(t, sum) == {b \in Rows : blob[b].tenant = t /\ blob[b].sum = sum}

\* The rows of the tenant that still name a key.
StillNamed(t, key, but) == {b \in Rows \ {but} : blob[b].tenant = t /\ blob[b].key = key}

BlobInit ==
    /\ blob = [b \in BlobIds |-> NoBlob]
    /\ file = [b \in BlobIds |-> NoBlob]
    /\ breq = [h \in BlobHandlers |-> NoReq]
    /\ lost = 0
    /\ drawn = {}

Step(h, r) == breq' = [breq EXCEPT ![h] = r]

\* upload_attachment: an id of its own, and the lock.
UploadLock(h, b, t, sum) ==
    /\ breq[h] = NoReq /\ b \notin drawn /\ LockFree(sum)
    /\ drawn' = drawn \cup {b}
    /\ Step(h, [op |-> "lookup", id |-> b, tenant |-> t, sum |-> sum])
    /\ UNCHANGED <<blob, file, lost>>

LookUp(h) ==
    LET r == breq[h] IN
    /\ r.op = "lookup"
    /\ IF SameBytes(r.tenant, r.sum) = {}
       THEN Step(h, [r EXCEPT !.op = "put"])
       ELSE \E b \in SameBytes(r.tenant, r.sum) :
               Step(h, [op |-> "insert", id |-> r.id, tenant |-> r.tenant, sum |-> r.sum, key |-> blob[b].key])
    /\ UNCHANGED <<blob, file, lost, drawn>>

Put(h) ==
    LET r == breq[h] IN
    /\ r.op = "put"
    /\ file' = [file EXCEPT ![r.id] = r.sum]
    /\ Step(h, [op |-> "insert", id |-> r.id, tenant |-> r.tenant, sum |-> r.sum, key |-> r.id])
    /\ UNCHANGED <<blob, lost, drawn>>

InsertRow(h) ==
    LET r == breq[h] IN
    /\ r.op = "insert"
    /\ blob' = [blob EXCEPT ![r.id] = [tenant |-> r.tenant, key |-> r.key, sum |-> r.sum]]
    /\ Step(h, NoReq)
    /\ UNCHANGED <<file, lost, drawn>>

\* delete_attachment reads the row before it has the lock ...
DeleteRead(h, b) ==
    /\ breq[h] = NoReq /\ b \in Rows
    /\ Step(h, [op |-> "lock", id |-> b, tenant |-> blob[b].tenant, sum |-> blob[b].sum, key |-> blob[b].key])
    /\ UNCHANGED <<blob, file, lost, drawn>>

DeleteLock(h) ==
    /\ breq[h].op = "lock" /\ LockFree(breq[h].sum)
    /\ Step(h, [breq[h] EXCEPT !.op = "drop"])
    /\ UNCHANGED <<blob, file, lost, drawn>>

\* ... drops it, counts who else has the key, commits ...
DropRow(h) ==
    LET r == breq[h] IN
    /\ r.op = "drop"
    /\ blob' = [blob EXCEPT ![r.id] = NoBlob]
    /\ Step(h, IF StillNamed(r.tenant, r.key, r.id) = {} THEN [r EXCEPT !.op = "unlink"] ELSE NoReq)
    /\ UNCHANGED <<file, lost, drawn>>

\* ... and then unlinks the file.
Unlink(h) ==
    /\ breq[h].op = "unlink"
    /\ file' = [file EXCEPT ![breq[h].key] = NoBlob]
    /\ Step(h, NoReq)
    /\ UNCHANGED <<blob, lost, drawn>>

\* An error, a lost client, the end of the process: the transaction rolls back.
BlobDie(h) ==
    /\ breq[h] # NoReq /\ lost < MaxLost
    /\ Step(h, NoReq) /\ lost' = lost + 1
    /\ UNCHANGED <<blob, file, drawn>>

\* download_attachment reads the row, then the file.
DownloadRead(h, b) ==
    /\ breq[h] = NoReq /\ b \in Rows
    /\ Step(h, [op |-> "get", id |-> b, key |-> blob[b].key, sum |-> blob[b].sum])
    /\ UNCHANGED <<blob, file, lost, drawn>>

DownloadGet(h) ==
    /\ breq[h].op = "get"
    /\ Step(h, NoReq)
    /\ UNCHANGED <<blob, file, lost, drawn>>

BlobNext ==
    \E h \in BlobHandlers :
        \/ \E b \in BlobIds : \/ \E t \in Tenants, s \in Sums : UploadLock(h, b, t, s)
                              \/ DeleteRead(h, b) \/ DownloadRead(h, b)
        \/ LookUp(h) \/ Put(h) \/ InsertRow(h)
        \/ DeleteLock(h) \/ DropRow(h) \/ Unlink(h)
        \/ BlobDie(h) \/ DownloadGet(h)

BlobSpec == BlobInit /\ [][BlobNext]_blobVars

-----------------------------------------------------------------------------
\* Whatever uploads and deletes of the same bytes race each other, every row has its
\* bytes, a download under way gets them unless its row is gone, and no file outlives
\* its rows unless a request died (upload_attachment, delete_attachment).
BlobsKept ==
    /\ \A b \in Rows : file[blob[b].key] = blob[b].sum
    /\ \A h \in BlobHandlers : breq[h].op = "get" /\ breq[h].id \in Rows
                                  => file[breq[h].key] = breq[h].sum
    /\ lost = 0 => \A k \in BlobIds : file[k] # NoBlob =>
          \/ \E b \in Rows : blob[b].key = k
          \/ \E h \in BlobHandlers : breq[h].op \in {"insert", "unlink"} /\ breq[h].key = k
=============================================================================

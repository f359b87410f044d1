-------------------------------- MODULE Inbound --------------------------------
(***************************************************************************)
(* Events of an external system on their way into records: the receiver    *)
(* (mda-api/src/webhooks.rs, inbound), the outbox row, and the flow that   *)
(* materializes the payload (mda-integration/src/lib.rs): it looks the     *)
(* external key up, creates or updates the record, links the key to it and *)
(* notes the run, each in a transaction of its own.  All events are about  *)
(* one external key.  A record has a field the external system owns and a  *)
(* field that others write.                                                *)
(***************************************************************************)
EXTENDS Naturals, FiniteSets

CONSTANTS
    Events,      \* ids of the events the external system sends
    Runners,     \* passes of the drain, scheduled pulls and manual runs
    Policies,    \* conflict policies
    RecIds,      \* ids of records: numbers
    MaxTries,    \* failures after which an outbox row is dead (5)
    MaxPulls,    \* bound: runs that no event started
    MaxUserEdits,    \* bound: writes of users
    MaxDeaths,   \* bound: runners that die
    NoRecord

ASSUME HubAssumption == NoRecord \notin RecIds

VARIABLES
    policy,     \* of the flow
    needs,      \* whether the field of the others is a required one
    received,      \* sys_inbound_webhook: the event ids received
    enqueuing,  \* events of which a delivery has the dedupe row in, and not yet the other
    acked,      \* events the external system has been told are received
    outbox,     \* the outbox row of each event: "none", "queued", "done", "dead"
    tries,
    record,     \* the records materialized
    link,       \* int_external_id of the key
    run,        \* what each runner is in the middle of
    pulls, edits, deaths,
    kept,       \* history: what the others wrote last, of each record
    overlap,  \* history: two runners were at work at a time
    unlinked, \* history: a run ended between a record and the key's link to it
    stopped   \* history: events whose first delivery ended between the two rows

inboundVars == <<policy, needs, received, enqueuing, acked, outbox, tries, record, link, run, pulls,
                 edits, deaths, kept, overlap, unlinked, stopped>>

NoRun == [step |-> "none"]
Alive(id) == record[id] # NoRecord

InboundInit ==
    /\ policy \in Policies /\ needs \in BOOLEAN
    /\ received = {} /\ enqueuing = {} /\ acked = {}
    /\ outbox = [e \in Events |-> "none"] /\ tries = [e \in Events |-> 0]
    /\ record = [id \in RecIds |-> NoRecord]
    /\ link = NoRecord
    /\ run = [w \in Runners |-> NoRun]
    /\ pulls = 0 /\ edits = 0 /\ deaths = 0
    /\ kept = [id \in RecIds |-> 0]
    /\ overlap = FALSE /\ unlinked = FALSE /\ stopped = {}

-----------------------------------------------------------------------------
(* The receiver *)

hubVars == <<policy, needs, record, link, run, pulls, edits, deaths, kept, overlap, unlinked, tries>>

\* A delivery of the event, the first or one more: the dedupe row goes in, or
\* it is there and the duplicate is acknowledged at once.
ReceiveEvent(e) ==
    /\ received' = received \cup {e}
    /\ IF e \in received THEN acked' = acked \cup {e} /\ UNCHANGED enqueuing
       ELSE enqueuing' = enqueuing \cup {e} /\ UNCHANGED acked
    /\ UNCHANGED <<hubVars, outbox, stopped>>

Enqueue(e) ==
    /\ e \in enqueuing
    /\ enqueuing' = enqueuing \ {e}
    /\ outbox' = [outbox EXCEPT ![e] = "queued"]
    /\ acked' = acked \cup {e}
    /\ UNCHANGED <<hubVars, received, stopped>>

\* The second INSERT fails, or the receiver dies before it.
EnqueueFails(e) ==
    /\ e \in enqueuing
    /\ enqueuing' = enqueuing \ {e} /\ stopped' = stopped \cup {e}
    /\ UNCHANGED <<hubVars, received, acked, outbox>>

-----------------------------------------------------------------------------
(* A run of the flow *)

receiverVars == <<policy, needs, received, enqueuing, acked, stopped>>

Continue(w, r) == run' = [run EXCEPT ![w] = r]

\* The drain has locked the row; a pull or a manual run has none.
Begins(w, r) ==
    /\ run[w] = NoRun
    /\ Continue(w, r)
    /\ overlap' = (overlap \/ \E v \in Runners : run[v] # NoRun)
    /\ UNCHANGED <<receiverVars, outbox, tries, record, link, edits, deaths, kept, unlinked>>

TakeEvent(w, e) ==
    /\ outbox[e] = "queued" /\ \A v \in Runners : run[v] # NoRun => run[v].event # e
    /\ Begins(w, [step |-> "map", event |-> e, id |-> 0, ver |-> 0, attempt |-> 0])
    /\ UNCHANGED pulls

Unasked(w) ==
    /\ pulls < MaxPulls /\ pulls' = pulls + 1
    /\ Begins(w, [step |-> "map", event |-> NoRecord, id |-> 0, ver |-> 0, attempt |-> 0])

\* A scheduled pull, and a run an administrator asks for.
Pull(w)      == Unasked(w)
ManualRun(w) == Unasked(w)

\* The mapping and the steps of the flow; a filter step may reject the payload.
MapPayload(w) ==
    /\ run[w].step = "map"
    /\ \E next \in {"lookup", "note"} : Continue(w, [run[w] EXCEPT !.step = next])
    /\ UNCHANGED <<receiverVars, outbox, tries, record, link, pulls, edits, deaths, kept, overlap, unlinked>>

\* lookup_external.
Found == IF link = NoRecord THEN "create" ELSE "read"

LookUpKey(w) ==
    /\ run[w].step = "lookup"
    /\ Continue(w, [run[w] EXCEPT !.step = Found, !.id = IF Found = "read" THEN link ELSE 0])
    /\ UNCHANGED <<receiverVars, outbox, tries, record, link, pulls, edits, deaths, kept, overlap, unlinked>>

CreateRecord(w, id) ==
    /\ run[w].step = "create" /\ ~Alive(id) /\ \A k \in RecIds : k < id => record[k] # NoRecord \/ kept[k] # 0
    /\ kept[id] = 0
    /\ record' = [record EXCEPT ![id] = [ver |-> 1, own |-> run[w].event, other |-> 1]]
    /\ kept' = [kept EXCEPT ![id] = 1]
    /\ Continue(w, [run[w] EXCEPT !.step = "link", !.id = id])
    /\ UNCHANGED <<receiverVars, outbox, tries, link, pulls, edits, deaths, overlap, unlinked>>

\* The run ends with its record, if it is at one, not linked to the key.
Unlinks(w) == run[w].step = "link" /\ link # run[w].id

\* The run returns an error: the row is to be tried again, or is dead.
Fail(w) ==
    LET e == run[w].event IN
    /\ Continue(w, NoRun)
    /\ IF e = NoRecord THEN UNCHANGED <<outbox, tries>>
       ELSE /\ tries' = [tries EXCEPT ![e] = @ + 1]
            /\ outbox' = [outbox EXCEPT ![e] = IF tries[e] + 1 >= MaxTries THEN "dead" ELSE @]
    /\ unlinked' = (unlinked \/ Unlinks(w))
    /\ UNCHANGED <<receiverVars, record, link, pulls, edits, deaths, kept, overlap>>

\* Any of its statements may fail: the look-up, the create, the link, the note.
StepFails(w) == run[w] # NoRun /\ Fail(w)

\* apply_update reads the version; a record that is gone is an error.
ReadCurrent(w) ==
    /\ run[w].step = "read"
    /\ IF ~Alive(run[w].id) THEN Fail(w)
       ELSE /\ Continue(w, [run[w] EXCEPT !.step = "update", !.ver = record[run[w].id].ver])
            /\ UNCHANGED <<receiverVars, outbox, tries, record, link, pulls, edits, deaths, kept, overlap, unlinked>>

\* Mutant: the whole payload is written under every policy.
WritesAll == TRUE

\* field_level_sor narrows the write to the fields the system owns.
WritesOther == policy # "field_level_sor"

\* ... and then the record is validated as if that were all of it.
Refused == needs /\ ~WritesOther

\* The version check, and one more attempt where the policy has it.
Update(w) ==
    LET r == run[w] IN
    /\ r.step = "update"
    /\ IF ~Alive(r.id) \/ Refused THEN Fail(w)
       ELSE IF record[r.id].ver # r.ver
       THEN IF policy = "manual" \/ r.attempt = 1 THEN Fail(w)
            ELSE /\ Continue(w, [r EXCEPT !.step = "read", !.attempt = 1])
                 /\ UNCHANGED <<receiverVars, outbox, tries, record, link, pulls, edits, deaths, kept, overlap, unlinked>>
       ELSE /\ record' = [record EXCEPT ![r.id] = [ver |-> r.ver + 1, own |-> r.event,
                                                   other |-> IF WritesOther THEN 1 ELSE @.other]]
            /\ Continue(w, [r EXCEPT !.step = "link"])
            /\ UNCHANGED <<receiverVars, outbox, tries, link, pulls, edits, deaths, kept, overlap, unlinked>>

\* upsert_external: the last one wins.
LinkKey(w) ==
    /\ run[w].step = "link"
    /\ link' = run[w].id
    /\ Continue(w, [run[w] EXCEPT !.step = "note"])
    /\ UNCHANGED <<receiverVars, outbox, tries, record, pulls, edits, deaths, kept, overlap, unlinked>>

\* record_run, and the drain settles the row.
Settle(w) ==
    /\ run[w].step = "note"
    /\ outbox' = IF run[w].event = NoRecord THEN outbox ELSE [outbox EXCEPT ![run[w].event] = "done"]
    /\ Continue(w, NoRun)
    /\ UNCHANGED <<receiverVars, tries, record, link, pulls, edits, deaths, kept, overlap, unlinked>>

RunnerDies(w) ==
    /\ run[w] # NoRun /\ deaths < MaxDeaths
    /\ Continue(w, NoRun) /\ deaths' = deaths + 1
    /\ unlinked' = (unlinked \/ Unlinks(w))
    /\ UNCHANGED <<receiverVars, outbox, tries, record, link, pulls, edits, kept, overlap>>

\* A user writes the other field, or deletes the record.
UserEdit(id) ==
    /\ Alive(id) /\ edits < MaxUserEdits /\ edits' = edits + 1
    /\ \/ /\ record' = [record EXCEPT ![id].ver = @ + 1, ![id].other = edits + 2]
          /\ kept' = [kept EXCEPT ![id] = edits + 2]
       \/ record' = [record EXCEPT ![id] = NoRecord] /\ UNCHANGED kept
    /\ UNCHANGED <<receiverVars, outbox, tries, link, run, pulls, deaths, overlap, unlinked>>

InboundNext ==
    \/ \E e \in Events : ReceiveEvent(e) \/ Enqueue(e) \/ EnqueueFails(e) \/ \E w \in Runners : TakeEvent(w, e)
    \/ \E w \in Runners :
          \/ Pull(w) \/ ManualRun(w) \/ MapPayload(w) \/ LookUpKey(w) \/ ReadCurrent(w) \/ Update(w) \/ LinkKey(w) \/ Settle(w)
          \/ StepFails(w) \/ RunnerDies(w) \/ \E id \in RecIds : CreateRecord(w, id)
    \/ \E id \in RecIds : UserEdit(id)

InboundSpec == InboundInit /\ [][InboundNext]_inboundVars

-----------------------------------------------------------------------------
(* Properties *)

Records == {id \in RecIds : Alive(id)}

\* However often its events come, the key has one record, unless runs overlap or one
\* ends between a record and its link; an event of which any delivery was acknowledged
\* is in the outbox, unless its first delivery is, or ended, between the two rows; and
\* the field that others own keeps what they wrote where the policy says so
\* (process_one, inbound, apply_update).
HubConsistent ==
    /\ ~overlap /\ ~unlinked => Cardinality(Records) <= 1
    /\ \A e \in acked \ (enqueuing \cup stopped) : outbox[e] # "none"
    /\ policy = "field_level_sor" => \A id \in Records : record[id].other = kept[id]

\* One record for a key: the registry "drives upsert-by-external-key, idempotent
\* re-delivery, and cross-path dedup" (mda-integration/src/lib.rs).  The code creates
\* the record and links its key in two transactions, after a look-up in a third.
IdempotentRedelivery == Cardinality(Records) <= 1
=============================================================================

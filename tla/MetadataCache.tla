---------------------------- MODULE MetadataCache ----------------------------
(***************************************************************************)
(* What one server process remembers of a tenant's active model: an entry  *)
(* of the entity cache (mda-meta/src/cache.rs) and the GraphQL schemas     *)
(* (mda-api/src/graphql.rs), while models are published by this process or *)
(* by another one.                                                         *)
(*                                                                         *)
(* A model is its version; a definition is read by statements that each    *)
(* see the version committed last, so it is a pair of versions.            *)
(***************************************************************************)
EXTENDS Naturals

CONSTANTS
    Requests,     \* GraphQL requests
    MaxPublished,   \* bound: publishes
    MaxDrops,     \* bound: lost connections of the listeners, and restarts
    Nothing       \* no entry, no load, no poll seen yet

ASSUME CacheAssumption == MaxPublished \in Nat /\ MaxDrops \in Nat /\ Nothing \notin Nat

Versions == 0..MaxPublished

VARIABLES
    active,     \* md_active_version
    publish,    \* the publish that has committed and has not told everyone
    entry,      \* the entity cache: one entity's entry
    load,       \* the load under way of that entry
    listening,  \* the listeners that are connected
    inbox,      \* the listeners with a notification to receive
    polled,     \* the poll's last version
    rows,       \* the version the poll under way has read
    schemas,    \* the schema cache: the version each schema was built from
    query,        \* GraphQL requests
    drops

cacheVars == <<active, publish, entry, load, listening, inbox, polled, rows,
               schemas, query, drops>>

Listeners == {"entities", "schemas"}

\* moka's invalidate_all: it removes the entry and not the load under way, which
\* inserts its own later.
Invalidated ==
    /\ entry' = Nothing
    /\ load' = IF load = Nothing THEN Nothing ELSE [load EXCEPT !.spanned = TRUE]

-----------------------------------------------------------------------------
CacheInit ==
    /\ active = 0 /\ publish = Nothing
    /\ entry = Nothing /\ load = Nothing
    /\ listening = Listeners /\ inbox = {}
    /\ polled = Nothing /\ rows = Nothing
    /\ schemas = [v \in Versions |-> Nothing]
    /\ query = [r \in Requests |-> [on |-> "idle"]]
    /\ drops = MaxDrops

(* publish_draft *)

\* The transaction commits, here or in another process ...
Commit(here) ==
    /\ publish = Nothing /\ active < MaxPublished
    /\ active' = active + 1
    /\ publish' = [step |-> "notify", here |-> here]
    /\ UNCHANGED <<entry, load, listening, inbox, polled, rows, schemas, query, drops>>

\* ... then pg_notify, a statement of its own, reaches those who listen ...
Notify ==
    /\ publish # Nothing /\ publish.step = "notify"
    /\ inbox' = inbox \cup listening
    /\ publish' = IF publish.here THEN [publish EXCEPT !.step = "local"] ELSE Nothing
    /\ UNCHANGED <<active, entry, load, listening, polled, rows, schemas, query, drops>>

\* ... and the publisher drops its own entries.
LocalInvalidate ==
    /\ publish # Nothing /\ publish.step = "local"
    /\ publish' = Nothing
    /\ Invalidated
    /\ UNCHANGED <<active, listening, inbox, polled, rows, schemas, query, drops>>

\* A publisher elsewhere ends between its commit and pg_notify.
PublisherDies ==
    /\ publish # Nothing /\ ~publish.here /\ drops > 0
    /\ publish' = Nothing /\ drops' = drops - 1
    /\ UNCHANGED <<active, entry, load, listening, inbox, polled, rows, schemas, query>>

\* This process restarts.
Restart ==
    /\ drops > 0 /\ drops' = drops - 1
    /\ publish' = IF publish # Nothing /\ publish.here THEN Nothing ELSE publish
    /\ entry' = Nothing /\ load' = Nothing
    /\ listening' = {} /\ inbox' = {}
    /\ polled' = Nothing /\ rows' = Nothing
    /\ schemas' = [v \in Versions |-> Nothing]
    /\ query' = [r \in Requests |-> [on |-> "idle"]]
    /\ UNCHANGED active

(* get_entity *)

\* A miss loads; the entity and its fields are read first.  Those who ask for the same
\* key meanwhile wait for this load.
LoadFields ==
    /\ entry = Nothing /\ load = Nothing
    /\ load' = [fields |-> active, spanned |-> FALSE]
    /\ UNCHANGED <<active, publish, entry, listening, inbox, polled, rows, schemas, query, drops>>

\* Then its relationships; the definition is inserted.
LoadRelationships ==
    /\ load # Nothing
    /\ entry' = [fields |-> load.fields, relationships |-> active, spanned |-> load.spanned]
    /\ load' = Nothing
    /\ UNCHANGED <<active, publish, listening, inbox, polled, rows, schemas, query, drops>>

\* An error is not cached.
LoadFails ==
    /\ load # Nothing
    /\ load' = Nothing
    /\ UNCHANGED <<active, publish, entry, listening, inbox, polled, rows, schemas, query, drops>>

\* The time to live.
Expire ==
    /\ entry # Nothing
    /\ entry' = Nothing
    /\ UNCHANGED <<active, publish, load, listening, inbox, polled, rows, schemas, query, drops>>

(* spawn_listen, spawn_invalidator *)

Receive(l) ==
    /\ l \in inbox
    /\ inbox' = inbox \ {l}
    /\ IF l = "entities"
       THEN Invalidated /\ UNCHANGED schemas
       ELSE /\ schemas' = [v \in Versions |-> Nothing]
            /\ UNCHANGED <<entry, load>>
    /\ UNCHANGED <<active, publish, listening, polled, rows, query, drops>>

\* The connection is lost with what it had not delivered.
Disconnect(l) ==
    /\ l \in listening /\ drops > 0
    /\ drops' = drops - 1
    /\ listening' = listening \ {l} /\ inbox' = inbox \ {l}
    /\ UNCHANGED <<active, publish, entry, load, polled, rows, schemas, query>>

Listen(l) ==
    /\ l \notin listening
    /\ listening' = listening \cup {l}
    /\ UNCHANGED <<active, publish, entry, load, inbox, polled, rows, schemas, query, drops>>

(* spawn_poll *)

PollRead ==
    /\ rows = Nothing
    /\ rows' = active
    /\ UNCHANGED <<active, publish, entry, load, listening, inbox, polled, schemas, query, drops>>

\* Mutant: the first poll only remembers the version.
ChangedSince == polled # Nothing /\ rows # polled

\* The first poll, too, finds a change.
Changed == rows # polled

PollApply ==
    /\ rows # Nothing
    /\ IF Changed THEN Invalidated ELSE UNCHANGED <<entry, load>>
    /\ polled' = rows /\ rows' = Nothing
    /\ UNCHANGED <<active, publish, listening, inbox, schemas, query, drops>>

(* schema_for *)

ReadVersion(r) ==
    /\ query[r].on = "idle"
    /\ query' = [query EXCEPT ![r] = [on |-> "lookup", key |-> active]]
    /\ UNCHANGED <<active, publish, entry, load, listening, inbox, polled, rows, schemas, drops>>

\* A hit, or build_schema begins: it loads the definitions one by one, past the entity
\* cache; the first is the oldest.
LookUpSchema(r) ==
    /\ query[r].on = "lookup"
    /\ LET key == query[r].key IN
       query' = [query EXCEPT ![r] =
                 IF schemas[key] # Nothing
                 THEN [on |-> "execute", key |-> key, schema |-> schemas[key]]
                 ELSE [on |-> "build", key |-> key, schema |-> active]]
    /\ UNCHANGED <<active, publish, entry, load, listening, inbox, polled, rows, schemas, drops>>

\* Mutant: the version at the time it is kept.
KeyAtInsert(r) == active

\* The key a schema is kept under: the version read before it was built.
KeyOf(r) == query[r].key

KeepSchema(r) ==
    /\ query[r].on = "build"
    /\ schemas' = [schemas EXCEPT ![KeyOf(r)] = query[r].schema]
    /\ query' = [query EXCEPT ![r].on = "execute"]
    /\ UNCHANGED <<active, publish, entry, load, listening, inbox, polled, rows, drops>>

Executed(r) ==
    /\ query[r].on = "execute"
    /\ query' = [query EXCEPT ![r] = [on |-> "idle"]]
    /\ UNCHANGED <<active, publish, entry, load, listening, inbox, polled, rows, schemas, drops>>

CacheNext ==
    \/ \E here \in BOOLEAN : Commit(here)
    \/ Notify \/ LocalInvalidate \/ PublisherDies \/ Restart
    \/ LoadFields \/ LoadRelationships \/ LoadFails \/ Expire
    \/ \E l \in Listeners : Receive(l) \/ Disconnect(l) \/ Listen(l)
    \/ PollRead \/ PollApply
    \/ \E r \in Requests : ReadVersion(r) \/ LookUpSchema(r) \/ KeepSchema(r) \/ Executed(r)

CacheSpec == CacheInit /\ [][CacheNext]_cacheVars

-----------------------------------------------------------------------------
\* Once the poll has seen the active version, an entry is of that version, whatever
\* notifications were lost: the one exception is an entry whose load was under way
\* when the cache was emptied, and that one lives until it expires (spawn_poll,
\* get_entity).  A GraphQL request never runs on a schema older than the version it
\* read, and no schema is kept under a later version than its own (schema_for).
NoStaleModel ==
    /\ polled = active /\ entry # Nothing /\ ~entry.spanned
           => entry.fields = active /\ entry.relationships = active
    /\ \A v \in Versions : schemas[v] # Nothing => schemas[v] >= v
    /\ \A r \in Requests : query[r].on = "execute" => query[r].schema >= query[r].key
=============================================================================

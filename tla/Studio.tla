-------------------------------- MODULE Studio --------------------------------
(***************************************************************************)
(* The life of a tenant's metadata (mda-api/src/studio.rs, mda-meta): a    *)
(* draft is branched from the active model or imported, edited under an    *)
(* etag, published or discarded.                                           *)
(*                                                                         *)
(* A publish reads the draft and the active model in transactions of their *)
(* own, checks the difference, and applies it in one transaction that      *)
(* holds the tenant's advisory lock.  That transaction is one step: nobody *)
(* else writes the tables it reads after the lock, the draft row excepted, *)
(* whose other writers wait for it.                                        *)
(***************************************************************************)
EXTENDS Naturals, FiniteSets

CONSTANTS
    Entities,    \* ids of entities
    Links,       \* ids of relationships
    Source,      \* source_entity_id of each link: a draft nests it under this entity
    Target,      \* target_entity_id of each link
    Models,      \* the models that editors save and import
    First,       \* the models a tenant may start with
    MaxDrafts,   \* bound: drafts ever created
    MaxSaves,    \* bound: saves of a draft
    MaxVersion,  \* bound: the active version
    History,     \* snapshots that are kept (10)
    Handlers,    \* concurrent requests
    None

Items  == Entities \cup Links
Drafts == 1..MaxDrafts

ASSUME LinksAssumption ==
    /\ Entities \cap Links = {}
    /\ Source \in [Links -> Entities] /\ Target \in [Links -> Entities]
ASSUME ModelsAssumption ==
    /\ \A m \in Models \cup First : /\ m \subseteq Items
                                    /\ \A l \in m \cap Links : Source[l] \in m
    /\ \A m \in First : \A l \in m \cap Links : Target[l] \in m  \* it was published
ASSUME BoundsAssumption ==
    {MaxDrafts, MaxSaves} \subseteq Nat /\ {MaxVersion, History} \subseteq Nat \ {0}

VARIABLES
    status,      \* of the md_entity and md_relationship rows
    retirement,  \* md_retirement: the rows about each item, counted
    version,     \* md_active_version
    snapshot,    \* md_snapshot
    draft,       \* md_draft
    nextDraft,
    req,         \* what each handler, and the client it serves, is in the middle of
    announced,   \* the version that was the active one at the last meta_changed
    lived,       \* history: the active model of every version
    overlapped   \* history: a publish committed between another's reading and its commit

vars == <<status, retirement, version, snapshot, draft, nextDraft, req, announced,
          lived, overlapped>>

Active == {i \in Items : status[i] = "active"}
Idle   == [op |-> "idle"]

Begin(h, m) == req[h] = Idle /\ req' = [req EXCEPT ![h] = m]
GoOn(h, m)  == req' = [req EXCEPT ![h] = m]
Finish(h)   == req' = [req EXCEPT ![h] = Idle]

Exists(d) == draft[d] # None

\* Mutant: a save leaves the etag as it was.
SameEtag(row) == row.etag

\* gen_random_uuid(): an etag the draft never had.
FreshEtag(row) == row.etag + 1

-----------------------------------------------------------------------------
(* What a publish decides *)

\* load_active_model reads the entities, then the relationships, and nests them.
Assembled(ents) == ents \cup {l \in Links : status[l] = "active" /\ Source[l] \in ents}

\* Mutant: the target may be any entity that is active or in the draft.
ValidTargets(active, m) == \A l \in m \cap Links : Target[l] \in m \cup active

\* diff: every relationship that survives must target an entity of the draft.
Valid(active, m) == \A l \in m \cap Links : Target[l] \in m

Added(active, m)   == m \ active
Retired(active, m) == active \ m

\* Mutant: what comes back keeps its pending purge.
StillPending(i, active, m) == retirement[i] + IF i \in Retired(active, m) THEN 1 ELSE 0

\* The md_retirement rows of an item: un-retired with its addition, one more with
\* every retirement.
Pending(i, active, m) ==
    CASE i \in Added(active, m)   -> 0
      [] i \in Retired(active, m) -> retirement[i] + 1
      [] OTHER                    -> retirement[i]

\* Mutant: the relationships of a retired entity are forgotten.
EntitiesRetire(i, active, m) ==
    CASE i \in Added(active, m)                   -> "active"
      [] i \in Retired(active, m) \cap Entities -> "retired"
      [] OTHER                                   -> status[i]

StatusAfter(i, active, m) ==
    CASE i \in Added(active, m)   -> "active"
      [] i \in Retired(active, m) -> "retired"
      [] OTHER                    -> status[i]

\* Mutant: the snapshots that are kept are the oldest.
Oldest(S) == {s \in S : Cardinality({t \in S : t.version <= s.version}) <= History}

\* The last History snapshots.
Latest(S) == {s \in S : Cardinality({t \in S : t.version >= s.version}) <= History}

-----------------------------------------------------------------------------
\* A tenant that has published nothing yet, or one model.
Init ==
    /\ \E m \in First :
          LET v == IF m = {} THEN 0 ELSE 1 IN
          /\ status = [i \in Items |-> IF i \in m THEN "active" ELSE "absent"]
          /\ version = v /\ announced = v
          /\ snapshot = IF v = 0 THEN {} ELSE {[version |-> 0, model |-> {}]}
          /\ lived = [k \in 0..v |-> IF k = v THEN m ELSE {}]
    /\ retirement = [i \in Items |-> 0]
    /\ draft = [d \in Drafts |-> None]
    /\ nextDraft = 1
    /\ req = [h \in Handlers |-> Idle]
    /\ overlapped = FALSE

Model    == <<status, retirement, version, snapshot, lived, overlapped>>
DraftRow == <<draft, nextDraft>>

Insert(m) ==
    /\ nextDraft \in Drafts
    /\ draft' = [draft EXCEPT ![nextDraft] = [status |-> "draft", etag |-> 0, model |-> m]]
    /\ nextDraft' = nextDraft + 1

\* create_draft reads the active model's entities ...
BranchBegin(h) ==
    /\ nextDraft \in Drafts
    /\ Begin(h, [op |-> "branch", ents |-> Active \cap Entities])
    /\ UNCHANGED <<Model, DraftRow, announced>>

\* ... its relationships, and inserts the draft.
BranchEnd(h) ==
    /\ req[h].op = "branch"
    /\ Insert(Assembled(req[h].ents))
    /\ Finish(h)
    /\ UNCHANGED <<Model, announced>>

\* import_model: the body as it is.
Import(h, m) ==
    /\ req[h] = Idle
    /\ Insert(m)
    /\ UNCHANGED <<Model, req, announced>>

-----------------------------------------------------------------------------
(* Editing and discarding *)

\* An editor opens the draft ...
Open(h, d) ==
    /\ Exists(d)
    /\ Begin(h, [op |-> "edit", draft |-> d, etag |-> draft[d].etag, seen |-> draft[d].model])
    /\ UNCHANGED <<Model, DraftRow, announced>>

\* ... and saves: put_model reads the row and refuses one that is published ...
PutRead(h, m) ==
    /\ req[h].op = "edit"
    /\ Exists(req[h].draft) /\ draft[req[h].draft].status = "draft"
    /\ draft[req[h].draft].etag < MaxSaves
    /\ GoOn(h, [op |-> "put", draft |-> req[h].draft, etag |-> req[h].etag,
                seen |-> req[h].seen, model |-> m])
    /\ UNCHANGED <<Model, DraftRow, announced>>

\* ... then updates it WHERE id AND version_etag, in a later transaction.
PutWrite(h) ==
    /\ req[h].op = "put"
    /\ LET d == req[h].draft IN
       /\ Exists(d) /\ draft[d].etag = req[h].etag
       /\ draft' = [draft EXCEPT ![d].model = req[h].model,
                                 ![d].etag = FreshEtag(draft[d])]
    /\ Finish(h)
    /\ UNCHANGED <<Model, nextDraft, announced>>

\* discard_draft reads the row and refuses one that is published ...
DiscardRead(h, d) ==
    /\ Exists(d) /\ draft[d].status = "draft"
    /\ Begin(h, [op |-> "discard", draft |-> d])
    /\ UNCHANGED <<Model, DraftRow, announced>>

\* ... then deletes it WHERE id.
DiscardDelete(h) ==
    /\ req[h].op = "discard"
    /\ draft' = [draft EXCEPT ![req[h].draft] = None]
    /\ Finish(h)
    /\ UNCHANGED <<Model, nextDraft, announced>>

-----------------------------------------------------------------------------
(* publish_draft *)

PublishRead(h, d) ==
    /\ Exists(d) /\ draft[d].status = "draft"
    /\ Begin(h, [op |-> "publish", draft |-> d, model |-> draft[d].model])
    /\ UNCHANGED <<Model, DraftRow, announced>>

LoadEntities(h) ==
    /\ req[h].op = "publish"
    /\ GoOn(h, [op |-> "load", draft |-> req[h].draft, model |-> req[h].model,
                ents |-> Active \cap Entities, since |-> version])
    /\ UNCHANGED <<Model, DraftRow, announced>>

\* The draft is checked against the model that was read.
LoadLinks(h) ==
    /\ req[h].op = "load"
    /\ LET active == Assembled(req[h].ents) IN
       /\ Valid(active, req[h].model)
       /\ GoOn(h, [op |-> "apply", draft |-> req[h].draft, model |-> req[h].model,
                   active |-> active, since |-> req[h].since])
    /\ UNCHANGED <<Model, DraftRow, announced>>

\* apply_additive_publish, by the model that was read: the gate on the draft's
\* status, the snapshot, the additions and retirements, the version.
Apply(h) ==
    /\ req[h].op = "apply" /\ version < MaxVersion
    /\ LET d == req[h].draft
           old == req[h].active
           m == req[h].model
       IN /\ Exists(d) /\ draft[d].status = "draft"
          /\ snapshot' = Latest(snapshot \cup {[version |-> version, model |-> old]})
          /\ status' = [i \in Items |-> StatusAfter(i, old, m)]
          /\ retirement' = [i \in Items |-> Pending(i, old, m)]
          /\ version' = version + 1
          /\ draft' = [draft EXCEPT ![d].status = "published"]
    /\ lived' = [v \in 0..version' |->
                    IF v = version' THEN {i \in Items : status'[i] = "active"} ELSE lived[v]]
    /\ overlapped' = (overlapped \/ req[h].since # version)
    /\ GoOn(h, [op |-> "announce"])
    /\ UNCHANGED <<nextDraft, announced>>

\* NOTIFY meta_changed is a statement of its own after the commit.
Announce(h) ==
    /\ req[h].op = "announce"
    /\ announced' = version
    /\ Finish(h)
    /\ UNCHANGED <<Model, DraftRow>>

\* A request ends early: a check fails, an error, the client or the process is gone.
GiveUp(h) ==
    /\ req[h] # Idle
    /\ Finish(h)
    /\ UNCHANGED <<Model, DraftRow, announced>>

-----------------------------------------------------------------------------
Next == \E h \in Handlers :
    \/ BranchBegin(h) \/ BranchEnd(h) \/ \E m \in Models : Import(h, m)
    \/ \E d \in Drafts : Open(h, d) \/ DiscardRead(h, d) \/ PublishRead(h, d)
    \/ \E m \in Models : PutRead(h, m)
    \/ PutWrite(h) \/ DiscardDelete(h)
    \/ LoadEntities(h) \/ LoadLinks(h) \/ Apply(h) \/ Announce(h)
    \/ GiveUp(h)

Spec == Init /\ [][Next]_vars

-----------------------------------------------------------------------------
(* Properties *)

AnyModel == {m \in SUBSET Items : \A l \in m \cap Links : Source[l] \in m}

Row == [status: {"draft", "published"}, etag: 0..MaxSaves, model: AnyModel]

Request ==
    {Idle}
    \cup [op: {"branch"}, ents: SUBSET Entities]
    \cup [op: {"edit"}, draft: Drafts, etag: 0..MaxSaves, seen: AnyModel]
    \cup [op: {"put"}, draft: Drafts, etag: 0..MaxSaves, seen: AnyModel, model: Models]
    \cup [op: {"discard"}, draft: Drafts]
    \cup [op: {"publish"}, draft: Drafts, model: AnyModel]
    \cup [op: {"load"}, draft: Drafts, model: AnyModel, ents: SUBSET Entities,
          since: 0..MaxVersion]
    \cup [op: {"apply"}, draft: Drafts, model: AnyModel, active: AnyModel,
          since: 0..MaxVersion]
    \cup [op: {"announce"}]

TypeOK ==
    /\ status \in [Items -> {"absent", "active", "retired"}]
    /\ retirement \in [Items -> Nat]
    /\ version \in 0..MaxVersion /\ announced \in 0..version
    /\ snapshot \subseteq [version: 0..MaxVersion, model: AnyModel]
    /\ draft \in [Drafts -> Row \cup {None}]
    /\ nextDraft \in 1..(MaxDrafts + 1)
    /\ req \in [Handlers -> Request]
    /\ DOMAIN lived = 0..version /\ \A v \in 0..version : lived[v] \subseteq Items
    /\ overlapped \in BOOLEAN

\* An item waits for its purge exactly while it is retired: one that came back, in
\* whatever order publishes retired and un-retired it, is not purged after its grace
\* (retire_entity, unretire).
RetirementsMatch == \A i \in Items : status[i] = "retired" <=> retirement[i] > 0

\* A save replaces the model its editor has seen, and no newer one (put_model).
NoLostEdit ==
    [][\A h \in Handlers : PutWrite(h) => draft[req[h].draft].model = req[h].seen]_vars

\* The snapshots are the last versions' models, each under its version and none
\* missing, unless a publish overlapped another's reading: then a snapshot may say
\* what an older version was (apply_additive_publish, "archive the current active
\* model").
SnapshotsFaithful ==
    overlapped \/ snapshot = {[version |-> v, model |-> lived[v]] :
                                 v \in {k \in 0..(version - 1) : k + History >= version}}

\* No relationship of the active model targets an entity that is not active, unless
\* publishes overlapped: what one retires no later one leaves in use (diff).
Dangling == {l \in Active \cap Links : Target[l] \notin Active}
SerialNoDangling == overlapped \/ Dangling = {}

\* What is live after a publish is what was published, unless publishes overlapped.
PublishedIsLive ==
    [][\A h \in Handlers : Apply(h) => overlapped' \/ Active' = req[h].model]_vars

\* "No dangling references": "every surviving relationship must target an entity
\* also present in the draft", so that the schema of a tenant never breaks.  Two
\* overlapping publishes refute it.
NoDangling == Dangling = {}
=============================================================================

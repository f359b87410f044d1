---------------------------- MODULE StudioClient ----------------------------
(***************************************************************************)
(* The Studio's model designer (web/runtime-ui/src/studio.rs): tabs that   *)
(* open one draft, edit it, save it under its etag, have it checked and    *)
(* published, over calls that overlap, are overtaken or lose their answer. *)
(* Studio models what the server does with them, DraftGate the check; here *)
(* the server answers in one step, and the check is that of transforms.    *)
(*                                                                         *)
(* A definition has a part that the designer's structs carry (seen) and a  *)
(* part they do not (rest: module_id, description, default_expr,           *)
(* reference_qualifier, rollup_summary, join_table_name).                  *)
(***************************************************************************)
EXTENDS Naturals, FiniteSets, TLC

CONSTANTS
    Tabs,      \* the DraftEditors that are mounted, one after another or side by side
    ItemIds,
    Texts,     \* what a modeler types
    Starts,    \* the active models to begin with
    Blank,     \* the empty text
    NoText,    \* no value
    MaxCalls, MaxEdits, MaxLosses, \* bounds
    Unopened, Unmounted \* a DraftEditor before it is mounted, and after

VARIABLES
    activeModel,  \* the active model
    draftRow,     \* the md_draft row
    tab,          \* the DraftEditor of each tab
    calls,        \* the calls on their way
    saw,          \* history: the latest etag whose model the tab loaded or saved
    touched,      \* history: the items that a modeler edited
    counts        \* calls, edits and lost answers so far

designerVars == <<activeModel, draftRow, tab, calls, saw, touched, counts>>

Opened(t)   == tab[t] \notin {Unopened, Unmounted}
\* Show when loaded and the status shown is "draft".
Editable(t) == Opened(t) /\ tab[t].loaded /\ tab[t].status = "draft"

\* SModel, SEntity, SField, SRel: what a model is when it has passed through the tab.
Carried(m) == [i \in DOMAIN m |-> [seen |-> m[i].seen, rest |-> NoText]]

\* The mirror of a row's widgets: an empty label becomes none.
Mirrored(m) == [i \in DOMAIN m |-> IF m[i].seen = Blank THEN [m[i] EXCEPT !.seen = NoText]
                                   ELSE m[i]]

\* diff: what is active and in the draft, but other than it was.
Violations(m) == {i \in DOMAIN m \cap DOMAIN activeModel : m[i] # activeModel[i]}

\* Mutant: the tab takes the etag of a refused save too.
EtagAfterAny(c, old) == c.etag

\* launch_save: the tab takes the etag of a save that succeeded.
EtagAfter(c, old) == IF c.ok THEN c.etag ELSE old

Without(m, i) == [j \in DOMAIN m \ {i} |-> m[j]]

-----------------------------------------------------------------------------
DesignerInit ==
    /\ activeModel \in Starts
    /\ draftRow = [model |-> activeModel, etag |-> 1, status |-> "draft"]
    /\ tab = [t \in Tabs |-> Unopened]
    /\ calls = {}
    /\ saw = [t \in Tabs |-> 0]
    /\ touched = {}
    /\ counts = [calls |-> 0, edits |-> 0, lost |-> 0]

\* DraftEditor: the draft, then the active model.
OpenDraft(t) ==
    /\ tab[t] = Unopened
    /\ draftRow.status # "gone"
    /\ tab' = [tab EXCEPT ![t] = [model  |-> Carried(draftRow.model), etag |-> draftRow.etag,
                                  status |-> draftRow.status, ids |-> {}, loaded |-> FALSE,
                                  report |-> NoText]]
    /\ saw' = [saw EXCEPT ![t] = draftRow.etag]
    /\ UNCHANGED <<activeModel, draftRow, calls, touched, counts>>

Locks(t) ==
    /\ Opened(t) /\ ~tab[t].loaded
    /\ tab' = [tab EXCEPT ![t].ids = DOMAIN activeModel, ![t].loaded = TRUE]
    /\ UNCHANGED <<activeModel, draftRow, calls, saw, touched, counts>>

\* Without the active model nothing is locked.
LocksLost(t) ==
    /\ Opened(t) /\ ~tab[t].loaded
    /\ counts.lost < MaxLosses
    /\ tab' = [tab EXCEPT ![t].loaded = TRUE]
    /\ counts' = [counts EXCEPT !.lost = @ + 1]
    /\ UNCHANGED <<activeModel, draftRow, calls, saw, touched>>

\* "All drafts": what it called goes on, what it edited is lost.
LeaveDraft(t) ==
    /\ Opened(t)
    /\ tab' = [tab EXCEPT ![t] = Unmounted]
    /\ UNCHANGED <<activeModel, draftRow, calls, saw, touched, counts>>

Edited(t, m, more) ==
    /\ Editable(t)
    /\ counts.edits < MaxEdits
    /\ tab' = [tab EXCEPT ![t].model = m]
    /\ touched' = touched \cup more
    /\ counts' = [counts EXCEPT !.edits = @ + 1]
    /\ UNCHANGED <<activeModel, draftRow, calls, saw>>

\* Add, Add field, Add reference: under an id that is new everywhere.
Add(t, i) ==
    /\ i \notin DOMAIN activeModel \cup DOMAIN draftRow.model \cup touched
    /\ \E x \in Texts :
          Edited(t, tab[t].model @@ (i :> [seen |-> x, rest |-> NoText]), {i})

\* The widgets of a row that is not locked.
Retype(t, i) ==
    /\ i \in DOMAIN tab[t].model \ tab[t].ids
    /\ \E x \in Texts \cup {NoText} :
          Edited(t, [tab[t].model EXCEPT ![i].seen = x], {i})

\* The cross of a new item, "retire" of an active one.
RemoveItem(t, i) == i \in DOMAIN tab[t].model /\ Edited(t, Without(tab[t].model, i), {})

\* An entity is selected: its rows appear, locked or not.
Select(t) ==
    /\ Editable(t)
    /\ tab' = [tab EXCEPT ![t].model = Mirrored(@)]
    /\ UNCHANGED <<activeModel, draftRow, calls, saw, touched, counts>>

FreeId == CHOOSE k \in 1..MaxCalls : \A c \in calls : c.id # k

\* A button is pressed: save, save and publish, validate.  Nothing keeps it from being
\* pressed again before the answer.
Click(t, kind) ==
    /\ IF kind = "validate" THEN Opened(t) ELSE Editable(t)
    /\ counts.calls < MaxCalls
    /\ counts' = [counts EXCEPT !.calls = @ + 1]
    /\ calls' = calls \cup {[id |-> FreeId, tab |-> t, kind |-> kind, at |-> "sent",
                             model |-> tab[t].model, etag |-> tab[t].etag, ok |-> FALSE,
                             report |-> NoText]}
    /\ UNCHANGED <<activeModel, draftRow, tab, saw, touched>>

Turns(c, d) == calls' = (calls \ {c}) \cup {d}

\* put_model.
PutModel(c) ==
    /\ c.at = "sent" /\ c.kind \in {"save", "publish"}
    /\ IF draftRow.status = "draft" /\ draftRow.etag = c.etag
       THEN /\ draftRow' = [draftRow EXCEPT !.model = c.model, !.etag = @ + 1]
            /\ saw' = [saw EXCEPT ![c.tab] = draftRow.etag + 1]
            /\ Turns(c, [c EXCEPT !.at = "answer", !.ok = TRUE, !.etag = draftRow.etag + 1,
                                     !.report = Violations(c.model)])
       ELSE /\ Turns(c, [c EXCEPT !.at = "answer", !.etag = draftRow.etag])
            /\ UNCHANGED <<draftRow, saw>>
    /\ UNCHANGED <<activeModel, tab, touched, counts>>

\* validate_draft.
Check(c) ==
    /\ c.at = "sent" /\ c.kind = "validate"
    /\ Turns(c, [c EXCEPT !.at = "answer", !.ok = draftRow.status # "gone",
                             !.report = Violations(draftRow.model)])
    /\ UNCHANGED <<activeModel, draftRow, tab, saw, touched, counts>>

\* The answer to a save or a check reaches the tab; a publish goes on, with no etag.
Reply(c) ==
    /\ c.at = "answer" /\ c.kind \in {"save", "publish", "validate"}
    /\ tab' = IF Opened(c.tab)
              THEN [tab EXCEPT
                       ![c.tab].etag   = IF c.kind = "validate" THEN @ ELSE EtagAfter(c, @),
                       ![c.tab].report = IF c.ok THEN c.report ELSE @]
              ELSE tab
    /\ IF c.ok /\ c.kind = "publish" THEN Turns(c, [c EXCEPT !.at = "sent", !.kind = "cutover"])
       ELSE calls' = calls \ {c}
    /\ UNCHANGED <<activeModel, draftRow, saw, touched, counts>>

\* publish_draft: whatever the draft is by now.
Publish(c) ==
    /\ c.at = "sent" /\ c.kind = "cutover"
    /\ LET ok == draftRow.status = "draft" /\ Violations(draftRow.model) = {} IN
       /\ activeModel' = IF ok THEN draftRow.model ELSE activeModel
       /\ draftRow' = [draftRow EXCEPT !.status = IF ok THEN "published" ELSE @]
       /\ Turns(c, [c EXCEPT !.at = "answer", !.ok = ok])
    /\ UNCHANGED <<tab, saw, touched, counts>>

Cutover(c) ==
    /\ c.at = "answer" /\ c.kind = "cutover"
    /\ calls' = calls \ {c}
    /\ tab' = IF Opened(c.tab) /\ c.ok THEN [tab EXCEPT ![c.tab].status = "published"] ELSE tab
    /\ UNCHANGED <<activeModel, draftRow, saw, touched, counts>>

\* A call or its answer is lost; the tab shows an error.
Lose(c) ==
    /\ counts.lost < MaxLosses
    /\ counts' = [counts EXCEPT !.lost = @ + 1]
    /\ calls' = calls \ {c}
    /\ UNCHANGED <<activeModel, draftRow, tab, saw, touched>>

\* An editor that is no tab of this browser saves the draft, or publishes it.
OtherSave ==
    /\ draftRow.status = "draft"
    /\ counts.edits < MaxEdits
    /\ counts' = [counts EXCEPT !.edits = @ + 1]
    /\ \E i \in DOMAIN draftRow.model :
          draftRow' = [draftRow EXCEPT !.model = Without(@, i), !.etag = @ + 1]
    /\ UNCHANGED <<activeModel, tab, calls, saw, touched>>

OtherPublish ==
    /\ draftRow.status = "draft"
    /\ Violations(draftRow.model) = {}
    /\ activeModel' = draftRow.model
    /\ draftRow' = [draftRow EXCEPT !.status = "published"]
    /\ UNCHANGED <<tab, calls, saw, touched, counts>>

\* StudioModel's list: Discard, for a draft that nobody has published.
Discard ==
    /\ draftRow.status = "draft"
    /\ draftRow' = [draftRow EXCEPT !.status = "gone"]
    /\ UNCHANGED <<activeModel, tab, calls, saw, touched, counts>>

DesignerNext ==
    \/ \E t \in Tabs :
          \/ OpenDraft(t) \/ Locks(t) \/ LocksLost(t) \/ LeaveDraft(t) \/ Select(t)
          \/ \E kind \in {"save", "publish", "validate"} : Click(t, kind)
          \/ Opened(t) /\ \E i \in ItemIds : Add(t, i) \/ Retype(t, i) \/ RemoveItem(t, i)
    \/ \E c \in calls :
          PutModel(c) \/ Check(c) \/ Reply(c) \/ Publish(c) \/ Cutover(c) \/ Lose(c)
    \/ Discard \/ OtherSave \/ OtherPublish

DesignerSpec == DesignerInit /\ [][DesignerNext]_designerVars

-----------------------------------------------------------------------------
(* Properties *)

\* A save replaces what its tab had loaded, or saved, last: the work of another tab is
\* never overwritten unseen, whatever answers are lost or late (launch_save's etag).
OverwritesSeen ==
    \A t \in Tabs :
       saw'[t] = draftRow'.etag /\ draftRow'.etag # draftRow.etag => saw[t] = draftRow.etag
NoUnseenOverwrite == [][OverwritesSeen]_designerVars

\* "Active fields render read-only": what no modeler edited is no violation.  A save
\* drops what the designer's structs do not carry, and refutes it.
UntouchedPasses ==
    \A t \in Tabs : Opened(t) /\ tab[t].report # NoText => tab[t].report \subseteq touched
=============================================================================

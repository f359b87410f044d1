----------------------------- MODULE Designers -----------------------------
(***************************************************************************)
(* The form and the view designer of the Studio (FormsTab, ViewsTab,       *)
(* PickRow in web/runtime-ui/src/studio.rs) over the definitions that the  *)
(* server stores and renders (mda-api/src/ui.rs).  One modeler goes from   *)
(* entity to entity in a tab while answers are on their way; others store  *)
(* definitions through the API and publish models that retire fields.      *)
(*                                                                         *)
(* A definition has picks, the label of each field it includes, and a rest *)
(* that the designer does not edit: the filters and the sort of a view,    *)
(* the other sections of a form.                                           *)
(***************************************************************************)
EXTENDS Naturals, Sequences, FiniteSets

CONSTANTS
    Ents,
    FieldsOf,    \* the fields of each entity in their order, as the tab has loaded them
    RefsOf,      \* the reference fields, which the tab does not list
    Labels,      \* what a modeler types
    Plain,       \* the label of the model, shown when a pick has none
    Bare,        \* the label that is the name of the field, or empty
    DesignKinds, \* "form", "view"
    StoredFirst, \* the definitions stored to begin with
    Authored,    \* what other authors store
    EmptyRest,   \* an empty rest
    NotAList,    \* filters or a sort that is no array
    Unstored, Unpicked,
    MaxShown,    \* the columns of a view that nobody stored
    MaxLoads,    \* bound: loads
    MaxInputs    \* bound: edits, saves and changes of others, all together

ASSUME DesignAssumption ==
    /\ Unpicked \notin Ents
    /\ \A d \in StoredFirst : DOMAIN d = Ents

VARIABLES
    design,   \* the designer that is mounted
    stored,   \* the md_form or md_view rows named "default"
    present,     \* the fields of each entity that no publish has retired
    ent,      \* the entity picked
    pickRows, \* the rows of the designer
    child,    \* the widgets of each PickRow
    rest,     \* the filters and the sort of the definition loaded
    loads,    \* the loads on their way
    saves,    \* the saves and deletions on their way
    hasty,    \* history: a load failed, came late, was not waited for, or began during a save
    crossed,  \* history: what others changed since the server rendered what is loaded
    edited,  \* history: the fields edited since the load
    count     \* loads and inputs so far

shown == <<pickRows, child, rest>>
designVars == <<design, stored, present, ent, shown, loads, saves, hasty, crossed, edited, count>>

Pick(inc, label) == [included |-> inc, label |-> label]
Names(e) == {FieldsOf[e][i] : i \in DOMAIN FieldsOf[e]}

\* default_fields, default_columns: a view shows the first few fields.
DefaultPicks(e) ==
    LET live == SelectSeq(FieldsOf[e], LAMBDA n : n \in present[e])
        included == IF design = "form" THEN present[e] \cup RefsOf[e]
                    ELSE {live[i] : i \in DOMAIN live \cap 1..MaxShown}
    IN  [n \in included |-> Plain]

\* What a definition shows: no field that the model does not have; a reference only in a
\* form.  A view stored without columns shows the default ones.
ResolvedPicks(e, picks) ==
    LET known == IF design = "form" THEN present[e] \cup RefsOf[e] ELSE present[e]
    IN  IF design = "view" /\ DOMAIN picks = {} THEN DefaultPicks(e)
        ELSE [n \in DOMAIN picks \cap known |-> picks[n]]

\* render_form, render_view: what is stored, or the model's default.
Render(e) ==
    IF stored[e] = Unstored THEN [picks |-> DefaultPicks(e), rest |-> EmptyRest]
    ELSE [picks |-> ResolvedPicks(e, stored[e].picks), rest |-> stored[e].rest]


\* seed_picks.
Seed(e, a) ==
    [n \in Names(e) |-> IF n \in DOMAIN a.picks THEN Pick(TRUE, a.picks[n])
                        ELSE Pick(FALSE, Plain)]

Default(e) == [n \in Names(e) |-> Pick(TRUE, Plain)]

\* The children of the rows: one whose key, the entity and the name, stays is present.
Remounted(rs) == [n \in DOMAIN rs |-> IF n \in DOMAIN child THEN child[n] ELSE rs[n]]

\* Mutant: the designer does not send what it does not edit.
RestDropped == EmptyRest

\* "preserve what the designer can't edit": a view's filters and sort if they are lists,
\* no form's sections.
RestSent == IF design = "view" /\ rest # NotAList THEN rest ELSE EmptyRest

\* The picks of a save: a label that is the name or empty is left out.
PicksSent ==
    [n \in {m \in DOMAIN pickRows : pickRows[m].included} |->
        IF pickRows[n].label = Bare THEN Plain ELSE pickRows[n].label]

FreeSlot(S, max) == CHOOSE k \in 1..max : \A x \in S : x.id # k

-----------------------------------------------------------------------------
DesignInit ==
    /\ design \in DesignKinds
    /\ stored \in StoredFirst
    /\ present = [e \in Ents |-> Names(e)]
    /\ ent = Unpicked
    /\ pickRows = <<>> /\ child = <<>> /\ rest = EmptyRest
    /\ loads = {} /\ saves = {}
    /\ hasty = FALSE /\ crossed = {} /\ edited = {}
    /\ count = [loads |-> 0, inputs |-> 0]

\* Another entity is picked: the rows, still those of the former one, are mounted anew,
\* then the definition is loaded.
PickEntity(e) ==
    /\ e # ent
    /\ count.loads < MaxLoads
    /\ count' = [count EXCEPT !.loads = @ + 1]
    /\ ent' = e
    /\ child' = pickRows
    /\ loads' = loads \cup
          {[id |-> FreeSlot(loads, MaxLoads), ent |-> e, answer |-> Unpicked, crossed |-> {}]}
    /\ hasty' = (hasty \/ saves # {})
    /\ UNCHANGED <<design, stored, present, pickRows, rest, saves, crossed, edited>>

RenderStep(l) ==
    /\ l.answer = Unpicked
    /\ loads' = (loads \ {l}) \cup {[l EXCEPT !.answer = Render(l.ent)]}
    /\ UNCHANGED <<design, stored, present, ent, shown, saves, hasty, crossed, edited, count>>

\* The rows and the rest are filled, whichever entity is picked by now.
Fill(l, rs, r) ==
    /\ loads' = loads \ {l}
    /\ pickRows' = rs
    /\ child' = Remounted(rs)
    /\ rest' = r
    /\ crossed' = l.crossed /\ edited' = {}
    /\ UNCHANGED <<design, stored, present, ent, saves, count>>

DefinitionLoaded(l) ==
    /\ l.answer # Unpicked
    /\ Fill(l, Seed(l.ent, l.answer), l.answer.rest)
    /\ hasty' = (hasty \/ l.ent # ent)

\* A failed load counts as no definition.
NotLoaded(l) ==
    /\ Fill(l, Default(l.ent), EmptyRest)
    /\ hasty' = TRUE

\* A widget changes: PickRow writes all of its widgets into the row.  A save that is on
\* its way may be written after the one that has the edit.
TypeIn(n, pick) ==
    /\ count.inputs < MaxInputs
    /\ count' = [count EXCEPT !.inputs = @ + 1]
    /\ child' = [child EXCEPT ![n] = pick]
    /\ pickRows' = [pickRows EXCEPT ![n] = pick]
    /\ edited' = edited \cup {n}
    /\ saves' = {[s EXCEPT !.edited = @ \cup {n}] : s \in saves}
    /\ UNCHANGED <<design, stored, present, ent, rest, loads, hasty, crossed>>

EditPick == \E n \in DOMAIN child :
    \/ TypeIn(n, [child[n] EXCEPT !.included = ~@])
    \/ \E label \in Labels : TypeIn(n, [child[n] EXCEPT !.label = label])

\* A save sent in haste may overtake those before it.
Sent(body, also) ==
    /\ ent # Unpicked
    /\ count.inputs < MaxInputs
    /\ count' = [count EXCEPT !.inputs = @ + 1]
    /\ saves' = {[s EXCEPT !.hasty = @ \/ body.hasty, !.edited = @ \cup also] : s \in saves}
                \cup {body}
    /\ hasty' = (hasty \/ loads # {})
    /\ edited' = edited \cup also
    /\ UNCHANGED <<design, stored, present, ent, shown, loads, crossed>>

SaveDesign ==
    Sent([id |-> FreeSlot(saves, MaxInputs), ent |-> ent, delete |-> FALSE,
          picks |-> PicksSent, rest |-> RestSent, checked |-> design = "form",
          hasty |-> hasty \/ loads # {}, crossed |-> crossed, edited |-> edited], {})

\* A deletion changes what is shown of every field.
DeleteDesign ==
    Sent([id |-> FreeSlot(saves, MaxInputs), ent |-> ent, delete |-> TRUE,
          picks |-> <<>>, rest |-> EmptyRest, checked |-> TRUE,
          hasty |-> FALSE, crossed |-> {}, edited |-> {}], Names(ent))

\* upsert_view looks the columns up in the model before it writes; upsert_form does not.
LookUpColumns(s) ==
    /\ ~s.checked
    /\ saves' = (saves \ {s}) \cup
          (IF DOMAIN s.picks \subseteq present[s.ent] THEN {[s EXCEPT !.checked = TRUE]} ELSE {})
    /\ UNCHANGED <<design, stored, present, ent, shown, loads, hasty, crossed, edited, count>>

\* upsert_ui_row, upsert_ui_row_multi, delete_ui_row: whatever is stored by now.
Upsert(s) ==
    /\ s.checked
    /\ saves' = saves \ {s}
    /\ stored' = [stored EXCEPT ![s.ent] =
                     IF s.delete THEN Unstored ELSE [picks |-> s.picks, rest |-> s.rest]]
    /\ UNCHANGED <<design, present, ent, shown, loads, hasty, crossed, edited, count>>

SaveLost(s) ==
    /\ saves' = saves \ {s}
    /\ UNCHANGED <<design, stored, present, ent, shown, loads, hasty, crossed, edited, count>>

\* Another author or publisher changes e under what has been rendered and sent.
Cross(e, what) ==
    /\ count.inputs < MaxInputs
    /\ count' = [count EXCEPT !.inputs = @ + 1]
    /\ loads' = {[l EXCEPT !.crossed = IF l.ent = e /\ l.answer # Unpicked THEN @ \cup {what}
                                       ELSE @] : l \in loads}
    /\ saves' = {[s EXCEPT !.crossed = IF s.ent = e THEN @ \cup {what} ELSE @] : s \in saves}
    /\ crossed' = IF e = ent THEN crossed \cup {what} ELSE crossed
    /\ UNCHANGED <<design, ent, shown, hasty, edited>>

\* Another author stores a definition, with columns that the model had when they were
\* looked up, or deletes it.
AuthorWrites(e, d) ==
    /\ design = "view" /\ d # Unstored => DOMAIN d.picks \subseteq Names(e)
    /\ stored' = [stored EXCEPT ![e] = d]
    /\ Cross(e, "definition")
    /\ UNCHANGED present

RetireField(e, n) ==
    /\ n \in present[e]
    /\ present' = [present EXCEPT ![e] = @ \ {n}]
    /\ Cross(e, "model")
    /\ UNCHANGED stored

DesignNext ==
    \/ \E e \in Ents : PickEntity(e)
    \/ \E l \in loads : RenderStep(l) \/ DefinitionLoaded(l) \/ NotLoaded(l)
    \/ EditPick \/ SaveDesign \/ DeleteDesign
    \/ \E s \in saves : LookUpColumns(s) \/ Upsert(s) \/ SaveLost(s)
    \/ \E e \in Ents, d \in Authored : AuthorWrites(e, d)
    \/ \E e \in Ents : \E n \in present[e] : RetireField(e, n)

DesignSpec == DesignInit /\ [][DesignNext]_designVars

-----------------------------------------------------------------------------
(* Properties.  They are about the saves of a modeler who waits for each load and, before  *)
(* going to another entity, for each save, and whose loads do not fail: a save like that   *)
(* keeps what he did not change.  One that another author's or publisher's change has      *)
(* crossed, between the load and the write, is left to no such promise: the routes have no *)
(* etag, and the last write wins.                                                          *)

Finished == {s \in saves : \A t \in saves' : t.id # s.id}
CarefulSaves == {s \in Finished : ~s.hasty /\ ~s.delete}

\* "Saving columns never silently wipes filters": a careful save of a view, crossed by no
\* other author's, leaves the filters and the sort that are lists as they were.
KeepsFilters ==
    \A s \in CarefulSaves :
        (/\ design = "view" /\ "definition" \notin s.crossed
         /\ stored[s.ent] # Unstored /\ stored[s.ent].rest # NotAList)
            => stored'[s.ent].rest = stored[s.ent].rest
FiltersRoundTrip == [][KeepsFilters]_designVars

\* What a user sees of a field.
UserSees(e, n) == IF n \in DOMAIN Render(e).picks THEN Render(e).picks[n] ELSE Unpicked

\* A careful save that nobody crossed changes nothing of the fields that the modeler did
\* not touch, although the rows go through the definition, the server's rendering, the
\* rows of the designer and a second definition (seed_picks, "or a stored view definition
\* resolves to nothing on load").  Three things do change, and are left out: the
\* references, which the designer does not list; a label that is the field's name or is
\* empty, which gives way to the model's; and a view saved without a column.
KeepsColumns ==
    \A s \in CarefulSaves :
        s.crossed = {} /\ (design = "view" => DOMAIN s.picks # {}) =>
            \A n \in present[s.ent] \ s.edited :
                UserSees(s.ent, n) # Bare => UserSees(s.ent, n)' = UserSees(s.ent, n)

\* "Switching entity remounts the rows with fresh values": the widgets show the rows they
\* write.  The rows are mounted before the load, and present when it comes: two entities
\* with a field of one name refute it, for a modeler who waits.
WidgetsShowRows == ~hasty /\ loads = {} => child = pickRows
=============================================================================

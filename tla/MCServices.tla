------------------------------ MODULE MCServices ------------------------------
(***************************************************************************)
(* One instance for TLC of components that meet only through the database, *)
(* one at a time: the initial state says which of them is at work.         *)
(***************************************************************************)
EXTENDS MCStudio, RecordStore, BlobStore, Sessions, MetadataCache, Workflow,
        Inbound, Import, RecordForm, StudioClient, Panels, Designers, DraftGate
CONSTANTS Parts,              \* the components to check
          a, b, c,            \* texts, field values and keys
          Left                \* one more value that is none

VARIABLE part

\* The requests, passes, forms or rows that are two of a kind.
Two == {h1, h2}

-----------------------------------------------------------------------------
(* mda-data: records, attachments, imports *)

OfEntity(onDelete, default) ==
    [on_delete |-> onDelete, required |-> TRUE, default |-> default, numbered |-> FALSE]

MCDefs == {OfEntity("cascade", Absent), OfEntity("set_null", a)}

ImportRow(k, fault) == [key |-> k, fault |-> fault]

MCFiles == {<<ImportRow(a, "no"), ImportRow(b, "no")>>, <<ImportRow(b, "no"), ImportRow(a, "rule")>>,
            <<ImportRow(a, "shape")>>}

-----------------------------------------------------------------------------
(* mda-integration, mda-workflow, mda-rules, mda-security, mda-meta *)

Move(name, from, to, sets, task) ==
    [name |-> name, from |-> from, to |-> to, guard |-> {a}, sets |-> sets, task |-> task]

\* A rule of the record.
RuleBody(event) == [event |-> event, cond |-> {b}, value |-> a, prio |-> 1, active |-> TRUE]

MCDesigns    == {{Move("close", "active", "closed", b, TRUE)}}
MCRuleBodies == {RuleBody("after_update")}

-----------------------------------------------------------------------------
(* The validator of drafts.  Entities A and B, whose tables may meet; fields of A that *)
(* are formulas of one another; one that a draft may move to B; a relationship that is *)
(* a join table or a column.                                                           *)

E(name, words) ==
    [on |-> Absent, name |-> name, table |-> words, legal |-> TRUE, logic |-> Null]
F(name, logic) ==
    [on |-> e1, name |-> name, numeric |-> TRUE, legal |-> TRUE, logic |-> logic]
R(many, logic) ==
    [on |-> e1, name |-> "r", target |-> e2, many |-> many, join |-> Absent, legal |-> TRUE,
     logic |-> logic]

DraftDefs ==
    [i \in {e1, e2, a, b, c, l} |->
        CASE i = e1 -> {E("A", {"a"})}
          [] i = e2 -> {E("B", {"b"}), E("B", {"a", "b"})}
          [] i = a  -> {F("x", Null), F("x", {"y"})}
          [] i = b  -> {F("y", Null), F("y", {"x"}), [F("y", Null) EXCEPT !.legal = FALSE]}
          [] i = c  -> {F("x", Null), [F("z", Null) EXCEPT !.on = e2]}
          [] i = l  -> {R(TRUE, Null), R(FALSE, "x")}]

\* Every choice among these, or none, for each id.
MCDraftModels ==
    LET With(i, ms) == ms \cup {m @@ (i :> d) : m \in ms, d \in DraftDefs[i]} IN
    {d \in FoldSet(With, {<<>>}, DefIds) : Nested(d)}

-----------------------------------------------------------------------------
(* The web client *)

\* An item whose description and modules nobody has set, and one with all of them.
MCStarts == {b :> [seen |-> a, rest |-> b]}

\* Two entities that share a field's name; the first has a reference, and a form or view
\* of its own.  Others store one more, with what the designer does not send back.
MCFieldsOf    == e1 :> <<"f", "g">> @@ e2 :> <<"f">>
MCRefsOf      == e1 :> {"r"} @@ e2 :> {}
MCStoredFirst == {e1 :> [picks |-> "f" :> a, rest |-> c] @@ e2 :> Absent}
MCAuthored    == {Absent} \cup {[picks |-> "f" :> Absent, rest |-> r] : r \in {Null, a}}

-----------------------------------------------------------------------------
(* The components one at a time *)

flows      == <<flowVars, inboundVars>>
tableVars  == <<recordVars, blobVars, importVars>>
serverVars == <<tableVars, sessionVars, cacheVars, flows, gateVars>>
pages      == <<panelVars, designVars>>
webVars    == <<formVars, designerVars, pages>>
ownVars    == <<serverVars, webVars>>

NoStudio == Init /\ Active = {}

\* A step of the component p, which leaves the others alone.
Own(p, A, others) == part = p /\ A /\ UNCHANGED <<part, vars, others>>

\* One initial state is enough for a component that is not at work.
Resting ==
    /\ part # "records" => def = OfEntity("cascade", Absent)
    /\ part # "imports" => ~numbered
    /\ part # "hub" => policy = "last_write_wins" /\ needs
    /\ part # "tables" => Present(table) = {}
    /\ part # "pages" => design = "form"

ServicesInit ==
    /\ part \in Parts
    /\ StoreInit /\ BlobInit /\ SessionsInit /\ CacheInit /\ WorkflowInit /\ InboundInit
    /\ ImportInit /\ GateInit /\ FormInit /\ DesignerInit /\ PanelsInit /\ DesignInit
    /\ Resting
    /\ IF part = "studio" THEN Init ELSE NoStudio

ServicesNext ==
    \/ part = "studio" /\ Next /\ UNCHANGED <<part, ownVars>>
    \/ Own("records", StoreNext,
           <<blobVars, importVars, sessionVars, cacheVars, flows, gateVars, webVars>>)
    \/ Own("imports", ImportNext,
           <<recordVars, blobVars, sessionVars, cacheVars, flows, gateVars, webVars>>)
    \/ Own("blobs", BlobNext,
           <<recordVars, importVars, sessionVars, cacheVars, flows, gateVars, webVars>>)
    \/ Own("logins", SessionsNext, <<tableVars, cacheVars, flows, gateVars, webVars>>)
    \/ Own("cache", CacheNext, <<tableVars, sessionVars, flows, gateVars, webVars>>)
    \/ Own("workflow", WorkflowNext,
           <<tableVars, sessionVars, cacheVars, inboundVars, gateVars, webVars>>)
    \/ Own("hub", InboundNext,
           <<tableVars, sessionVars, cacheVars, flowVars, gateVars, webVars>>)
    \/ Own("gate", GateNext, <<tableVars, sessionVars, cacheVars, flows, webVars>>)
    \/ Own("form", FormNext, <<serverVars, designerVars, pages>>)
    \/ Own("editor", DesignerNext, <<serverVars, formVars, pages>>)
    \/ Own("tables", PanelsNext, <<serverVars, formVars, designerVars, designVars>>)
    \/ Own("pages", DesignNext, <<serverVars, formVars, designerVars, panelVars>>)

ServicesSpec == ServicesInit /\ [][ServicesNext]_<<part, vars, ownVars>>

Swaps == Permutations(Two)

=============================================================================

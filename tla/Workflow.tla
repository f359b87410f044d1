------------------------------- MODULE Workflow -------------------------------
(***************************************************************************)
(* State machines and set-field rules over one record: mda-workflow and    *)
(* mda-rules, the authoring endpoints workflows.rs and rules.rs of         *)
(* mda-api, the write services of data.rs that fire the rules, and the     *)
(* writes of the integration hub, which do not.                            *)
(*                                                                         *)
(* The record has a field, a calculated field and a state.  An expression  *)
(* over the field is the set of values it holds for, or the value it       *)
(* yields.  Machines and rules are edited while transitions run.           *)
(***************************************************************************)
EXTENDS Naturals, Sequences, SequencesExt

CONSTANTS
    Machines,      \* workflows of the entity
    Designs,       \* sets of transitions an author may send
    RuleIds,       \* rule ids, in the order of their ids
    RuleBodies,    \* rules an author may send
    FieldVals,
    Clients,
    Toggles,       \* what a PATCH may say of active: TRUE, FALSE or nothing
    MaxFirings,    \* MAX_RULE_FIRINGS
    MaxImages,     \* bound: writes of the record
    Unset          \* no row, no value

VARIABLES
    machine,   \* md_workflow with its transitions
    rule,      \* md_rule
    hist,      \* the images of the record: its version is their number; hub: who wrote it
    events,    \* workflow.transitioned, with what the transition was; guessed: history, its
               \* version was not there yet when it read the record
    tasks,     \* md_workflow_task
    wtx        \* what each client's request has read

flowVars == <<machine, rule, hist, events, tasks, wtx>>

NoRequest == [op |-> "none", step |-> "none"]

-----------------------------------------------------------------------------
(* Rules and calculated fields *)

RuleBefore(r, s) == r.prio < s.prio \/ (r.prio = s.prio /\ r.id < s.id)

\* load_active.
LoadActive ==
    SetToSortSeq({[id |-> r] @@ rule[r] : r \in {s \in RuleIds : rule[s] # Unset /\ rule[s].active}},
                 RuleBefore)

Matching(r, event, v) == r.event = event /\ v \in r.cond

\* fire: each rule sees what the earlier ones have set.
Fire(rs, event, v) ==
    FoldLeft(LAMBDA acc, r : IF Matching(r, event, acc.val)
                             THEN [val |-> r.value, fired |-> acc.fired + 1] ELSE acc,
             [val |-> v, fired |-> 0], rs)

TooMany(rs, event, v) == Fire(rs, event, v).fired > MaxFirings

\* Mutant: the calculated field is computed before the rules fire.
ImageEarly(state, rs, event, v) ==
    [state |-> state, val |-> Fire(rs, event, v).val, calc |-> v, hub |-> FALSE]

\* compute_calculated comes last; calc holds the value the formula was applied to.
Image(state, rs, event, v) ==
    LET set == Fire(rs, event, v).val
    IN [state |-> state, val |-> set, calc |-> set, hub |-> FALSE]

-----------------------------------------------------------------------------
WorkflowInit ==
    /\ machine = [m \in Machines |-> Unset]
    /\ rule = [r \in RuleIds |-> Unset]
    /\ hist = <<>> /\ events = {} /\ tasks = {}
    /\ wtx = [c \in Clients |-> NoRequest]

Becomes(c, t) == wtx' = [wtx EXCEPT ![c] = t]

\* Nothing begins once the record has its last image.
AtRest(c) == wtx[c] = NoRequest /\ Len(hist) < MaxImages

-----------------------------------------------------------------------------
(* Authoring *)

\* validate_machine, and one transaction for the graph; a transition's name is unique.
CreateMachine(m, graph, active) ==
    /\ machine[m] = Unset
    /\ \A t, u \in graph : t.name = u.name => t = u
    /\ machine' = [machine EXCEPT ![m] = [active |-> active, graph |-> graph]]
    /\ UNCHANGED <<rule, hist, events, tasks, wtx>>

\* PATCH reads the row; a body that only renames writes active back as it was read.
PatchMachineRead(c, m, active) ==
    /\ AtRest(c) /\ machine[m] # Unset
    /\ Becomes(c, [op |-> "patch machine", step |-> "write", m |-> m,
                   active |-> IF active = Unset THEN machine[m].active ELSE active])
    /\ UNCHANGED <<machine, rule, hist, events, tasks>>

PatchMachineWrite(c) ==
    LET t == wtx[c]
    IN /\ t.op = "patch machine"
       /\ machine' = IF machine[t.m] = Unset THEN machine
                     ELSE [machine EXCEPT ![t.m].active = t.active]
       /\ Becomes(c, NoRequest)
       /\ UNCHANGED <<rule, hist, events, tasks>>

\* The graph and the tasks go with the machine.
DeleteMachine(m) ==
    /\ machine[m] # Unset
    /\ machine' = [machine EXCEPT ![m] = Unset]
    /\ tasks' = {k \in tasks : k.m # m}
    /\ events' = {[e EXCEPT !.dropped = @ \/ e.m = m] : e \in events}
    /\ UNCHANGED <<rule, hist, wtx>>

CreateRule(r, body) ==
    /\ rule[r] = Unset
    /\ rule' = [rule EXCEPT ![r] = body]
    /\ UNCHANGED <<machine, hist, events, tasks, wtx>>

\* PATCH: the read and the write are two transactions; entity and event stay.
PatchRuleRead(c, r, cond, active) ==
    /\ AtRest(c) /\ rule[r] # Unset
    /\ Becomes(c, [op |-> "patch rule", step |-> "write", r |-> r,
                   body |-> [rule[r] EXCEPT !.cond = IF cond = Unset THEN @ ELSE cond,
                                            !.active = IF active = Unset THEN @ ELSE active]])
    /\ UNCHANGED <<machine, rule, hist, events, tasks>>

PatchRuleWrite(c) ==
    LET t == wtx[c]
    IN /\ t.op = "patch rule"
       /\ rule' = IF rule[t.r] = Unset THEN rule ELSE [rule EXCEPT ![t.r] = t.body]
       /\ Becomes(c, NoRequest)
       /\ UNCHANGED <<machine, hist, events, tasks>>

DeleteRule(r) ==
    /\ rule[r] # Unset
    /\ rule' = [rule EXCEPT ![r] = Unset]
    /\ UNCHANGED <<machine, hist, events, tasks, wtx>>

-----------------------------------------------------------------------------
(* The write services *)

Reject(c) == Becomes(c, NoRequest) /\ UNCHANGED <<machine, rule, hist, events, tasks>>

Advance(c, t) == Becomes(c, t) /\ UNCHANGED <<machine, rule, hist, events, tasks>>

\* The rules are loaded before the transaction of the write begins.  An update names
\* any version, the next one included.
BeginWrite(c, op, ver, v) ==
    /\ AtRest(c) /\ (op = "create" <=> hist = <<>>)
    /\ Advance(c, [op |-> op, step |-> IF op = "create" THEN "write" ELSE "read",
                   ver |-> ver, val |-> v, rules |-> LoadActive])

\* The before-image supplies the field the patch leaves out; rules see it too.
ReadPatched(c) ==
    LET t == wtx[c]
    IN /\ t.op = "update" /\ t.step = "read"
       /\ Advance(c, [t EXCEPT !.step = "write", !.val = IF t.val = Unset THEN Last(hist).val ELSE t.val])

\* Mutant: the update does not look at the version.
VersionAny(ver) == hist # <<>>

\* WHERE id AND version.
VersionIs(ver) == ver = Len(hist)

Creates(c) ==
    LET t == wtx[c]
    IN /\ t.op = "create"
       /\ IF hist # <<>> \/ TooMany(t.rules, "after_create", t.val) THEN Reject(c)
          ELSE /\ hist' = <<Image("active", t.rules, "after_create", t.val)>>
               /\ Becomes(c, NoRequest) /\ UNCHANGED <<machine, rule, events, tasks>>

Updates(c) ==
    LET t == wtx[c]
    IN /\ t.op = "update" /\ t.step = "write"
       /\ IF ~VersionIs(t.ver) \/ TooMany(t.rules, "after_update", t.val) THEN Reject(c)
          ELSE /\ Len(hist) < MaxImages
               /\ hist' = Append(hist, Image(Last(hist).state, t.rules, "after_update", t.val))
               /\ Becomes(c, NoRequest) /\ UNCHANGED <<machine, rule, events, tasks>>

\* The hub creates the record, or reads its version and writes the field: no rule is
\* fired, and the calculated field stays as it was.
HubCreates(v) ==
    /\ hist = <<>>
    /\ hist' = <<[state |-> "active", val |-> v, calc |-> Unset, hub |-> TRUE]>>
    /\ UNCHANGED <<machine, rule, events, tasks, wtx>>

HubReads(c, v) ==
    /\ AtRest(c) /\ hist # <<>>
    /\ Advance(c, [op |-> "hub", step |-> "write", ver |-> Len(hist), val |-> v])

HubUpdates(c) ==
    LET t == wtx[c]
    IN /\ t.op = "hub"
       /\ IF ~VersionIs(t.ver) THEN Reject(c)
          ELSE /\ Len(hist) < MaxImages
               /\ hist' = Append(hist, [state |-> Last(hist).state, val |-> t.val,
                                       calc |-> Last(hist).calc, hub |-> TRUE])
               /\ Becomes(c, NoRequest) /\ UNCHANGED <<machine, rule, events, tasks>>

-----------------------------------------------------------------------------
(* run_transition: one transaction, whose statements each see what is committed *)

\* An active machine: LIMIT 1, in no order.  The version is any, and compared with
\* nothing but the record at the write.
PickMachine(c, name, ver, m) ==
    /\ AtRest(c) /\ hist # <<>>
    /\ machine[m] # Unset /\ machine[m].active
    /\ Advance(c, [op |-> "transition", step |-> "read", ver |-> ver, m |-> m, name |-> name])

\* The state and the fields it starts from; the caller sees the record or is refused.
ReadRecord(c) ==
    LET t == wtx[c]
    IN /\ t.op = "transition" /\ t.step = "read"
       /\ \/ Reject(c)
          \/ /\ hist # <<>>
             /\ Advance(c, [op |-> "transition", step |-> "choose", ver |-> t.ver, m |-> t.m,
                            name |-> t.name, base |-> Last(hist), at |-> Len(hist)])

\* The transition of that name from that state, and its guard on what was read.
Choose(c) ==
    LET t    == wtx[c]
        here == IF machine[t.m] = Unset THEN {}
                ELSE {x \in machine[t.m].graph : x.name = t.name /\ x.from = t.base.state}
    IN /\ t.op = "transition" /\ t.step = "choose"
       /\ IF \E x \in here : t.base.val \in x.guard
          THEN \E x \in here : t.base.val \in x.guard
                               /\ Advance(c, [op |-> "transition", step |-> "rules", ver |-> t.ver,
                                              m |-> t.m, base |-> t.base, at |-> t.at, take |-> x])
          ELSE Reject(c)

LoadsRules(c) ==
    LET t == wtx[c]
    IN /\ t.op = "transition" /\ t.step = "rules"
       /\ Advance(c, [op |-> "transition", step |-> "write", ver |-> t.ver, m |-> t.m,
                      base |-> t.base, at |-> t.at, take |-> t.take, rules |-> LoadActive])

\* The record, its task, its log and its outbox row commit together; the task refers
\* to the machine.
Moves(c) ==
    LET t == wtx[c]
        v == IF t.take.sets = Unset THEN t.base.val ELSE t.take.sets
    IN /\ t.op = "transition" /\ t.step = "write"
       /\ IF \/ TooMany(t.rules, "after_update", v) \/ ~VersionIs(t.ver)
             \/ t.take.task /\ machine[t.m] = Unset
          THEN Reject(c)
          ELSE /\ Len(hist) < MaxImages
               /\ hist' = Append(hist, Image(t.take.to, t.rules, "after_update", v))
               /\ events' = events \cup {[ver |-> Len(hist) + 1, m |-> t.m, take |-> t.take,
                                          dropped |-> machine[t.m] = Unset, guessed |-> t.ver > t.at]}
               /\ tasks' = IF t.take.task THEN tasks \cup {[m |-> t.m, ver |-> Len(hist) + 1]} ELSE tasks
               /\ Becomes(c, NoRequest) /\ UNCHANGED <<machine, rule>>

WorkflowNext ==
    \/ \E m \in Machines :
          \/ \E g \in Designs, a \in BOOLEAN : CreateMachine(m, g, a)
          \/ DeleteMachine(m)
          \/ \E c \in Clients :
                \/ \E a \in Toggles : PatchMachineRead(c, m, a)
                \/ \E v \in 1 .. MaxImages - 1, g \in Designs : \E t \in g : PickMachine(c, t.name, v, m)
    \/ \E r \in RuleIds :
          \/ \E b \in RuleBodies : CreateRule(r, b)
          \/ DeleteRule(r)
          \/ \E c \in Clients, k \in {Unset, {}}, a \in Toggles : PatchRuleRead(c, r, k, a)
    \/ \E c \in Clients :
          \/ \E v \in FieldVals : BeginWrite(c, "create", 0, v)
          \/ \E k \in 1 .. MaxImages - 1, v \in FieldVals \cup {Unset} : BeginWrite(c, "update", k, v)
          \/ PatchMachineWrite(c) \/ PatchRuleWrite(c)
          \/ \E v \in FieldVals : HubReads(c, v)
          \/ ReadPatched(c) \/ Creates(c) \/ Updates(c) \/ HubUpdates(c)
          \/ ReadRecord(c) \/ Choose(c) \/ LoadsRules(c) \/ Moves(c)
    \/ \E v \in FieldVals : HubCreates(v)

WorkflowSpec == WorkflowInit /\ [][WorkflowNext]_flowVars

-----------------------------------------------------------------------------
(* Properties *)

\* A record's state moves only along a transition, whoever else writes the record or
\* edits the machine meanwhile, and the task it creates is there as long as the machine
\* is.  It moves from the state that transition starts from, on a record its guard holds
\* for, unless the client guessed a version that was written after the guard was read
\* (run_transition reads state and guard, and compares no version before its write).
TransitionsLegal ==
    /\ \A e \in events :
          LET from == hist[e.ver - 1]
          IN /\ ~e.guessed => from.state = e.take.from /\ from.val \in e.take.guard
             /\ hist[e.ver].state = e.take.to
             /\ (e.take.task /\ ~e.dropped <=> [m |-> e.m, ver |-> e.ver] \in tasks)
    /\ \A k \in 2..Len(hist) :
          hist[k].state # hist[k - 1].state => \E e \in events : e.ver = k

\* A calculated field is the formula over the fields stored next to it, whatever rules
\* and transitions have set and whatever the hub wrote before, in every image that the
\* hub did not write itself (compute_calculated after fire on the paths of data.rs).
CalculatedFresh == \A k \in DOMAIN hist : ~hist[k].hub => hist[k].calc = hist[k].val

\* Both: transitions are legal and calculated fields are fresh
\* (run_transition, compute_calculated).
WorkflowSound == TransitionsLegal /\ CalculatedFresh

\* "Events the Phase-4 engine fires on" (rules.rs, EVENTS) are before_create,
\* before_update, after_create and after_update.  A rule for before_update that alone
\* matches what an update writes is expected to set the field.
RulesFire ==
    [][\A c \in Clients :
          LET t == wtx[c]
          IN t.op = "update" /\ t.step = "write" /\ hist' # hist /\ wtx'[c] = NoRequest =>
                \A k \in DOMAIN t.rules :
                    t.rules[k].event \in {"before_update", "after_update"} /\ t.val \in t.rules[k].cond
                    /\ Len(t.rules) = 1
                       => Last(hist').val = t.rules[k].value]_flowVars
=============================================================================

------------------------------- MODULE Panels -------------------------------
(***************************************************************************)
(* The lists of the Studio (web/runtime-ui/src/studio.rs): a tab fetches a *)
(* list when it is mounted and again after each of its actions; the rows   *)
(* are keyed children, some of which keep what they were created with and  *)
(* some of which read the list.  Calls may overlap, be lost, or meet the   *)
(* actions of somebody else.  A row is its id and its flag, which stands   *)
(* for active, the parent of a team, the level of an org-wide default or   *)
(* the permissions of a role.                                              *)
(***************************************************************************)
EXTENDS Naturals, FiniteSets

CONSTANTS
    RowIds,      \* ids
    Kinds,     \* the tabs that may be mounted
    NoItem, NoTab,
    MaxClicks, MaxOthers, MaxUnanswered \* bounds

VARIABLES
    kind,    \* the mounted tab
    table,   \* the rows of the server
    list,    \* the rows the tab last fetched
    held,    \* what the children were created with
    asked,   \* the calls on their way
    trusted, \* history: the list was fetched by a call that no other met
    spent    \* calls, foreign actions and lost answers so far

panelVars == <<kind, table, list, held, asked, trusted, spent>>

Present(t) == {i \in RowIds : t[i] # NoItem}
Shot(t)    == [i \in Present(t) |-> t[i]]

\* Children that capture their row when they are created: RulesTab, WorkflowsTab,
\* ShareTab.  UserRow and TeamsTab read the list; the key of an OwdTab row holds the level.
Captured == {"rules", "workflows", "share"}
Shown(i) == IF kind \in Captured THEN held[i] ELSE list[i]

FreeCall == CHOOSE k \in 1..(MaxClicks + 1) : \A c \in asked : c.id # k

\* Mutant: a deletion does not fetch the list again.
ReloadsUnlessDeleted(c) == c.op # "delete"

\* After an action that succeeded the list is fetched again.
Reloads(c) == TRUE

-----------------------------------------------------------------------------
PanelsInit ==
    /\ kind = NoTab
    /\ table \in [RowIds -> {TRUE, NoItem}]
    /\ list = <<>> /\ held = <<>>
    /\ asked = {}
    /\ trusted = FALSE
    /\ spent = [calls |-> 0, others |-> 0, lost |-> 0]

\* The tab appears and calls reload.
Mount(k) ==
    /\ kind = NoTab
    /\ kind' = k
    /\ asked' = {[id |-> 1, op |-> "list", row |-> NoTab, to |-> NoItem, at |-> "done",
                  rows |-> <<>>, alone |-> TRUE]}
    /\ UNCHANGED <<table, list, held, trusted, spent>>

\* A button is pressed; no button waits for the answer to another.
Send(op, i, to) ==
    /\ spent.calls < MaxClicks
    /\ spent' = [spent EXCEPT !.calls = @ + 1]
    /\ asked' = {[c EXCEPT !.alone = FALSE] : c \in asked} \cup
                {[id |-> FreeCall, op |-> op, row |-> i, to |-> to, at |-> "sent",
                  rows |-> <<>>, alone |-> asked = {}]}
    /\ UNCHANGED <<kind, table, list, held, trusted>>

Create == \E i \in RowIds \ DOMAIN list : Send("create", i, TRUE)
DeleteItem == \E i \in DOMAIN list : Send("delete", i, NoItem)
Toggle == \E i \in DOMAIN list : Send("patch", i, ~Shown(i))
EditItem   == \E i \in DOMAIN list : Send("edit", i, NoItem)
ChooseFlag == \E i \in DOMAIN list, to \in BOOLEAN : Send("patch", i, to)

RulesTab         == kind = "rules"      /\ (Toggle \/ DeleteItem)
NewRule          == kind = "rules"      /\ Create
WorkflowsTab     == kind = "workflows"  /\ (Toggle \/ DeleteItem)
NewWorkflow      == kind = "workflows"  /\ Create
ShareTab         == kind = "share"      /\ (Toggle \/ DeleteItem \/ Create)
UserRow          == kind = "users"      /\ (Toggle \/ EditItem)
UsersTab         == kind = "users"      /\ Create
UserRoles        == kind = "user_roles" /\ (Create \/ DeleteItem)
TeamsTab         == kind = "teams"      /\ (ChooseFlag \/ DeleteItem \/ Create)
OwdTab           == kind = "owd"        /\ ChooseFlag
RolesTab         == kind = "roles"      /\ (Create \/ DeleteItem)
RolePermissions  == kind = "roles"      /\ ChooseFlag
RoleParents      == kind = "parents"    /\ (Create \/ DeleteItem)
DashboardsTab    == kind = "dashboards" /\ DeleteItem
NewDashboard     == kind = "dashboards" /\ Create
StudioReports    == kind = "reports"    /\ DeleteItem
NewReport        == kind = "reports"    /\ Create

Replaced(c, d) == (asked \ {c}) \cup {d}

\* The server does what it is asked, unless the row is gone, or there before it is created.
ServeCall(c) ==
    /\ c.at = "sent"
    /\ IF (c.op = "create") = (table[c.row] = NoItem)
       THEN /\ table' = IF c.op = "edit" THEN table ELSE [table EXCEPT ![c.row] = c.to]
            /\ asked' = IF Reloads(c) THEN Replaced(c, [c EXCEPT !.at = "done"])
                        ELSE asked \ {c}
       ELSE asked' = asked \ {c} /\ UNCHANGED table
    /\ UNCHANGED <<kind, list, held, trusted, spent>>

\* The tab hears of the success and fetches the list.
FetchList(c) ==
    /\ c.at = "done"
    /\ asked' = Replaced(c, [c EXCEPT !.at = "listed", !.rows = Shot(table)])
    /\ UNCHANGED <<kind, table, list, held, trusted, spent>>

\* The list arrives: a child whose key stays is kept.
Listed(c) ==
    /\ c.at = "listed"
    /\ list' = c.rows
    /\ held' = [i \in DOMAIN c.rows |-> IF i \in DOMAIN held THEN held[i] ELSE c.rows[i]]
    /\ trusted' = c.alone
    /\ asked' = asked \ {c}
    /\ UNCHANGED <<kind, table, spent>>

\* A call or an answer is lost: an error is shown, or nothing.
LoseCall(c) ==
    /\ spent.lost < MaxUnanswered
    /\ spent' = [spent EXCEPT !.lost = @ + 1]
    /\ asked' = asked \ {c}
    /\ trusted' = (trusted /\ c.at = "sent")
    /\ UNCHANGED <<kind, table, list, held>>

\* Somebody else.
Other ==
    /\ spent.others < MaxOthers
    /\ spent' = [spent EXCEPT !.others = @ + 1]
    /\ \E i \in RowIds, to \in BOOLEAN \cup {NoItem} : table' = [table EXCEPT ![i] = to]
    /\ trusted' = FALSE
    /\ asked' = {[c EXCEPT !.alone = @ /\ c.at # "listed"] : c \in asked}
    /\ UNCHANGED <<kind, list, held>>

PanelsNext ==
    \/ \E k \in Kinds : Mount(k)
    \/ RulesTab \/ NewRule \/ WorkflowsTab \/ NewWorkflow \/ ShareTab
    \/ UserRow \/ UsersTab \/ UserRoles \/ TeamsTab \/ OwdTab
    \/ RolesTab \/ RolePermissions \/ RoleParents
    \/ DashboardsTab \/ NewDashboard \/ StudioReports \/ NewReport
    \/ \E c \in asked : ServeCall(c) \/ FetchList(c) \/ Listed(c) \/ LoseCall(c)
    \/ Other

PanelsSpec == PanelsInit /\ [][PanelsNext]_panelVars

-----------------------------------------------------------------------------
(* Properties *)

\* A tab at rest, whose last fetch met no other call and no foreign action, lists the
\* server's rows (the reload after each action).
RestingListTrue == asked = {} /\ trusted => list = Shot(table)

\* UserRow's comment: a captured value "would go stale after the post-action reload (the
\* disable/activate button would show - and send - the wrong state)".  RulesTab,
\* WorkflowsTab and ShareTab capture it, and refute this.
ButtonsTell == \A i \in DOMAIN list : Shown(i) = list[i]
=============================================================================

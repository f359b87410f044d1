------------------------------ MODULE ShareRules ------------------------------
(***************************************************************************)
(* Criteria sharing rules and the materialized share table (ADR-0013).     *)
(*                                                                         *)
(* Record writes recompute the written record's rule shares inside their   *)
(* own transaction; the admin API creates, patches, deletes and recomputes *)
(* rules; owners grant and revoke manual shares.  All of them are          *)
(* PostgreSQL transactions at READ COMMITTED, run by concurrent request    *)
(* handlers.  A transaction is modelled as the step that performs its      *)
(* reads (each statement sees what was committed then) followed by the     *)
(* step that applies its writes and commits; a handler that reads in one   *)
(* transaction and writes in a later one has a step more.                  *)
(***************************************************************************)
EXTENDS Naturals, FiniteSets

CONSTANTS
    Records,      \* record ids, numbers: the keyset scan goes through them in order
    Principals,   \* users and teams a share names
    MaxRules,     \* bound: rules ever created
    Docs,         \* what a record can say, as far as conditions can tell
    Conds,        \* rule conditions, each the set of Docs it matches
    Accesses,     \* "read" and "write"
    Patches,      \* PATCH bodies: a field is Keep when the body does not name it
    Limits,       \* the ?limit= of a recompute request
    AutoLimit,    \* default_recompute_limit: the bound of the automatic pass
    MaxEpoch,     \* bound: no PATCH once a rule is at this epoch
    Procs,        \* concurrent request handlers
    None, Keep

Rules  == 1..MaxRules
Manual == 0       \* rule_id IS NULL

ASSUME RecordsAssumption == Records \subseteq Nat \ {0}
ASSUME BoundsAssumption  == MaxRules \in Nat /\ MaxEpoch \in Nat /\ AutoLimit \in Nat
ASSUME CondsAssumption   == Conds \subseteq SUBSET Docs
ASSUME NoneAssumption    == None \notin Docs
ASSUME PatchesAssumption ==
    Patches \subseteq [cond: Conds \cup {Keep}, principal: Principals \cup {Keep},
                       access: Accesses \cup {Keep}, active: BOOLEAN \cup {Keep}]

VARIABLES
    doc,       \* biz.<table>: what each live record says
    arch,      \* biz_archive.<table>: the latest archived copy of each record
    rule,      \* sec_share_rule
    nextRule,  \* the next rule id (ids grow with created_at)
    share,     \* sec_record_share: a set of rows, one per record and principal
    req,       \* what each handler is in the middle of
    gone,      \* the share rows each handler's DELETE statement has found
    raced,     \* history: records that a write or a deletion changed while a request still
               \* had to commit what it made of them, until a deletion that met none
    undone     \* history: rules that an empty PATCH has set back to the row it had read, at
               \* the epoch of a later edit; until the next edit

vars == <<doc, arch, rule, nextRule, share, req, gone, raced, undone>>

RuleRow == [cond: Conds, principal: Principals, access: Accesses,
            epoch: Nat, active: BOOLEAN]

\* A share row; "cond" is history: the condition the row was computed from.
ShareRow == [rec: Records, principal: Principals, rule: Rules \cup {Manual},
             epoch: Nat, access: Accesses, cond: Conds \cup {{}}]

Key(s)  == <<s.rec, s.principal>>
Keys(S) == {Key(s) : s \in S}

Idle == [op |-> "idle"]

-----------------------------------------------------------------------------
(* Statements *)

RuleShare(r, i, row) ==
    [rec |-> r, principal |-> row.principal, rule |-> i,
     epoch |-> row.epoch, access |-> row.access, cond |-> row.cond]

\* INSERT ... ON CONFLICT (tenant_id, record_id, principal_id) DO NOTHING
Insert(base, new) == base \cup {n \in new : Key(n) \notin Keys(base)}

OfRule(i) == {s \in share : s.rule = i}

\* Mutants: the DELETE that starts a recompute is missing, or takes manual rows too.
NoSharesOf(r)  == {}
AllSharesOf(r) == {s \in share : s.rec = r}

\* DELETE FROM sec_record_share WHERE record_id AND rule_id IS NOT NULL
RuleSharesOf(r) == {s \in share : s.rec = r /\ s.rule # Manual}

\* Mutant: deleting a record drops its rule shares only.
DropRuleSharesOnly(r) == {s \in share : ~(s.rec = r /\ s.rule # Manual)}

\* drop_record_shares: what is left.
DropRecordShares(r) == {s \in share : s.rec # r}

\* The rules load_rules returns: committed, active.
ActiveRules == {i \in Rules : rule[i] # None /\ rule[i].active}

\* Mutant: the conditions are evaluated on the record as it was before the write.
RecomputedFromBefore(r, d) ==
    {RuleShare(r, i, rule[i]) : i \in {j \in ActiveRules : doc[r] \in rule[j].cond}}

\* What recompute_record inserts for record r saying d: the matching rules in
\* creation order, so that of two rules for one principal the older one's row stays.
Recomputed(r, d) ==
    LET matching == {i \in ActiveRules : d \in rule[i].cond}
        Foremost(i) == \A j \in matching : rule[j].principal = rule[i].principal => i <= j
    IN {RuleShare(r, i, rule[i]) : i \in {j \in matching : Foremost(j)}}

\* The records one materialization pass scans: the first "limit" live ids after "from".
Scanned(from, limit) ==
    {r \in Records : /\ doc[r] # None
                     /\ from < r
                     /\ Cardinality({x \in Records : doc[x] # None /\ from < x /\ x <= r}) <= limit}

\* What materialize_rule inserts for rule i at the row it was given.
Materialized(i, row, from, limit) ==
    {RuleShare(r, i, row) : r \in {x \in Scanned(from, limit) : doc[x] \in row.cond}}

\* sec_record_share.rule_id REFERENCES sec_share_rule: an insert fails when its
\* rule is gone; a row that meets a conflict is never inserted.
FkHolds(base, new) ==
    \A n \in Insert(base, new) \ base : rule[n.rule] # None

\* A committed deletion leaves nothing for the DELETE of another handler to find.
Forget(p, keys) == [q \in Procs |-> IF q = p THEN {} ELSE gone[q] \ keys]

WritingRecord(r) == \E p \in Procs : req[p].op = "write" /\ req[p].rec = r
LockedRule(i)    == \E p \in Procs : req[p].op = "patch" /\ req[p].rule = i

\* A request that has scanned records for a rule and has not inserted the shares yet.
Materializing(p) == req[p].op \in {"create", "patch", "recompute"}
MeetsWrites == raced' = raced \cup {r \in Records : WritingRecord(r)}

Begin(p, m)  == req[p] = Idle /\ req' = [req EXCEPT ![p] = m]
Finish(p)    == req' = [req EXCEPT ![p] = Idle]

-----------------------------------------------------------------------------
Init ==
    /\ doc = [r \in Records |-> None]
    /\ arch = [r \in Records |-> None]
    /\ rule = [i \in Rules |-> None]
    /\ nextRule = 1
    /\ share = {}
    /\ req = [p \in Procs |-> Idle]
    /\ gone = [p \in Procs |-> {}]
    /\ raced = {}
    /\ undone = {}

-----------------------------------------------------------------------------
(* Record writes: create_tx, update_tx and restore_tx end in recompute_record, *)
(* delete_tx in drop_record_shares.                                            *)

\* The row statement (which locks the record), then load_rules, then the DELETE
\* of the record's rule shares; none of it is visible to others yet.
WriteBegin(p, r, d) ==
    /\ ~WritingRecord(r)
    /\ \/ doc[r] # None                                  \* update_tx
       \/ doc[r] = None /\ arch[r] = None                \* create_tx, a fresh id
       \/ doc[r] = None /\ arch[r] = d                   \* restore_tx
    /\ Begin(p, [op |-> "write", rec |-> r, doc |-> d, new |-> Recomputed(r, d)])
    /\ gone' = [gone EXCEPT ![p] = Keys(RuleSharesOf(r))]
    /\ raced' = IF \E q \in Procs : Materializing(q) THEN raced \cup {r} ELSE raced
    /\ UNCHANGED <<doc, arch, rule, nextRule, share, undone>>

WriteCommit(p) ==
    /\ req[p].op = "write"
    /\ LET base == {s \in share : Key(s) \notin gone[p]} IN
       /\ FkHolds(base, req[p].new)
       /\ share' = Insert(base, req[p].new)
       /\ gone' = Forget(p, gone[p])
    /\ doc' = [doc EXCEPT ![req[p].rec] = req[p].doc]
    /\ Finish(p)
    /\ UNCHANGED <<arch, rule, nextRule, raced, undone>>

\* The archive trigger copies the row; manual and rule shares are both dropped.
DeleteRecord(p, r) ==
    /\ req[p] = Idle /\ doc[r] # None /\ ~WritingRecord(r)
    /\ arch' = [arch EXCEPT ![r] = doc[r]]
    /\ doc' = [doc EXCEPT ![r] = None]
    /\ share' = DropRecordShares(r)
    /\ gone' = Forget(p, {r} \X Principals)
    /\ raced' = IF \E q \in Procs : Materializing(q) \/ (req[q].op = "grant" /\ req[q].rec = r)
                THEN raced \cup {r} ELSE raced \ {r}
    /\ UNCHANGED <<rule, nextRule, req, undone>>

-----------------------------------------------------------------------------
(* The admin API for rules *)

\* create_share_rule: the INSERT at epoch 1 and the scan ...
CreateRuleBegin(p, c, u, a) ==
    /\ nextRule \in Rules
    /\ LET row == [cond |-> c, principal |-> u, access |-> a, epoch |-> 1, active |-> TRUE] IN
       Begin(p, [op |-> "create", rule |-> nextRule, row |-> row,
                 new |-> Materialized(nextRule, row, 0, AutoLimit)])
    /\ nextRule' = nextRule + 1
    /\ MeetsWrites
    /\ UNCHANGED <<doc, arch, rule, share, gone, undone>>

\* ... committed together with the shares.
CreateRuleCommit(p) ==
    /\ req[p].op = "create"
    /\ rule' = [rule EXCEPT ![req[p].rule] = req[p].row]
    /\ share' = Insert(share, req[p].new)
    /\ Finish(p)
    /\ UNCHANGED <<doc, arch, nextRule, gone, raced, undone>>

\* update_share_rule reads the row without locking it ...
PatchRead(p, i, b) ==
    /\ rule[i] # None /\ rule[i].epoch < MaxEpoch
    /\ Begin(p, [op |-> "patching", rule |-> i, existing |-> rule[i], body |-> b])
    /\ UNCHANGED <<doc, arch, rule, nextRule, share, gone, raced, undone>>

IsEmpty(b) == b.cond = Keep /\ b.principal = Keep /\ b.access = Keep /\ b.active = Keep

Or(field, old) == IF field = Keep THEN old ELSE field

\* Mutant: the principal column is written without falling back on the old value.
PatchedNoDefault(i, old, b) ==
    [cond |-> Or(b.cond, old.cond), principal |-> b.principal,
     access |-> Or(b.access, old.access), epoch |-> rule[i].epoch,
     active |-> Or(b.active, old.active)]

\* ... writes every column back (epoch is not one of them; RETURNING reads the
\* current one) ...
Patched(i, old, b) ==
    [cond |-> Or(b.cond, old.cond), principal |-> Or(b.principal, old.principal),
     access |-> Or(b.access, old.access), epoch |-> rule[i].epoch,
     active |-> Or(b.active, old.active)]

\* ... bumps the epoch, finds the rule's shares to drop and, when the rule is
\* active, scans for the shares to add.  They are built from the row RETURNED
\* BEFORE the bump.
PatchWrite(p) ==
    /\ req[p].op = "patching"
    /\ LET i   == req[p].rule
           row == Patched(i, req[p].existing, req[p].body)
           new == IF row.active /\ ~IsEmpty(req[p].body)
                  THEN Materialized(i, row, 0, AutoLimit) ELSE {}
       IN /\ rule[i] # None /\ ~LockedRule(i)
          /\ req' = [req EXCEPT ![p] =
                 [op |-> "patch", rule |-> i, row |-> row, new |-> new,
                  bump |-> IF IsEmpty(req[p].body) THEN 0 ELSE 1]]
          /\ gone' = [gone EXCEPT ![p] = IF IsEmpty(req[p].body) THEN {} ELSE Keys(OfRule(i))]
    /\ MeetsWrites
    /\ UNCHANGED <<doc, arch, rule, nextRule, share, undone>>

\* Mutant: the edit does not bump the epoch.
NotBumped(m) == m.row

\* bump_epoch: epoch = epoch + 1.
Bumped(m) == [m.row EXCEPT !.epoch = m.row.epoch + m.bump]

\* An empty body is written back as it was read, with no bump: what another edit made
\* of the rule meanwhile is undone, at that edit's epoch.
SetBack(m) ==
    IF m.bump = 1 THEN undone \ {m.rule}
    ELSE IF m.row = rule[m.rule] THEN undone ELSE undone \cup {m.rule}

PatchCommit(p) ==
    /\ req[p].op = "patch"
    /\ rule' = [rule EXCEPT ![req[p].rule] = Bumped(req[p])]
    /\ share' = Insert({s \in share : Key(s) \notin gone[p]}, req[p].new)
    /\ gone' = Forget(p, gone[p])
    /\ undone' = SetBack(req[p])
    /\ Finish(p)
    /\ UNCHANGED <<doc, arch, nextRule, raced>>

\* delete_share_rule: the shares cascade.
DeleteRule(p, i) ==
    /\ req[p] = Idle /\ rule[i] # None /\ ~LockedRule(i)
    /\ rule' = [rule EXCEPT ![i] = None]
    /\ share' = share \ OfRule(i)
    /\ gone' = Forget(p, Keys(OfRule(i)))
    /\ UNCHANGED <<doc, arch, nextRule, req, raced, undone>>

\* recompute_share_rule reads the rule in one transaction, and refuses an
\* inactive one ...
RecomputeRead(p, i, from, limit) ==
    /\ rule[i] # None /\ rule[i].active
    /\ Begin(p, [op |-> "recomputing", rule |-> i, row |-> rule[i],
                 from |-> from, limit |-> limit])
    /\ UNCHANGED <<doc, arch, rule, nextRule, share, gone, raced, undone>>

\* ... scans in a second one ...
RecomputeScan(p) ==
    /\ req[p].op = "recomputing"
    /\ LET m == req[p] IN
       req' = [req EXCEPT ![p] =
           [op |-> "recompute", rule |-> m.rule, row |-> m.row,
            new |-> Materialized(m.rule, m.row, m.from, m.limit)]]
    /\ MeetsWrites
    /\ UNCHANGED <<doc, arch, rule, nextRule, share, gone, undone>>

\* ... and commits what it inserted.
RecomputeCommit(p) ==
    /\ req[p].op = "recompute"
    /\ FkHolds(share, req[p].new)
    /\ share' = Insert(share, req[p].new)
    /\ Finish(p)
    /\ UNCHANGED <<doc, arch, rule, nextRule, gone, raced, undone>>

-----------------------------------------------------------------------------
(* Manual shares *)

\* create_share: the owner check and the look at the current row ...
GrantCheck(p, r, u, a) ==
    /\ doc[r] # None
    /\ \A s \in share : Key(s) = <<r, u>> => s.rule = Manual
    /\ Begin(p, [op |-> "grant", rec |-> r, principal |-> u, access |-> a])
    /\ UNCHANGED <<doc, arch, rule, nextRule, share, gone, raced, undone>>

\* ... then INSERT ... ON CONFLICT DO UPDATE SET access, on whatever row is there now.
GrantCommit(p) ==
    /\ req[p].op = "grant"
    /\ LET m   == req[p]
           hit == {s \in share : Key(s) = <<m.rec, m.principal>>}
       IN share' = (share \ hit) \cup
              IF hit = {}
              THEN {[rec |-> m.rec, principal |-> m.principal, rule |-> Manual,
                     epoch |-> 0, access |-> m.access, cond |-> {}]}
              ELSE {[s EXCEPT !.access = m.access] : s \in hit}
    /\ Finish(p)
    /\ UNCHANGED <<doc, arch, rule, nextRule, gone, raced, undone>>

\* delete_share: only WHERE rule_id IS NULL.
RevokeManual(p, s) ==
    /\ req[p] = Idle /\ s \in share /\ s.rule = Manual /\ doc[s.rec] # None
    /\ share' = share \ {s}
    /\ gone' = Forget(p, {Key(s)})
    /\ UNCHANGED <<doc, arch, rule, nextRule, req, raced, undone>>

\* Any transaction may end without a commit: the client goes away, a foreign key
\* fails, the rule was deleted under a PATCH, the process dies.
Rollback(p) ==
    /\ req[p] # Idle
    /\ Finish(p)
    /\ gone' = [gone EXCEPT ![p] = {}]
    /\ UNCHANGED <<doc, arch, rule, nextRule, share, raced, undone>>

-----------------------------------------------------------------------------
Next == \E p \in Procs :
    \/ \E r \in Records, d \in Docs : WriteBegin(p, r, d)
    \/ WriteCommit(p)
    \/ \E r \in Records : DeleteRecord(p, r)
    \/ \E c \in Conds, u \in Principals, a \in Accesses : CreateRuleBegin(p, c, u, a)
    \/ CreateRuleCommit(p)
    \/ \E i \in Rules, b \in Patches : PatchRead(p, i, b)
    \/ PatchWrite(p)
    \/ PatchCommit(p)
    \/ \E i \in Rules : DeleteRule(p, i)
    \/ \E i \in Rules, from \in Records \cup {0}, limit \in Limits :
           RecomputeRead(p, i, from, limit)
    \/ RecomputeScan(p)
    \/ RecomputeCommit(p)
    \/ \E r \in Records, u \in Principals, a \in Accesses : GrantCheck(p, r, u, a)
    \/ GrantCommit(p)
    \/ \E s \in share : RevokeManual(p, s)
    \/ Rollback(p)

Spec == Init /\ [][Next]_vars

-----------------------------------------------------------------------------
(* Properties *)

Request ==
    {Idle}
    \cup [op: {"write"}, rec: Records, doc: Docs, new: SUBSET ShareRow]
    \cup [op: {"create", "recompute"}, rule: Rules, row: RuleRow, new: SUBSET ShareRow]
    \cup [op: {"patching"}, rule: Rules, existing: RuleRow, body: Patches]
    \cup [op: {"patch"}, rule: Rules, row: RuleRow, new: SUBSET ShareRow, bump: {0, 1}]
    \cup [op: {"recomputing"}, rule: Rules, row: RuleRow, from: Records \cup {0}, limit: Limits]
    \cup [op: {"grant"}, rec: Records, principal: Principals, access: Accesses]

TypeOK ==
    /\ doc \in [Records -> Docs \cup {None}]
    /\ arch \in [Records -> Docs \cup {None}]
    /\ rule \in [Rules -> RuleRow \cup {None}]
    /\ nextRule \in 1..(MaxRules + 1)
    /\ share \subseteq ShareRow
    /\ req \in [Procs -> Request]
    /\ gone \in [Procs -> SUBSET (Records \X Principals)]
    /\ raced \subseteq Records
    /\ undone \subseteq Rules

\* The gate of read_predicate and write_predicate.
Honored(s) ==
    \/ s.rule = Manual
    \/ rule[s.rule] # None /\ rule[s.rule].active /\ s.epoch = rule[s.rule].epoch

\* Revoke safety: a rule share that the read predicate honors was computed from
\* the condition, and names the principal, that the rule has now; nothing that an
\* edit took away is honored for one more read (admin.rs update_share_rule), unless an
\* empty PATCH has written the rule back to what it was before that edit.
RevokeSafe ==
    \A s \in share : s.rule # Manual /\ Honored(s) /\ s.rule \notin undone =>
        s.cond = rule[s.rule].cond /\ s.principal = rule[s.rule].principal

\* A share row that is not honored never becomes honored again: neither a later
\* edit nor a re-activation revives what an epoch bump revoked (bump_epoch).  Only the
\* commit of an empty PATCH does, one that sets back a rule switched off while it ran.
SetsBack(i) == \E p \in Procs : PatchCommit(p) /\ req[p].rule = i /\ i \in undone'
RevokeIsFinal ==
    [][\A s \in share \cap share' : ~Honored(s) => ~Honored(s)' \/ SetsBack(s.rule)]_vars

\* Nothing that rules do - recompute after a write, materialization, an edit, the
\* cascade of a deletion - removes or changes a manual share (recompute_record).
ManualShares == {s \in share : s.rule = Manual}
RulesLeaveManualAlone ==
    [][(\E p \in Procs : \/ WriteCommit(p) \/ CreateRuleCommit(p) \/ PatchCommit(p)
                         \/ RecomputeCommit(p) \/ \E i \in Rules : DeleteRule(p, i))
       => ManualShares \subseteq share']_vars

\* Never over-grant: an honored rule share is on a record that matches the rule
\* now (sharing.rs: "no per-record revocation lag at all"); and a deleted record
\* leaves no share row behind, so that restoring it resurrects no grant (delete_tx,
\* drop_record_shares).  A record that raced with a scan or a grant is an exception, and
\* so are the shares of a rule that an empty PATCH has set back.
NoOverGrant(s) ==
    s.rule \notin undone \cup {Manual} /\ Honored(s) /\ doc[s.rec] # None =>
        doc[s.rec] \in rule[s.rule].cond

SharesExact == \A s \in share : s.rec \notin raced => doc[s.rec] # None /\ NoOverGrant(s)

\* Right after a record write the principal of every active rule that the record
\* matches can see it (recompute_record runs inside the write transaction), unless
\* the rule's own scan raced with it.
Grants(p) ==
    \A i \in ActiveRules : req[p].doc \in rule[i].cond =>
        \E s \in share' : /\ Key(s) = <<req[p].rec, rule[i].principal>>
                          /\ Honored(s)'
GrantedAfterWrite ==
    [][\A p \in Procs : WriteCommit(p) /\ req[p].rec \notin raced => Grants(p)]_vars

\* After a PATCH the shares it re-materialized are honored: it "re-materialize[s]
\* under the new epoch" (update_share_rule).  The code does not do that.
EditGrants ==
    [][\A p \in Procs : PatchCommit(p) =>
          \A n \in req[p].new : n \in share' => Honored(n)']_vars

-----------------------------------------------------------------------------
(* The inductive invariant behind RevokeSafe: an epoch number of a rule stands *)
(* for one definition of it, in the table and in every request under way, for  *)
(* as long as no empty PATCH has set the rule back.                            *)

SameGrant(s, row) == s.cond = row.cond /\ s.principal = row.principal

\* A grant computed for rule i at some epoch is one the rule's current row would
\* give, or is of an older epoch.
Gated(i, s) ==
    rule[i] # None =>
        /\ s.epoch <= rule[i].epoch
        /\ s.epoch = rule[i].epoch /\ i \notin undone => SameGrant(s, rule[i])

OnRule(p) == req[p].op \in {"create", "patching", "patch", "recomputing", "recompute"}
New(p)    == IF req[p].op \in {"write", "create", "patch", "recompute"} THEN req[p].new ELSE {}

Mentions(p, i) == \/ OnRule(p) /\ req[p].rule = i
                  \/ \E n \in New(p) : n.rule = i

\* Nobody but its creator knows rule i.
Unknown(i, others) ==
    /\ rule[i] = None
    /\ \A s \in share : s.rule # i
    /\ \A q \in others : ~Mentions(q, i)

RequestGated(p) ==
    LET m == req[p] IN
    /\ m.op = "write" => \A n \in m.new : n.rule # Manual /\ Gated(n.rule, n)
    /\ m.op \in {"recomputing", "recompute"} => Gated(m.rule, m.row)
    /\ m.op = "recompute" => \A n \in m.new : n.rule = m.rule /\ Gated(n.rule, n)
    /\ m.op = "create" =>
           /\ Unknown(m.rule, Procs \ {p})
           /\ \A n \in m.new : n.rule = m.rule /\ n.epoch = m.row.epoch /\ SameGrant(n, m.row)
    /\ m.op = "patch" =>
           /\ rule[m.rule] # None /\ m.row.epoch = rule[m.rule].epoch
           /\ m.bump = 0 => m.new = {}
           /\ \A n \in m.new : n.rule = m.rule /\ n.epoch = m.row.epoch
           /\ \A q \in Procs \ {p} : req[q].op = "patch" => req[q].rule # m.rule

EpochInv ==
    /\ TypeOK
    /\ \A s \in share : s.rule # Manual => Gated(s.rule, s)
    /\ \A p \in Procs : RequestGated(p)
    /\ \A i \in Rules : i >= nextRule => Unknown(i, Procs)

\* The inductive invariant behind RulesLeaveManualAlone: the unique index on (record,
\* principal), and what a DELETE has found and holds locked are rows of rules.
OneRowPerKey(S) == \A s, t \in S : Key(s) = Key(t) => s = t

KeyInv ==
    /\ TypeOK
    /\ OneRowPerKey(share)
    /\ \A p \in Procs :
           /\ OneRowPerKey(New(p))
           /\ \A n \in New(p) : n.rule # Manual
           /\ gone[p] \subseteq Keys(share \ ManualShares)

\* The inductive invariant behind SharesExact and GrantedAfterWrite: a share is what the
\* record says, and so is one that a scan has found ...
AsWritten(s) == doc[s.rec] # None /\ (s.rule # Manual => doc[s.rec] \in s.cond)

RequestAsRead(p) ==
    LET m == req[p] IN
    /\ Materializing(p) => \A n \in m.new : n.rec \notin raced => AsWritten(n)
    /\ m.op = "grant" /\ m.rec \notin raced => doc[m.rec] # None

\* ... and a write has its record for itself: it has found every share that rules have
\* on it, and has one for the principal of each rule that matches.
WriterAlone(p) ==
    LET m == req[p] IN
    m.op = "write" =>
        /\ \A q \in Procs \ {p} : req[q].op = "write" => req[q].rec # m.rec
        /\ gone[p] \subseteq {m.rec} \X Principals
        /\ \A n \in m.new : n.rec = m.rec /\ n.rule # Manual /\ m.doc \in n.cond
        /\ m.rec \notin raced =>
              /\ \A q \in Procs : ~Materializing(q)
              /\ Keys(RuleSharesOf(m.rec)) \subseteq gone[p]
              /\ \A i \in ActiveRules : m.doc \in rule[i].cond =>
                     \E n \in m.new : /\ n.principal = rule[i].principal
                                      /\ rule[n.rule] = None \/ Honored(n)

RaceInv ==
    /\ KeyInv
    /\ \A s \in share : s.rec \notin raced => AsWritten(s)
    /\ \A p \in Procs : RequestAsRead(p) /\ WriterAlone(p)
=============================================================================

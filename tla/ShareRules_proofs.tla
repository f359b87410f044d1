-------------------------- MODULE ShareRules_proofs --------------------------
(***************************************************************************)
(* Proofs about ShareRules: types, and revoke safety for every number of   *)
(* records, principals, rules and concurrent requests.                     *)
(***************************************************************************)
EXTENDS ShareRules, WellFoundedInduction, TLAPS

\* What a request under way carries, read off its operation.
LEMMA RequestTypes ==
    ASSUME NEW m \in Request
    PROVE  /\ m.op = "write" => m.rec \in Records /\ m.doc \in Docs /\ m.new \subseteq ShareRow
           /\ m.op \in {"create", "recompute", "patch"} =>
                 m.rule \in Rules /\ m.row \in RuleRow /\ m.new \subseteq ShareRow
           /\ m.op = "patch" => m.bump \in {0, 1}
           /\ m.op = "patching" =>
                 m.rule \in Rules /\ m.existing \in RuleRow /\ m.body \in Patches
           /\ m.op = "recomputing" => m.rule \in Rules /\ m.row \in RuleRow
           /\ m.op = "grant" => m.rec \in Records /\ m.principal \in Principals
                                /\ m.access \in Accesses
BY DEF Request, Idle

\* A share made from a rule's row carries its rule, epoch and grant.
LEMMA RuleShareType ==
    ASSUME NEW r \in Records, NEW i \in Rules, NEW row \in RuleRow
    PROVE  /\ RuleShare(r, i, row) \in ShareRow
           /\ RuleShare(r, i, row).rule = i
           /\ RuleShare(r, i, row).epoch = row.epoch
           /\ SameGrant(RuleShare(r, i, row), row)
BY DEF RuleShare, ShareRow, RuleRow, SameGrant

\* So do all the shares a recompute makes of a rule.
LEMMA MaterializedType ==
    ASSUME NEW i \in Rules, NEW row \in RuleRow, NEW from, NEW limit
    PROVE  /\ Materialized(i, row, from, limit) \subseteq ShareRow
           /\ \A n \in Materialized(i, row, from, limit) :
                 n.rule = i /\ n.epoch = row.epoch /\ SameGrant(n, row)
<1>1. Scanned(from, limit) \subseteq Records
  BY DEF Scanned
<1>2. QED
  BY <1>1, RuleShareType DEF Materialized

\* And all those a record write makes of the rules there are.
LEMMA RecomputedType ==
    ASSUME TypeOK, NEW r \in Records, NEW d \in Docs
    PROVE  /\ Recomputed(r, d) \subseteq ShareRow
           /\ \A n \in Recomputed(r, d) :
                 /\ n.rule \in Rules /\ n.rule # Manual
                 /\ rule[n.rule] # None
                 /\ n.epoch = rule[n.rule].epoch /\ SameGrant(n, rule[n.rule])
<1>1. ASSUME NEW n \in Recomputed(r, d)
      PROVE  \E i \in Rules : rule[i] # None /\ n = RuleShare(r, i, rule[i])
  BY <1>1 DEF Recomputed, ActiveRules
<1>2. \A i \in Rules : rule[i] # None => rule[i] \in RuleRow
  BY DEF TypeOK
<1>3. \A i \in Rules : i # Manual
  BY BoundsAssumption DEF Rules, Manual
<1>4. QED
  BY <1>1, <1>2, <1>3, RuleShareType

\* A patch leaves a well-typed rule of the same epoch.
LEMMA PatchedType ==
    ASSUME TypeOK, NEW i \in Rules, rule[i] # None, NEW old \in RuleRow, NEW b \in Patches
    PROVE  /\ Patched(i, old, b) \in RuleRow
           /\ Patched(i, old, b).epoch = rule[i].epoch
BY PatchesAssumption DEF TypeOK, Patched, Or, RuleRow

\* Every variable keeps its type.
LEMMA TypeStep == TypeOK /\ [Next]_vars => TypeOK'
<1> SUFFICES ASSUME TypeOK, [Next]_vars PROVE TypeOK'
  OBVIOUS
<1> USE DEF TypeOK
<1>0. \A S, T : Insert(S, T) \subseteq S \cup T
  BY DEF Insert
<1>1. ASSUME NEW p \in Procs, NEW r \in Records, NEW d \in Docs, WriteBegin(p, r, d)
      PROVE  TypeOK'
  <2>1. Recomputed(r, d) \subseteq ShareRow
    BY RecomputedType
  <2>2. [op |-> "write", rec |-> r, doc |-> d, new |-> Recomputed(r, d)] \in Request
    BY <2>1 DEF Request
  <2>3. Keys({s \in share : s.rec = r /\ s.rule # Manual}) \subseteq Records \X Principals
    BY DEF Keys, Key, ShareRow
  <2>4. QED
    BY <1>1, <2>2, <2>3 DEF WriteBegin, Begin, RuleSharesOf
<1>2. ASSUME NEW p \in Procs, WriteCommit(p)
      PROVE  TypeOK'
  <2>1. req[p].rec \in Records /\ req[p].doc \in Docs /\ req[p].new \subseteq ShareRow
    BY <1>2, RequestTypes DEF WriteCommit
  <2>2. share' \subseteq ShareRow
    BY <1>2, <1>0, <2>1 DEF WriteCommit
  <2>3. QED
    BY <1>2, <2>1, <2>2 DEF WriteCommit, Finish, Forget, Request
<1>3. ASSUME NEW p \in Procs, NEW r \in Records, DeleteRecord(p, r)
      PROVE  TypeOK'
  BY <1>3 DEF DeleteRecord, DropRecordShares, Forget
<1>4. ASSUME NEW p \in Procs, NEW c \in Conds, NEW u \in Principals, NEW a \in Accesses,
             CreateRuleBegin(p, c, u, a)
      PROVE  TypeOK'
  <2> DEFINE row == [cond |-> c, principal |-> u, access |-> a, epoch |-> 1, active |-> TRUE]
             new == Materialized(nextRule, row, 0, AutoLimit)
  <2>1. row \in RuleRow /\ nextRule \in Rules
    BY <1>4 DEF RuleRow, CreateRuleBegin
  <2>2. new \subseteq ShareRow
    BY <2>1, MaterializedType
  <2>3. [op |-> "create", rule |-> nextRule, row |-> row, new |-> new] \in Request
    BY <2>1, <2>2 DEF Request
  <2>4. nextRule + 1 \in 1..(MaxRules + 1)
    BY <2>1, BoundsAssumption DEF Rules
  <2>5. QED
    BY <1>4, <2>3, <2>4 DEF CreateRuleBegin, Begin, MeetsWrites
<1>5. ASSUME NEW p \in Procs, CreateRuleCommit(p)
      PROVE  TypeOK'
  <2>1. req[p].rule \in Rules /\ req[p].row \in RuleRow /\ req[p].new \subseteq ShareRow
    BY <1>5, RequestTypes DEF CreateRuleCommit
  <2>2. QED
    BY <1>0, <1>5, <2>1 DEF CreateRuleCommit, Finish, Request
<1>6. ASSUME NEW p \in Procs, NEW i \in Rules, NEW b \in Patches, PatchRead(p, i, b)
      PROVE  TypeOK'
  BY <1>6 DEF PatchRead, Begin, Request
<1>7. ASSUME NEW p \in Procs, PatchWrite(p)
      PROVE  TypeOK'
  <2> DEFINE i   == req[p].rule
             row == Patched(i, req[p].existing, req[p].body)
             new == IF row.active /\ ~IsEmpty(req[p].body)
                    THEN Materialized(i, row, 0, AutoLimit) ELSE {}
             bump == IF IsEmpty(req[p].body) THEN 0 ELSE 1
  <2>1. i \in Rules /\ req[p].existing \in RuleRow /\ req[p].body \in Patches /\ rule[i] # None
    BY <1>7, RequestTypes DEF PatchWrite
  <2>2. row \in RuleRow
    BY <2>1, PatchedType
  <2>3. new \subseteq ShareRow
    BY <2>1, <2>2, MaterializedType
  <2>4. [op |-> "patch", rule |-> i, row |-> row, new |-> new, bump |-> bump] \in Request
    BY <2>1, <2>2, <2>3 DEF Request
  <2>5. Keys(OfRule(i)) \subseteq Records \X Principals
    BY DEF Keys, Key, OfRule, ShareRow
  <2>6. QED
    BY <1>7, <2>4, <2>5 DEF PatchWrite, MeetsWrites
<1>8. ASSUME NEW p \in Procs, PatchCommit(p)
      PROVE  TypeOK'
  <2>1. req[p].rule \in Rules /\ req[p].row \in RuleRow /\ req[p].new \subseteq ShareRow
        /\ req[p].bump \in {0, 1}
    BY <1>8, RequestTypes DEF PatchCommit, Bumped
  <2>2. [req[p].row EXCEPT !.epoch = req[p].row.epoch + req[p].bump] \in RuleRow
    BY <2>1 DEF RuleRow
  <2>3. share' \subseteq ShareRow
    BY <1>0, <1>8, <2>1 DEF PatchCommit, Bumped
  <2>4. QED
    BY <1>8, <2>1, <2>2, <2>3 DEF PatchCommit, Bumped, Finish, Forget, Request, SetBack
<1>9. ASSUME NEW p \in Procs, NEW i \in Rules, DeleteRule(p, i)
      PROVE  TypeOK'
  BY <1>9 DEF DeleteRule, Forget
<1>10. ASSUME NEW p \in Procs, NEW i \in Rules, NEW from \in Records \cup {0},
              NEW limit \in Limits, RecomputeRead(p, i, from, limit)
       PROVE  TypeOK'
  BY <1>10 DEF RecomputeRead, Begin, Request
<1>11. ASSUME NEW p \in Procs, RecomputeScan(p)
       PROVE  TypeOK'
  <2>1. req[p].rule \in Rules /\ req[p].row \in RuleRow
    BY <1>11, RequestTypes DEF RecomputeScan
  <2>2. Materialized(req[p].rule, req[p].row, req[p].from, req[p].limit) \subseteq ShareRow
    BY <2>1, MaterializedType
  <2>3. QED
    BY <1>11, <2>1, <2>2 DEF RecomputeScan, Request, MeetsWrites
<1>12. ASSUME NEW p \in Procs, RecomputeCommit(p)
       PROVE  TypeOK'
  <2>1. req[p].new \subseteq ShareRow
    BY <1>12, RequestTypes DEF RecomputeCommit
  <2>2. QED
    BY <1>0, <1>12, <2>1 DEF RecomputeCommit, Finish, Request
<1>13. ASSUME NEW p \in Procs, NEW r \in Records, NEW u \in Principals, NEW a \in Accesses,
              GrantCheck(p, r, u, a)
       PROVE  TypeOK'
  BY <1>13 DEF GrantCheck, Begin, Request
<1>14. ASSUME NEW p \in Procs, GrantCommit(p)
       PROVE  TypeOK'
  <2>1. req[p].rec \in Records /\ req[p].principal \in Principals /\ req[p].access \in Accesses
    BY <1>14, RequestTypes DEF GrantCommit
  <2>2. \A s \in share : [s EXCEPT !.access = req[p].access] \in ShareRow
    BY <2>1 DEF ShareRow
  <2>3. [rec |-> req[p].rec, principal |-> req[p].principal, rule |-> Manual,
         epoch |-> 0, access |-> req[p].access, cond |-> {}] \in ShareRow
    BY <2>1 DEF ShareRow
  <2>4. share' \subseteq ShareRow
    BY <1>14, <2>2, <2>3 DEF GrantCommit
  <2>5. QED
    BY <1>14, <2>4 DEF GrantCommit, Finish, Request
<1>15. ASSUME NEW p \in Procs, NEW s \in share, RevokeManual(p, s)
       PROVE  TypeOK'
  BY <1>15 DEF RevokeManual, Forget
<1>16. ASSUME NEW p \in Procs, Rollback(p)
       PROVE  TypeOK'
  BY <1>16 DEF Rollback, Finish, Request
<1>17. CASE UNCHANGED vars
  BY <1>17 DEF vars
<1>18. QED
  BY <1>1, <1>2, <1>3, <1>4, <1>5, <1>6, <1>7, <1>8, <1>9, <1>10, <1>11, <1>12, <1>13,
     <1>14, <1>15, <1>16, <1>17 DEF Next

\* Init is well typed.
LEMMA TypeInit == Init => TypeOK
BY BoundsAssumption DEF Init, TypeOK, Request, Rules

-----------------------------------------------------------------------------
(* The inductive invariant *)

\* There is no share of a rule at first.
LEMMA InvInit == Init => EpochInv
<1> SUFFICES ASSUME Init PROVE EpochInv
  OBVIOUS
<1>1. TypeOK
  BY TypeInit
<1>2. \A p \in Procs : req[p] = Idle /\ New(p) = {}
  BY DEF Init, New, Idle
<1>3. \A p \in Procs : RequestGated(p)
  BY <1>2 DEF RequestGated, Idle
<1>4. \A i \in Rules : Unknown(i, Procs)
  BY <1>2 DEF Unknown, Init, Mentions, OnRule, Idle
<1>5. QED
  BY <1>1, <1>3, <1>4 DEF EpochInv, Init

\* What holds of every request when the rule table stays and the table of shares
\* and the other requests say nothing new about rules: used for the steps that
\* leave "rule" alone.
LEMMA QuietStep ==
    ASSUME EpochInv, TypeOK', NEW p \in Procs,
           rule' = rule, nextRule' = nextRule, undone' = undone,
           \A q \in Procs \ {p} : req'[q] = req[q],
           \A s \in share' : s.rule # Manual =>
               Gated(s.rule, s) /\ ((\E t \in share : t.rule = s.rule)
                                    \/ \E n \in New(p) : n.rule = s.rule),
           \A i \in Rules : Mentions(p, i)' => Mentions(p, i) \/ rule[i] # None,
           req'[p].op = "patch" =>
               \A q \in Procs \ {p} : req[q].op = "patch" => req[q].rule # req'[p].rule,
           RequestGated(p)'
    PROVE  EpochInv'
<1> USE DEF EpochInv
<1>1. \A s \in share' : s.rule # Manual => Gated(s.rule, s)'
  BY DEF Gated
<1>2. \A q \in Procs \ {p}, i \in Rules : Mentions(q, i)' => Mentions(q, i)
  BY DEF Mentions, OnRule, New
<1>3. ASSUME NEW i \in Rules, NEW O \in SUBSET Procs, Unknown(i, O), ~Mentions(p, i)
      PROVE  Unknown(i, O)'
  <2>1. i # Manual
    BY BoundsAssumption DEF Rules, Manual
  <2>2. \A s \in share' : s.rule # i
    BY <1>3, <2>1 DEF Unknown, Mentions
  <2>3. QED
    BY <1>2, <1>3, <2>2 DEF Unknown
<1>4. ASSUME NEW q \in Procs \ {p} PROVE RequestGated(q)'
  <2>1. RequestGated(q) /\ req'[q] = req[q] /\ q # p
    OBVIOUS
  <2>2. \A i, x : Gated(i, x)' <=> Gated(i, x)
    BY DEF Gated
  <2>3. CASE req[q].op = "create"
    <3>1. req[q].rule \in Rules
      BY <2>3, RequestTypes DEF TypeOK
    <3>2. Unknown(req[q].rule, Procs \ {q}) /\ ~Mentions(p, req[q].rule)
      BY <2>1, <2>3 DEF RequestGated, Unknown
    <3>3. Unknown(req[q].rule, Procs \ {q})'
      BY <1>3, <3>1, <3>2, <2>1
    <3>4. QED
      BY <2>1, <2>3, <3>3 DEF RequestGated
  <2>4. CASE req[q].op = "patch"
    <3>1. ASSUME NEW z \in Procs \ {q}, req'[z].op = "patch"
          PROVE  req'[z].rule # req[q].rule
      <4>1. CASE z = p
        BY <2>1, <2>4, <3>1, <4>1
      <4>2. CASE z # p
        BY <2>1, <2>4, <3>1, <4>2 DEF RequestGated
      <4>3. QED
        BY <4>1, <4>2
    <3>2. QED
      BY <2>1, <2>4, <3>1 DEF RequestGated
  <2>5. CASE req[q].op \notin {"create", "patch"}
    BY <2>1, <2>2, <2>5 DEF RequestGated
  <2>6. QED
    BY <2>3, <2>4, <2>5
<1>5. \A i \in Rules : i >= nextRule => Unknown(i, Procs)'
  BY <1>3 DEF Unknown
<1>6. QED
  BY <1>1, <1>4, <1>5

\* Rows that were in the table, or manual ones, keep it gated.
LEMMA KeptShares ==
    ASSUME EpochInv, NEW p \in Procs, NEW S,
           \A s \in S : s \in share \/ s.rule = Manual \/ (s \in New(p) /\ Gated(s.rule, s))
    PROVE  \A s \in S : s.rule # Manual =>
               Gated(s.rule, s) /\ ((\E t \in share : t.rule = s.rule)
                                    \/ \E n \in New(p) : n.rule = s.rule)
BY DEF EpochInv

\* Record writes keep the epoch invariant.
LEMMA WriteStep ==
    ASSUME EpochInv, TypeOK', NEW p \in Procs
    PROVE  /\ (\E r \in Records, d \in Docs : WriteBegin(p, r, d)) => EpochInv'
           /\ WriteCommit(p) => EpochInv'
           /\ (\E r \in Records : DeleteRecord(p, r)) => EpochInv'
<1> USE DEF EpochInv, TypeOK
<1>1. ASSUME NEW r \in Records, NEW d \in Docs, WriteBegin(p, r, d)
      PROVE  EpochInv'
  <2>1. /\ req'[p].op = "write" /\ req'[p].new = Recomputed(r, d)
        /\ \A q \in Procs \ {p} : req'[q] = req[q]
    BY <1>1 DEF WriteBegin, Begin, RuleSharesOf
  <2>2. \A n \in Recomputed(r, d) :
            n.rule \in Rules /\ n.rule # Manual /\ rule[n.rule] # None /\ Gated(n.rule, n)
    <3>1. \A n \in Recomputed(r, d) : n.rule \in Rules /\ rule[n.rule] # None =>
              rule[n.rule].epoch \in Nat
      BY DEF RuleRow
    <3>2. QED
      BY <3>1, RecomputedType DEF Gated
  <2>3. RequestGated(p)'
    BY <1>1, <2>1, <2>2 DEF RequestGated, WriteBegin, Gated
  <2>4. \A i \in Rules : Mentions(p, i)' => rule[i] # None
    BY <2>1, <2>2 DEF Mentions, New, OnRule
  <2>5. QED
    BY <1>1, <2>1, <2>3, <2>4, KeptShares, QuietStep DEF WriteBegin
<1>2. ASSUME WriteCommit(p)
      PROVE  EpochInv'
  <2>1. /\ req'[p] = Idle /\ \A q \in Procs \ {p} : req'[q] = req[q]
        /\ req[p].op = "write" /\ rule' = rule /\ undone' = undone /\ nextRule' = nextRule
    BY <1>2 DEF WriteCommit, Finish
  <2>2. \A n \in New(p) : Gated(n.rule, n)
    BY <2>1 DEF New, RequestGated
  <2>3. share' \subseteq share \cup New(p)
    BY <1>2, <2>1 DEF WriteCommit, Insert, New
  <2>4. RequestGated(p)' /\ \A i \in Rules : ~Mentions(p, i)'
    BY <2>1 DEF RequestGated, Idle, Mentions, OnRule, New
  <2>5. \A s \in share' : s.rule # Manual =>
            Gated(s.rule, s) /\ ((\E t \in share : t.rule = s.rule)
                                 \/ \E n \in New(p) : n.rule = s.rule)
    BY <2>2, <2>3, KeptShares
  <2>6. QED
    BY <2>1, <2>4, <2>5, QuietStep DEF Idle
<1>3. ASSUME NEW r \in Records, DeleteRecord(p, r)
      PROVE  EpochInv'
  <2>1. req' = req /\ req[p] = Idle /\ share' \subseteq share /\ rule' = rule /\ undone' = undone
        /\ nextRule' = nextRule
    BY <1>3 DEF DeleteRecord, DropRecordShares
  <2>2. RequestGated(p)' /\ \A i \in Rules : ~Mentions(p, i)'
    BY <2>1 DEF RequestGated, Idle, Mentions, OnRule, New
  <2>3. QED
    BY <2>1, <2>2, KeptShares, QuietStep DEF Idle
<1>4. QED
  BY <1>1, <1>2, <1>3

\* Recomputes keep the epoch invariant.
LEMMA RecomputeStep ==
    ASSUME EpochInv, TypeOK', NEW p \in Procs
    PROVE  /\ (\E i \in Rules, from \in Records \cup {0}, limit \in Limits :
                  RecomputeRead(p, i, from, limit)) => EpochInv'
           /\ RecomputeScan(p) => EpochInv'
           /\ RecomputeCommit(p) => EpochInv'
<1> USE DEF EpochInv, TypeOK
<1>1. ASSUME NEW i \in Rules, NEW from \in Records \cup {0}, NEW limit \in Limits,
             RecomputeRead(p, i, from, limit)
      PROVE  EpochInv'
  <2>1. /\ req'[p].op = "recomputing" /\ req'[p].rule = i /\ req'[p].row = rule[i]
        /\ rule[i] # None /\ rule' = rule /\ undone' = undone /\ share' = share /\ nextRule' = nextRule
        /\ \A q \in Procs \ {p} : req'[q] = req[q]
    BY <1>1 DEF RecomputeRead, Begin
  <2>2. Gated(i, rule[i])
    BY <2>1 DEF Gated, SameGrant, RuleRow
  <2>3. RequestGated(p)'
    BY <2>1, <2>2 DEF RequestGated, Gated
  <2>4. \A j \in Rules : Mentions(p, j)' => rule[j] # None
    BY <2>1 DEF Mentions, New, OnRule
  <2>5. QED
    BY <2>1, <2>3, <2>4, KeptShares, QuietStep
<1>2. ASSUME RecomputeScan(p)
      PROVE  EpochInv'
  <2> DEFINE m   == req[p]
             new == Materialized(m.rule, m.row, m.from, m.limit)
  <2>1. /\ req'[p].op = "recompute" /\ req'[p].rule = m.rule /\ req'[p].row = m.row
        /\ req'[p].new = new /\ m.op = "recomputing"
        /\ rule' = rule /\ undone' = undone /\ share' = share /\ nextRule' = nextRule
        /\ \A q \in Procs \ {p} : req'[q] = req[q]
    BY <1>2 DEF RecomputeScan
  <2>2. m.rule \in Rules /\ m.row \in RuleRow /\ Gated(m.rule, m.row)
    BY <2>1, RequestTypes DEF RequestGated
  <2>3. \A n \in new : n.rule = m.rule /\ n.epoch = m.row.epoch /\ SameGrant(n, m.row)
    BY <2>2, MaterializedType
  <2>4. \A n \in new : Gated(n.rule, n)
    BY <2>2, <2>3 DEF Gated, SameGrant
  <2>5. RequestGated(p)'
    BY <2>1, <2>2, <2>3, <2>4 DEF RequestGated, Gated
  <2>6. \A j \in Rules : Mentions(p, j)' => Mentions(p, j)
    BY <2>1, <2>3 DEF Mentions, New, OnRule
  <2>7. QED
    BY <2>1, <2>5, <2>6, KeptShares, QuietStep
<1>3. ASSUME RecomputeCommit(p)
      PROVE  EpochInv'
  <2>1. /\ req'[p] = Idle /\ \A q \in Procs \ {p} : req'[q] = req[q]
        /\ req[p].op = "recompute" /\ rule' = rule /\ undone' = undone /\ nextRule' = nextRule
    BY <1>3 DEF RecomputeCommit, Finish
  <2>2. \A n \in New(p) : Gated(n.rule, n)
    BY <2>1 DEF New, RequestGated
  <2>3. share' \subseteq share \cup New(p)
    BY <1>3, <2>1 DEF RecomputeCommit, Insert, New
  <2>4. RequestGated(p)' /\ \A i \in Rules : ~Mentions(p, i)'
    BY <2>1 DEF RequestGated, Idle, Mentions, OnRule, New
  <2>5. \A s \in share' : s.rule # Manual =>
            Gated(s.rule, s) /\ ((\E t \in share : t.rule = s.rule)
                                 \/ \E n \in New(p) : n.rule = s.rule)
    BY <2>2, <2>3, KeptShares
  <2>6. QED
    BY <2>1, <2>4, <2>5, QuietStep DEF Idle
<1>4. QED
  BY <1>1, <1>2, <1>3

\* Manual grants and their revocation keep the epoch invariant.
LEMMA ManualStep ==
    ASSUME EpochInv, TypeOK', NEW p \in Procs
    PROVE  /\ (\E r \in Records, u \in Principals, a \in Accesses : GrantCheck(p, r, u, a))
                 => EpochInv'
           /\ GrantCommit(p) => EpochInv'
           /\ (\E s \in share : RevokeManual(p, s)) => EpochInv'
           /\ Rollback(p) => EpochInv'
<1> USE DEF EpochInv, TypeOK
<1>1. ASSUME NEW r \in Records, NEW u \in Principals, NEW a \in Accesses, GrantCheck(p, r, u, a)
      PROVE  EpochInv'
  <2>1. /\ req'[p].op = "grant" /\ rule' = rule /\ undone' = undone /\ share' = share /\ nextRule' = nextRule
        /\ \A q \in Procs \ {p} : req'[q] = req[q]
    BY <1>1 DEF GrantCheck, Begin
  <2>2. RequestGated(p)' /\ \A i \in Rules : ~Mentions(p, i)'
    BY <2>1 DEF RequestGated, Mentions, OnRule, New
  <2>3. QED
    BY <2>1, <2>2, KeptShares, QuietStep
<1>2. ASSUME GrantCommit(p)
      PROVE  EpochInv'
  <2>1. /\ req'[p] = Idle /\ \A q \in Procs \ {p} : req'[q] = req[q]
        /\ rule' = rule /\ undone' = undone /\ nextRule' = nextRule
    BY <1>2 DEF GrantCommit, Finish
  <2>2. ASSUME NEW s \in share', s \notin share, s.rule # Manual
        PROVE  \E t \in share : t.rule = s.rule /\ t.epoch = s.epoch
                   /\ t.cond = s.cond /\ t.principal = s.principal
    <3>1. PICK t \in share : s = [t EXCEPT !.access = req[p].access]
      BY <1>2, <2>2 DEF GrantCommit
    <3>2. QED
      BY <3>1 DEF ShareRow
  <2>3. \A s \in share' : s.rule # Manual =>
            Gated(s.rule, s) /\ \E t \in share : t.rule = s.rule
    BY <2>2 DEF Gated, SameGrant
  <2>4. RequestGated(p)' /\ \A i \in Rules : ~Mentions(p, i)'
    BY <2>1 DEF RequestGated, Idle, Mentions, OnRule, New
  <2>5. QED
    BY <2>1, <2>3, <2>4, QuietStep DEF Idle
<1>3. ASSUME NEW s \in share, RevokeManual(p, s)
      PROVE  EpochInv'
  <2>1. req' = req /\ req[p] = Idle /\ share' \subseteq share /\ rule' = rule /\ undone' = undone
        /\ nextRule' = nextRule
    BY <1>3 DEF RevokeManual
  <2>2. RequestGated(p)' /\ \A i \in Rules : ~Mentions(p, i)'
    BY <2>1 DEF RequestGated, Idle, Mentions, OnRule, New
  <2>3. QED
    BY <2>1, <2>2, KeptShares, QuietStep DEF Idle
<1>4. ASSUME Rollback(p)
      PROVE  EpochInv'
  <2>1. /\ req'[p] = Idle /\ \A q \in Procs \ {p} : req'[q] = req[q]
        /\ rule' = rule /\ undone' = undone /\ nextRule' = nextRule /\ share' = share
    BY <1>4 DEF Rollback, Finish
  <2>2. RequestGated(p)' /\ \A i \in Rules : ~Mentions(p, i)'
    BY <2>1 DEF RequestGated, Idle, Mentions, OnRule, New
  <2>3. QED
    BY <2>1, <2>2, KeptShares, QuietStep DEF Idle
<1>5. QED
  BY <1>1, <1>2, <1>3, <1>4

\* An id that a request mentions is not one its creator alone knows.
LEMMA CreateStep ==
    ASSUME EpochInv, TypeOK', NEW p \in Procs
    PROVE  /\ (\E c \in Conds, u \in Principals, a \in Accesses : CreateRuleBegin(p, c, u, a))
                 => EpochInv'
           /\ CreateRuleCommit(p) => EpochInv'
<1> USE DEF EpochInv, TypeOK
<1>1. ASSUME NEW c \in Conds, NEW u \in Principals, NEW a \in Accesses,
             CreateRuleBegin(p, c, u, a)
      PROVE  EpochInv'
  <2>0. PICK i \in Rules : i = nextRule
    BY <1>1 DEF CreateRuleBegin
  <2> DEFINE row == [cond |-> c, principal |-> u, access |-> a, epoch |-> 1, active |-> TRUE]
             new == Materialized(i, row, 0, AutoLimit)
  <2>1. /\ i \in Rules /\ req'[p].op = "create" /\ req'[p].rule = i /\ req'[p].row = row
        /\ req'[p].new = new /\ \A q \in Procs \ {p} : req'[q] = req[q]
        /\ rule' = rule /\ undone' = undone /\ share' = share /\ nextRule' = i + 1 /\ req[p] = Idle
    BY <1>1, <2>0 DEF CreateRuleBegin, Begin
  <2>2. row \in RuleRow
    BY DEF RuleRow
  <2>3. \A n \in new : n.rule = i /\ n.epoch = row.epoch /\ SameGrant(n, row)
    BY <2>1, <2>2, MaterializedType
  <2>4. Unknown(i, Procs)
    BY <2>0 DEF Rules
  <2>5. \A q \in Procs \ {p}, j \in Rules : Mentions(q, j)' <=> Mentions(q, j)
    BY <2>1 DEF Mentions, OnRule, New
  <2>6. \A j \in Rules : Mentions(p, j)' => j = i
    BY <2>1, <2>3 DEF Mentions, OnRule, New
  <2>7. \A j \in Rules, O \in SUBSET Procs : j # i /\ Unknown(j, O) => Unknown(j, O)'
    BY <2>1, <2>5, <2>6 DEF Unknown
  <2>8. Unknown(i, Procs \ {p})'
    BY <2>1, <2>4, <2>5 DEF Unknown
  <2>9. RequestGated(p)'
    <3>1. Unknown(req[p].rule, Procs \ {p})'
      BY <2>1, <2>8 DEF Unknown
    <3>2. \A n \in req'[p].new : n.rule = req'[p].rule /\ n.epoch = req'[p].row.epoch
                                /\ SameGrant(n, req'[p].row)
      BY <2>1, <2>3
    <3>3. QED
      BY <2>1, <3>1, <3>2 DEF RequestGated, SameGrant
  <2>10. ASSUME NEW q \in Procs \ {p} PROVE RequestGated(q)'
    <3>1. RequestGated(q) /\ req'[q] = req[q] /\ \A z \in Procs \ {q} : req'[z].op = "patch" =>
              req[z].op = "patch" /\ req'[z].rule = req[z].rule
      BY <2>1
    <3>2. req[q].op = "create" => req[q].rule \in Rules /\ req[q].rule # i
      BY <2>4, RequestTypes DEF Unknown, Mentions, OnRule
    <3>3. req[q].op = "create" => Unknown(req[q].rule, Procs \ {q})'
      BY <2>7, <3>1, <3>2, Procs \ {q} \in SUBSET Procs DEF RequestGated
    <3>4. \A j, x : Gated(j, x)' <=> Gated(j, x)
      BY <2>1 DEF Gated
    <3>5. QED
      BY <2>1, <3>1, <3>3, <3>4 DEF RequestGated
  <2>11. \A j \in Rules : j >= i + 1 => Unknown(j, Procs)'
    BY <2>0, <2>1, <2>7 DEF Rules
  <2>12. \A s \in share' : s.rule # Manual => Gated(s.rule, s)'
    BY <2>1 DEF Gated
  <2>13. QED
    BY <2>0, <2>1, <2>9, <2>10, <2>11, <2>12
<1>2. ASSUME CreateRuleCommit(p)
      PROVE  EpochInv'
  <2>0. PICK i \in Rules, row \in RuleRow, new \in SUBSET ShareRow :
            i = req[p].rule /\ row = req[p].row /\ new = req[p].new
    BY <1>2, RequestTypes DEF CreateRuleCommit
  <2>1. /\ req[p].op = "create"
        /\ req'[p] = Idle /\ \A q \in Procs \ {p} : req'[q] = req[q]
        /\ rule' = [rule EXCEPT ![i] = row] /\ nextRule' = nextRule
        /\ share' \subseteq share \cup new /\ undone' = undone
    BY <1>2, <2>0 DEF CreateRuleCommit, Finish, Insert
  <2>2. /\ Unknown(i, Procs \ {p})
        /\ \A n \in new : n.rule = i /\ n.epoch = row.epoch /\ SameGrant(n, row)
    BY <2>0, <2>1 DEF RequestGated
  <2>3. i < nextRule
    BY <2>0, <2>1 DEF Unknown, Mentions, OnRule, Rules
  <2>4. \A j \in Rules : \A x : j # i => (Gated(j, x)' <=> Gated(j, x))
    BY <2>1 DEF Gated
  <2>5. \A n \in new : Gated(i, n)'
    BY <2>1, <2>2 DEF Gated, SameGrant, RuleRow
  <2>6. \A s \in share : s.rule # i
    BY <2>2 DEF Unknown
  <2>7. \A s \in share' : s.rule # Manual => Gated(s.rule, s)'
    BY <2>1, <2>2, <2>4, <2>5, <2>6 DEF ShareRow
  <2>8. \A q \in Procs \ {p}, j \in Rules : Mentions(q, j)' <=> Mentions(q, j)
    BY <2>1 DEF Mentions, OnRule, New
  <2>9. \A j \in Rules : ~Mentions(p, j)'
    BY <2>1 DEF Mentions, OnRule, New, Idle
  <2>10. \A j \in Rules, O \in SUBSET Procs : j # i /\ Unknown(j, O) => Unknown(j, O)'
    BY <2>1, <2>2, <2>8, <2>9 DEF Unknown
  <2>11. RequestGated(p)'
    BY <2>1 DEF RequestGated, Idle
  <2>12. ASSUME NEW q \in Procs \ {p} PROVE RequestGated(q)'
    <3>1. RequestGated(q) /\ req'[q] = req[q] /\ ~Mentions(q, i)
      BY <2>1, <2>2 DEF Unknown
    <3>2. OnRule(q) => req[q].rule \in Rules /\ req[q].rule # i
      BY <3>1, RequestTypes DEF Mentions, OnRule
    <3>3. \A n \in New(q) : n.rule # i /\ n \in ShareRow
      BY <3>1, RequestTypes DEF Mentions, New
    <3>4. \A z \in Procs \ {q} : req'[z].op = "patch" =>
              req[z].op = "patch" /\ req'[z].rule = req[z].rule
      BY <2>1 DEF Idle
    <3>5. CASE req[q].op = "create"
      BY <2>10, <3>1, <3>2, <3>5 DEF RequestGated, OnRule
    <3>6. CASE req[q].op = "patch"
      BY <2>1, <3>1, <3>2, <3>4, <3>6 DEF RequestGated, OnRule
    <3>7. CASE req[q].op = "write"
      BY <2>4, <3>1, <3>3, <3>7 DEF RequestGated, New, ShareRow
    <3>8. CASE req[q].op \in {"recomputing", "recompute"}
      BY <2>4, <3>1, <3>2, <3>3, <3>8 DEF RequestGated, New, OnRule
    <3>9. QED
      BY <3>1, <3>5, <3>6, <3>7, <3>8 DEF RequestGated
  <2>13. \A j \in Rules : j >= nextRule' => Unknown(j, Procs)'
    BY <2>1, <2>3, <2>10 DEF Rules
  <2>14. QED
    BY <2>7, <2>11, <2>12, <2>13
<1>3. QED
  BY <1>1, <1>2

\* A rule that is gone or at a higher epoch leaves every computed grant gated, and so does
\* one that is set back at its epoch.
LEMMA GatedStays ==
    ASSUME EpochInv, NEW i \in Rules, rule[i] # None,
           \/ rule'[i] = None
           \/ rule'[i].epoch \in Nat /\ rule'[i].epoch > rule[i].epoch
           \/ rule'[i].epoch = rule[i].epoch /\ i \in undone'
           \/ rule'[i] = rule[i] /\ undone' = undone
    PROVE  \A x : x.epoch \in Nat /\ Gated(i, x) => Gated(i, x)'
BY DEF EpochInv, TypeOK, Gated, RuleRow

\* The steps that change the row of a rule somebody may hold a snapshot of.
LEMMA RuleChange ==
    ASSUME EpochInv, TypeOK', NEW p \in Procs, NEW i \in Rules,
           req[p].op # "create", req'[p] = Idle,
           \A q \in Procs \ {p} : req'[q] = req[q],
           nextRule' = nextRule, i < nextRule,
           \A j \in Rules : j # i => rule'[j] = rule[j],
           \A j \in Rules : j # i => (j \in undone' <=> j \in undone),
           rule[i] # None,
           \A x : x.epoch \in Nat /\ Gated(i, x) => Gated(i, x)',
           \A q \in Procs \ {p} : req[q].op = "patch" => req[q].rule # i,
           \A s \in share' : s \in share \/ (s.rule = i /\ Gated(i, s)')
    PROVE  EpochInv'
<1> USE DEF EpochInv, TypeOK
<1>1. \A x : x.epoch \in Nat /\ Gated(i, x) => Gated(i, x)'
  OBVIOUS
<1>2. \A j \in Rules : \A x : j # i => (Gated(j, x)' <=> Gated(j, x))
  BY DEF Gated
<1>3. \A s \in share' : s.rule # Manual => Gated(s.rule, s)'
  <2>1. ASSUME NEW s \in share', s.rule # Manual PROVE Gated(s.rule, s)'
    <3>1. s \in ShareRow /\ s.rule \in Rules /\ s.epoch \in Nat
      BY <2>1 DEF ShareRow
    <3>2. CASE s \in share
      BY <1>1, <1>2, <2>1, <3>1, <3>2
    <3>3. CASE s.rule = i /\ Gated(i, s)'
      BY <3>3 DEF Gated
    <3>4. QED
      BY <3>2, <3>3
  <2>2. QED
    BY <2>1
<1>4. \A q \in Procs \ {p}, j \in Rules : Mentions(q, j)' <=> Mentions(q, j)
  BY DEF Mentions, OnRule, New
<1>5. \A j \in Rules : ~Mentions(p, j)'
  BY DEF Mentions, OnRule, New, Idle
<1>6. \A j \in Rules, O \in SUBSET Procs : Unknown(j, O) => j # i /\ Unknown(j, O)'
  BY <1>4, <1>5 DEF Unknown
<1>7. RequestGated(p)'
  BY DEF RequestGated, Idle
<1>8. ASSUME NEW q \in Procs \ {p} PROVE RequestGated(q)'
  <2>1. RequestGated(q) /\ req'[q] = req[q]
    OBVIOUS
  <2>2. OnRule(q) => req[q].rule \in Rules
    BY RequestTypes DEF OnRule
  <2>3. \A n \in New(q) : n \in ShareRow
    BY RequestTypes DEF New
  <2>4. \A n \in New(q) : n.rule # Manual /\ Gated(n.rule, n) => Gated(n.rule, n)'
    BY <1>1, <1>2, <2>3 DEF ShareRow
  <2>5. \A z \in Procs \ {q} : req'[z].op = "patch" =>
            req[z].op = "patch" /\ req'[z].rule = req[z].rule
    BY DEF Idle
  <2>6. CASE req[q].op = "create"
    BY <1>6, <2>1, <2>2, <2>6, Procs \ {q} \in SUBSET Procs DEF RequestGated, OnRule
  <2>7. CASE req[q].op = "patch"
    BY <2>1, <2>2, <2>5, <2>7 DEF RequestGated, OnRule
  <2>8. CASE req[q].op = "write"
    BY <2>1, <2>4, <2>8 DEF RequestGated, New
  <2>9. CASE req[q].op \in {"recomputing", "recompute"}
    <3>1. req[q].row \in RuleRow /\ req[q].rule \in Rules /\ req[q].rule # Manual
      BY <2>9, RequestTypes, BoundsAssumption DEF Rules, Manual
    <3>2. Gated(req[q].rule, req[q].row)'
      BY <1>1, <1>2, <2>1, <2>9, <3>1 DEF RequestGated, RuleRow
    <3>3. QED
      BY <2>1, <2>4, <2>9, <3>1, <3>2 DEF RequestGated, New
  <2>10. QED
    BY <2>1, <2>6, <2>7, <2>8, <2>9 DEF RequestGated
<1>9. \A j \in Rules : j >= nextRule' => Unknown(j, Procs)'
  BY <1>6 DEF Rules
<1>10. QED
  BY <1>3, <1>7, <1>8, <1>9

\* Patches and deletions of rules keep the epoch invariant.
LEMMA PatchStep ==
    ASSUME EpochInv, TypeOK', NEW p \in Procs
    PROVE  /\ (\E i \in Rules, b \in Patches : PatchRead(p, i, b)) => EpochInv'
           /\ PatchWrite(p) => EpochInv'
           /\ PatchCommit(p) => EpochInv'
           /\ (\E i \in Rules : DeleteRule(p, i)) => EpochInv'
<1> USE DEF EpochInv, TypeOK
<1>0. \A i \in Rules : rule[i] # None => i < nextRule
  BY DEF Unknown, Rules
<1>1. ASSUME NEW i \in Rules, NEW b \in Patches, PatchRead(p, i, b)
      PROVE  EpochInv'
  <2>1. /\ req'[p].op = "patching" /\ req'[p].rule = i /\ rule[i] # None
        /\ rule' = rule /\ undone' = undone /\ share' = share /\ nextRule' = nextRule
        /\ \A q \in Procs \ {p} : req'[q] = req[q]
    BY <1>1 DEF PatchRead, Begin
  <2>2. RequestGated(p)'
    BY <2>1 DEF RequestGated
  <2>3. \A j \in Rules : Mentions(p, j)' => rule[j] # None
    BY <2>1 DEF Mentions, OnRule, New
  <2>4. QED
    BY <2>1, <2>2, <2>3, KeptShares, QuietStep
<1>2. ASSUME PatchWrite(p)
      PROVE  EpochInv'
  <2>1. PICK i \in Rules, old \in RuleRow, b \in Patches :
            i = req[p].rule /\ old = req[p].existing /\ b = req[p].body
    BY <1>2, RequestTypes DEF PatchWrite
  <2>2. rule[i] # None /\ ~LockedRule(i)
    BY <1>2, <2>1 DEF PatchWrite
  <2> DEFINE row == Patched(i, old, b)
             new == IF row.active /\ ~IsEmpty(b) THEN Materialized(i, row, 0, AutoLimit) ELSE {}
  <2>3. /\ req'[p].op = "patch" /\ req'[p].rule = i /\ req'[p].row = row
        /\ req'[p].new = new /\ (req'[p].bump = 0 => IsEmpty(b))
        /\ rule' = rule /\ undone' = undone /\ share' = share /\ nextRule' = nextRule
        /\ \A q \in Procs \ {p} : req'[q] = req[q]
    BY <1>2, <2>1, <2>2 DEF PatchWrite
  <2>4. row \in RuleRow /\ row.epoch = rule[i].epoch
    BY <2>2, PatchedType
  <2>5. \A n \in new : n.rule = i /\ n.epoch = row.epoch
    BY <2>4, MaterializedType
  <2>6. \A q \in Procs \ {p} : req[q].op = "patch" => req[q].rule # i
    BY <2>2 DEF LockedRule
  <2>7. RequestGated(p)'
    BY <2>2, <2>3, <2>4, <2>5, <2>6 DEF RequestGated
  <2>8. \A j \in Rules : Mentions(p, j)' => rule[j] # None
    BY <2>2, <2>3, <2>5 DEF Mentions, OnRule, New
  <2>9. QED
    BY <2>3, <2>6, <2>7, <2>8, KeptShares, QuietStep
<1>3. ASSUME PatchCommit(p)
      PROVE  EpochInv'
  <2>1. PICK i \in Rules, row \in RuleRow, new \in SUBSET ShareRow :
            i = req[p].rule /\ row = req[p].row /\ new = req[p].new
    BY <1>3, RequestTypes DEF PatchCommit, Bumped
  <2>2. /\ rule[i] # None /\ row.epoch = rule[i].epoch /\ req[p].bump \in {0, 1}
        /\ req[p].bump = 0 => new = {}
        /\ \A n \in new : n.rule = i /\ n.epoch = row.epoch
        /\ \A q \in Procs \ {p} : req[q].op = "patch" => req[q].rule # i
        /\ req[p].op = "patch"
    BY <1>3, <2>1, RequestTypes DEF PatchCommit, RequestGated
  <2>3. /\ rule' = [rule EXCEPT ![i] = Bumped(req[p])] /\ undone' = SetBack(req[p])
        /\ share' \subseteq share \cup new /\ nextRule' = nextRule
        /\ req'[p] = Idle /\ \A q \in Procs \ {p} : req'[q] = req[q]
    BY <1>3, <2>1, <2>2 DEF PatchCommit, Finish, Insert
  <2>4. /\ \A j \in Rules : j # i => rule'[j] = rule[j] /\ (j \in undone' <=> j \in undone)
        /\ rule'[i] = Bumped(req[p])
    BY <2>1, <2>3 DEF SetBack
  <2>5. /\ row.epoch \in Nat /\ Bumped(req[p]).epoch = row.epoch + req[p].bump
        /\ req[p].bump = 0 => Bumped(req[p]) = row
    BY <2>1, <2>2 DEF RuleRow, Bumped
  <2>6. CASE req[p].bump = 1
    <3>1. rule'[i].epoch \in Nat /\ rule'[i].epoch > rule[i].epoch
      BY <2>2, <2>4, <2>5, <2>6
    <3>2. \A x : x.epoch \in Nat /\ Gated(i, x) => Gated(i, x)'
      BY <2>2, <3>1, GatedStays
    <3>3. \A n \in new : n.rule = i /\ Gated(i, n)'
      BY <2>2, <2>5, <3>1 DEF Gated
    <3>4. QED
      BY <1>0, <2>2, <2>3, <2>4, <3>2, <3>3, RuleChange
  <2>7. CASE req[p].bump = 0
    <3>1. /\ rule'[i] = row
          /\ i \in undone' \/ (rule'[i] = rule[i] /\ undone' = undone)
      BY <2>1, <2>2, <2>3, <2>4, <2>5, <2>7 DEF SetBack
    <3>2. \A x : x.epoch \in Nat /\ Gated(i, x) => Gated(i, x)'
      BY <2>2, <3>1, GatedStays
    <3>3. QED
      BY <1>0, <2>2, <2>3, <2>4, <2>7, <3>2, RuleChange
  <2>8. QED
    BY <2>2, <2>6, <2>7
<1>4. ASSUME NEW i \in Rules, DeleteRule(p, i)
      PROVE  EpochInv'
  <2>1. /\ req[p] = Idle /\ req' = req /\ rule[i] # None /\ nextRule' = nextRule
        /\ rule' = [rule EXCEPT ![i] = None] /\ share' \subseteq share /\ undone' = undone
    BY <1>4 DEF DeleteRule
  <2>2. \A q \in Procs : req[q].op = "patch" => req[q].rule # i
    BY <1>4 DEF DeleteRule, LockedRule
  <2>3. /\ rule'[i] = None /\ \A j \in Rules : j # i => rule'[j] = rule[j]
        /\ req[p].op # "create" /\ req'[p] = Idle /\ \A s \in share' : s \in share
    BY <2>1 DEF Idle
  <2>4. \A x : x.epoch \in Nat /\ Gated(i, x) => Gated(i, x)'
    BY <2>1, <2>3, GatedStays
  <2>5. QED
    BY <1>0, <2>1, <2>2, <2>3, <2>4, RuleChange
<1>5. QED
  BY <1>1, <1>2, <1>3, <1>4

\* Every step keeps the epoch invariant.
LEMMA InvStep == EpochInv /\ [Next]_vars => EpochInv'
<1> SUFFICES ASSUME EpochInv, [Next]_vars PROVE EpochInv'
  OBVIOUS
<1>1. TypeOK'
  BY TypeStep DEF EpochInv
<1>2. ASSUME NEW p \in Procs,
             \/ \E r \in Records, d \in Docs : WriteBegin(p, r, d)
             \/ WriteCommit(p)
             \/ \E r \in Records : DeleteRecord(p, r)
      PROVE  EpochInv'
  BY <1>1, <1>2, WriteStep
<1>3. ASSUME NEW p \in Procs,
             \/ \E c \in Conds, u \in Principals, a \in Accesses : CreateRuleBegin(p, c, u, a)
             \/ CreateRuleCommit(p)
      PROVE  EpochInv'
  BY <1>1, <1>3, CreateStep
<1>4. ASSUME NEW p \in Procs,
             \/ \E i \in Rules, b \in Patches : PatchRead(p, i, b)
             \/ PatchWrite(p) \/ PatchCommit(p)
             \/ \E i \in Rules : DeleteRule(p, i)
      PROVE  EpochInv'
  BY <1>1, <1>4, PatchStep
<1>5. ASSUME NEW p \in Procs,
             \/ \E i \in Rules, from \in Records \cup {0}, limit \in Limits :
                    RecomputeRead(p, i, from, limit)
             \/ RecomputeScan(p) \/ RecomputeCommit(p)
      PROVE  EpochInv'
  BY <1>1, <1>5, RecomputeStep
<1>6. ASSUME NEW p \in Procs,
             \/ \E r \in Records, u \in Principals, a \in Accesses : GrantCheck(p, r, u, a)
             \/ GrantCommit(p)
             \/ \E s \in share : RevokeManual(p, s)
             \/ Rollback(p)
      PROVE  EpochInv'
  BY <1>1, <1>6, ManualStep
<1>7. CASE UNCHANGED vars
  BY <1>1, <1>7 DEF vars, EpochInv, Gated, RequestGated, Unknown, Mentions, OnRule, New
<1>8. QED
  BY <1>2, <1>3, <1>4, <1>5, <1>6, <1>7 DEF Next

-----------------------------------------------------------------------------
\* Every reachable state is well typed, whatever the admin sends.
THEOREM TypeCorrect == Spec => []TypeOK
BY TypeInit, TypeStep, PTL DEF Spec

\* An epoch number of a rule names one definition of it, in the table and in every request
\* under way, as long as no empty PATCH has set the rule back since it was last edited
\* (bump_epoch, update_share_rule).
THEOREM EpochsDefine == Spec => []EpochInv
BY InvInit, InvStep, PTL DEF Spec

\* Revoke safety: a rule share that the read predicate honors was computed from the
\* rule's present condition and names its present principal - for any number of
\* requests in progress at once, but for a rule that an empty PATCH has set back.
THEOREM RevokeSafety == Spec => []RevokeSafe
<1>1. EpochInv => RevokeSafe
  BY DEF EpochInv, RevokeSafe, Honored, Gated, SameGrant
<1>2. QED
  BY <1>1, EpochsDefine, PTL

\* An epoch bump is final: whatever a rule share lost by an edit, a deactivation or the
\* deletion of its rule, no later edit and no re-activation brings back - for any
\* number of requests in progress at once.  The one step that does is the commit of an
\* empty PATCH that sets the rule back.
THEOREM RevocationFinal == Spec => RevokeIsFinal
<1>1. ASSUME EpochInv, [Next]_vars, NEW s \in share \cap share', ~Honored(s)
      PROVE  ~Honored(s)' \/ SetsBack(s.rule)
  <2> USE <1>1 DEF EpochInv
  <2>1. /\ s.rule # Manual /\ s.rule \in Rules /\ s.epoch \in Nat
        /\ Gated(s.rule, s) /\ s \in share
    BY DEF Honored, TypeOK, ShareRow
  <2>2. CASE rule' = rule
    BY <2>2 DEF Honored
  <2>3. ASSUME NEW p \in Procs, CreateRuleCommit(p)
        PROVE  ~Honored(s)' \/ SetsBack(s.rule)
    <3>1. req[p].op = "create" /\ rule' = [rule EXCEPT ![req[p].rule] = req[p].row]
      BY <2>3 DEF CreateRuleCommit
    <3>2. s.rule # req[p].rule
      BY <2>1, <3>1 DEF RequestGated, Unknown
    <3>3. rule'[s.rule] = rule[s.rule]
      BY <3>1, <3>2
    <3>4. QED
      BY <3>3 DEF Honored
  <2>4. ASSUME NEW p \in Procs, PatchCommit(p)
        PROVE  ~Honored(s)' \/ SetsBack(s.rule)
    <3> DEFINE i == req[p].rule
    <3>1. /\ req[p].op = "patch" /\ i \in Rules /\ req[p].row \in RuleRow
          /\ rule[i] # None /\ req[p].row.epoch = rule[i].epoch /\ req[p].bump \in {0, 1}
          /\ rule' = [rule EXCEPT ![i] = Bumped(req[p])] /\ undone' = SetBack(req[p])
      BY <2>4, RequestTypes DEF PatchCommit, RequestGated, TypeOK
    <3>2. CASE s.rule # i
      BY <3>1, <3>2 DEF Honored
    <3>3. CASE s.rule = i /\ req[p].bump = 1
      <4>1. rule'[i].epoch = rule[i].epoch + 1 /\ rule[i].epoch \in Nat
        BY <3>1, <3>3 DEF TypeOK, Bumped, RuleRow
      <4>2. s.epoch <= rule[i].epoch
        BY <2>1, <3>1, <3>3 DEF Gated
      <4>3. s.epoch # rule'[i].epoch
        BY <2>1, <4>1, <4>2
      <4>4. QED
        BY <2>1, <3>3, <4>3 DEF Honored
    <3>4. CASE s.rule = i /\ req[p].bump = 0 /\ req[p].row = rule[i]
      BY <3>1, <3>4 DEF Honored, Bumped, TypeOK, RuleRow
    <3>5. CASE s.rule = i /\ req[p].bump = 0 /\ req[p].row # rule[i]
      BY <2>4, <3>1, <3>5 DEF SetsBack, SetBack
    <3>6. QED
      BY <3>1, <3>2, <3>3, <3>4, <3>5
  <2>5. ASSUME NEW p \in Procs, NEW i \in Rules, DeleteRule(p, i)
        PROVE  ~Honored(s)' \/ SetsBack(s.rule)
    BY <2>1, <2>5 DEF DeleteRule, Honored, TypeOK
  <2>6. rule' = rule \/ \E p \in Procs : \/ CreateRuleCommit(p) \/ PatchCommit(p)
                                         \/ \E i \in Rules : DeleteRule(p, i)
    BY DEF Next, WriteBegin, WriteCommit, DeleteRecord, CreateRuleBegin, PatchRead,
           PatchWrite, RecomputeRead, RecomputeScan, RecomputeCommit, GrantCheck,
           GrantCommit, RevokeManual, Rollback, vars
  <2>7. QED
    BY <2>2, <2>3, <2>4, <2>5, <2>6
<1>2. EpochInv /\ [Next]_vars =>
          [\A s \in share \cap share' :
              ~Honored(s) => ~Honored(s)' \/ SetsBack(s.rule)]_vars
  BY <1>1
<1>3. QED
  BY <1>2, EpochsDefine, PTL DEF Spec, RevokeIsFinal

-----------------------------------------------------------------------------
(* Manual shares *)

\* Of two matching rules for one principal only the foremost one's row is inserted.
LEMMA RecomputedKeys ==
    ASSUME TypeOK, NEW r \in Records, NEW d \in Docs
    PROVE  OneRowPerKey(Recomputed(r, d))
<1> DEFINE matching == {i \in ActiveRules : d \in rule[i].cond}
           Foremost(i) == \A j \in matching : rule[j].principal = rule[i].principal => i <= j
<1>1. ASSUME NEW i \in matching, NEW j \in matching, Foremost(i), Foremost(j),
             rule[i].principal = rule[j].principal
      PROVE  i = j
  <2>1. i <= j /\ j <= i /\ i \in Nat /\ j \in Nat
    BY <1>1, BoundsAssumption DEF ActiveRules, Rules
  <2>2. QED
    BY <2>1
<1>2. ASSUME NEW s \in Recomputed(r, d)
      PROVE  \E i \in matching : Foremost(i) /\ s = RuleShare(r, i, rule[i])
  BY <1>2 DEF Recomputed
<1>3. \A i, j : Key(RuleShare(r, i, rule[i])) = Key(RuleShare(r, j, rule[j]))
                    => rule[i].principal = rule[j].principal
  BY DEF Key, RuleShare
<1>4. ASSUME NEW s \in Recomputed(r, d), NEW t \in Recomputed(r, d), Key(s) = Key(t)
      PROVE  s = t
  <2>1. PICK i \in matching : Foremost(i) /\ s = RuleShare(r, i, rule[i])
    BY <1>2
  <2>2. PICK j \in matching : Foremost(j) /\ t = RuleShare(r, j, rule[j])
    BY <1>2
  <2>3. rule[i].principal = rule[j].principal
    BY <1>3, <1>4, <2>1, <2>2
  <2>4. QED
    BY <1>1, <2>1, <2>2, <2>3
<1>5. QED
  BY <1>4 DEF OneRowPerKey

\* A materialization adds one row for each record.
LEMMA MaterializedKeys ==
    ASSUME NEW i, NEW row, NEW from, NEW limit
    PROVE  OneRowPerKey(Materialized(i, row, from, limit))
BY DEF OneRowPerKey, Materialized, RuleShare, Key

\* ON CONFLICT DO NOTHING keeps the index unique, and adds rows of rules only.
LEMMA InsertKeys ==
    ASSUME NEW base, NEW new, OneRowPerKey(base), OneRowPerKey(new),
           \A n \in new : n.rule # Manual
    PROVE  /\ OneRowPerKey(Insert(base, new))
           /\ base \subseteq Insert(base, new)
           /\ \A s \in Insert(base, new) : s \in base \/ s.rule # Manual
BY DEF OneRowPerKey, Insert, Keys

\* What a handler's DELETE has found is there until some commit takes it away, which
\* every other handler's DELETE then forgets.
LEMMA GoneStays ==
    ASSUME KeyInv, NEW q \in Procs, NEW taken, NEW kept,
           kept \subseteq gone[q] \ taken,
           \A s \in share \ ManualShares : Key(s) \in taken \/
               \E t \in share' : Key(t) = Key(s) /\ t.rule # Manual
    PROVE  kept \subseteq Keys(share' \ ManualShares')
<1>1. ASSUME NEW k \in kept
      PROVE  \E t \in share' : Key(t) = k /\ t.rule # Manual
  <2>1. PICK s \in share \ ManualShares : Key(s) = k
    BY <1>1 DEF KeyInv, Keys
  <2>2. QED
    BY <2>1, <1>1
<1>2. QED
  BY <1>1 DEF Keys, ManualShares

\* There is no share at first.
LEMMA KeyInit == Init => KeyInv
<1> SUFFICES ASSUME Init PROVE KeyInv
  OBVIOUS
<1>1. TypeOK
  BY TypeInit
<1>2. \A p \in Procs : New(p) = {} /\ gone[p] = {}
  BY DEF Init, New, Idle
<1>3. QED
  BY <1>1, <1>2 DEF KeyInv, OneRowPerKey, Init

\* The steps that begin a request: nothing is written, and what the DELETE finds are
\* rows of rules.
LEMMA KeyQuiet ==
    ASSUME KeyInv, TypeOK', NEW p \in Procs, share' = share,
           \A q \in Procs \ {p} : req'[q] = req[q] /\ gone'[q] = gone[q],
           OneRowPerKey(New(p)'), \A n \in New(p)' : n.rule # Manual,
           gone'[p] \subseteq Keys(share \ ManualShares)
    PROVE  KeyInv'
<1>1. (Keys(share \ ManualShares))' = Keys(share \ ManualShares)
  BY DEF Keys, Key, ManualShares
<1>2. \A q \in Procs \ {p} : New(q)' = New(q)
  BY DEF New
<1>3. OneRowPerKey(share)' <=> OneRowPerKey(share)
  BY DEF OneRowPerKey, Key
<1>4. ASSUME NEW q \in Procs
      PROVE  /\ OneRowPerKey(New(q)) => OneRowPerKey(New(q))'
             /\ gone'[q] \subseteq (Keys(share \ ManualShares))'
             /\ OneRowPerKey(New(q))' /\ \A n \in New(q)' : n.rule # Manual
  <2>1. CASE q = p
    BY <1>1, <2>1 DEF OneRowPerKey, Key
  <2>2. CASE q # p
    BY <1>1, <1>2, <2>2 DEF OneRowPerKey, Key, KeyInv
  <2>3. QED
    BY <2>1, <2>2
<1>5. QED
  BY <1>3, <1>4 DEF KeyInv, Manual

\* The commits: what a handler's DELETE found is gone, with "taken" forgotten by the
\* others, and rows of rules are inserted that meet no conflict.
LEMMA KeyCommit ==
    ASSUME KeyInv, TypeOK', NEW p \in Procs, NEW taken, NEW base, NEW new,
           base \subseteq share, \A s \in share : s \in base \/ Key(s) \in taken,
           OneRowPerKey(new), \A n \in new : n.rule # Manual,
           share' = Insert(base, new),
           req' = [req EXCEPT ![p] = Idle] \/ (req' = req /\ req[p] = Idle),
           \A q \in Procs : gone'[q] \subseteq gone[q] \ taken
    PROVE  KeyInv'
<1>1. OneRowPerKey(base)
  BY DEF KeyInv, OneRowPerKey
<1>2. OneRowPerKey(share')
  BY <1>1, InsertKeys
<1>3. ASSUME NEW s \in share \ ManualShares
      PROVE  Key(s) \in taken \/ \E t \in share' : Key(t) = Key(s) /\ t.rule # Manual
  BY <1>1, InsertKeys DEF ManualShares
<1>4. ASSUME NEW q \in Procs PROVE gone'[q] \subseteq Keys(share' \ ManualShares')
  BY <1>3, GoneStays
<1>5. ASSUME NEW q \in Procs
      PROVE  OneRowPerKey(New(q)') /\ \A n \in New(q)' : n.rule # Manual
  <2>1. New(q)' = New(q) \/ New(q)' = {}
    BY DEF KeyInv, TypeOK, New, Idle
  <2>2. QED
    BY <2>1 DEF KeyInv, OneRowPerKey
<1>6. QED
  <2>1. \A S : OneRowPerKey(S) <=> \A s, t \in S : Key(s) = Key(t) => s = t
    BY DEF OneRowPerKey
  <2>2. OneRowPerKey(share)'
    BY <1>2, <2>1 DEF OneRowPerKey, Key
  <2>3. ASSUME NEW q \in Procs
        PROVE  /\ OneRowPerKey(New(q))'
               /\ (gone[q] \subseteq Keys(share \ ManualShares))'
               /\ (\A n \in New(q) : n.rule # Manual)'
    BY <1>4, <1>5 DEF OneRowPerKey, Key, Keys, ManualShares, Manual
  <2>4. QED
    BY <2>2, <2>3 DEF KeyInv

\* Every step keeps the shares' keys unique.
LEMMA KeyStep == KeyInv /\ [Next]_vars => KeyInv'
<1> SUFFICES ASSUME KeyInv, [Next]_vars PROVE KeyInv'
  OBVIOUS
<1>a. TypeOK /\ TypeOK'
  BY TypeStep DEF KeyInv
<1>b. OneRowPerKey({}) /\ \A i \in Rules : i # Manual
  BY BoundsAssumption DEF OneRowPerKey, Rules, Manual
<1>c. \A p \in Procs : /\ OneRowPerKey(New(p)) /\ \A n \in New(p) : n.rule # Manual
                     /\ gone[p] \subseteq Keys(share \ ManualShares)
  BY DEF KeyInv
<1>0. /\ TypeOK /\ TypeOK' /\ OneRowPerKey({}) /\ \A i \in Rules : i # Manual
      /\ \A p \in Procs : /\ OneRowPerKey(New(p)) /\ \A n \in New(p) : n.rule # Manual
                          /\ gone[p] \subseteq Keys(share \ ManualShares)
  BY <1>a, <1>b, <1>c
<1>1. ASSUME NEW p \in Procs, NEW r \in Records, NEW d \in Docs, WriteBegin(p, r, d)
      PROVE  KeyInv'
  <2>1. /\ New(p)' = Recomputed(r, d) /\ share' = share
        /\ \A q \in Procs \ {p} : req'[q] = req[q] /\ gone'[q] = gone[q]
    BY <1>0, <1>1 DEF TypeOK, WriteBegin, Begin, New
  <2>2. OneRowPerKey(Recomputed(r, d)) /\ \A n \in Recomputed(r, d) : n.rule # Manual
    BY <1>0, RecomputedKeys, RecomputedType
  <2>3. gone'[p] \subseteq Keys(share \ ManualShares)
    BY <1>0, <1>1 DEF TypeOK, WriteBegin, RuleSharesOf, Keys, ManualShares
  <2>4. QED
    BY <1>0, <2>1, <2>2, <2>3, KeyQuiet
<1>2. ASSUME NEW p \in Procs, WriteCommit(p)
      PROVE  KeyInv'
  <2> DEFINE base == {s \in share : Key(s) \notin gone[p]}
  <2>1. /\ share' = Insert(base, New(p)) /\ req' = [req EXCEPT ![p] = Idle]
        /\ \A q \in Procs : gone'[q] \subseteq gone[q] \ gone[p]
    BY <1>0, <1>2 DEF TypeOK, WriteCommit, Finish, Forget, New
  <2>2. base \subseteq share /\ \A s \in share : s \in base \/ Key(s) \in gone[p]
    OBVIOUS
  <2>3. QED
    BY <1>0, <2>1, <2>2, KeyCommit
<1>3. ASSUME NEW p \in Procs, NEW r \in Records, DeleteRecord(p, r)
      PROVE  KeyInv'
  <2> DEFINE taken == {r} \X Principals
  <2>1. /\ share' = Insert(DropRecordShares(r), {}) /\ req' = req /\ req[p] = Idle
        /\ \A q \in Procs : gone'[q] \subseteq gone[q] \ taken
    BY <1>0, <1>3 DEF TypeOK, DeleteRecord, Forget, Insert
  <2>2. /\ DropRecordShares(r) \subseteq share
        /\ \A s \in share : s \in DropRecordShares(r) \/ Key(s) \in taken
    BY <1>0 DEF TypeOK, DropRecordShares, Key, ShareRow
  <2>3. QED
    BY <1>0, <2>1, <2>2, KeyCommit
<1>4. ASSUME NEW p \in Procs, NEW c \in Conds, NEW u \in Principals, NEW a \in Accesses,
             CreateRuleBegin(p, c, u, a)
      PROVE  KeyInv'
  <2> DEFINE row == [cond |-> c, principal |-> u, access |-> a, epoch |-> 1, active |-> TRUE]
             new == Materialized(nextRule, row, 0, AutoLimit)
  <2>1. /\ New(p)' = new /\ share' = share /\ gone' = gone /\ nextRule \in Rules
        /\ \A q \in Procs \ {p} : req'[q] = req[q]
    BY <1>0, <1>4 DEF TypeOK, CreateRuleBegin, Begin, New
  <2>2. row \in RuleRow
    BY DEF RuleRow
  <2>3. OneRowPerKey(new)
    BY MaterializedKeys
  <2>4. \A n \in new : n.rule # Manual
    BY <1>0, <2>1, <2>2, MaterializedType
  <2> HIDE DEF new
  <2>5. QED
    BY <1>0, <2>1, <2>3, <2>4, KeyQuiet
<1>5. ASSUME NEW p \in Procs, CreateRuleCommit(p) \/ RecomputeCommit(p)
      PROVE  KeyInv'
  <2>1. /\ share' = Insert(share, New(p)) /\ req' = [req EXCEPT ![p] = Idle] /\ gone' = gone
    BY <1>0, <1>5 DEF TypeOK, CreateRuleCommit, RecomputeCommit, Finish, New
  <2>2. share \subseteq share /\ \A q \in Procs : gone'[q] \subseteq gone[q] \ {}
    BY <2>1
  <2>3. QED
    BY <1>0, <2>1, <2>2, KeyCommit
<1>6. ASSUME NEW p \in Procs,
             \/ \E i \in Rules, b \in Patches : PatchRead(p, i, b)
             \/ \E i \in Rules, from \in Records \cup {0}, limit \in Limits :
                    RecomputeRead(p, i, from, limit)
             \/ \E r \in Records, u \in Principals, a \in Accesses : GrantCheck(p, r, u, a)
      PROVE  KeyInv'
  <2>1. /\ New(p)' = {} /\ share' = share /\ gone' = gone
        /\ \A q \in Procs \ {p} : req'[q] = req[q]
    BY <1>0, <1>6 DEF TypeOK, PatchRead, RecomputeRead, GrantCheck, Begin, New
  <2>2. QED
    BY <1>0, <2>1, KeyQuiet
<1>7. ASSUME NEW p \in Procs, PatchWrite(p)
      PROVE  KeyInv'
  <2>1. PICK i \in Rules, old \in RuleRow, b \in Patches :
            i = req[p].rule /\ old = req[p].existing /\ b = req[p].body
    BY <1>0, <1>7, RequestTypes DEF TypeOK, PatchWrite
  <2> DEFINE row == Patched(i, old, b)
             new == Materialized(i, row, 0, AutoLimit)
  <2>2. /\ New(p)' \subseteq new /\ share' = share /\ rule[i] # None
        /\ \A q \in Procs \ {p} : req'[q] = req[q] /\ gone'[q] = gone[q]
    BY <1>0, <1>7, <2>1 DEF TypeOK, PatchWrite, New
  <2>3. row \in RuleRow
    BY <1>0, <2>2, PatchedType
  <2>4. OneRowPerKey(New(p)') /\ \A n \in New(p)' : n.rule # Manual
    BY <1>0, <2>2, <2>3, MaterializedKeys, MaterializedType DEF OneRowPerKey
  <2>5. gone'[p] \subseteq Keys(share \ ManualShares)
    BY <1>0, <1>7, <2>1 DEF TypeOK, PatchWrite, OfRule, Keys, ManualShares
  <2>6. QED
    BY <1>0, <2>2, <2>4, <2>5, KeyQuiet
<1>8. ASSUME NEW p \in Procs, PatchCommit(p)
      PROVE  KeyInv'
  <2> DEFINE base == {s \in share : Key(s) \notin gone[p]}
  <2>1. /\ share' = Insert(base, New(p)) /\ req' = [req EXCEPT ![p] = Idle]
        /\ \A q \in Procs : gone'[q] \subseteq gone[q] \ gone[p]
    BY <1>0, <1>8 DEF TypeOK, PatchCommit, Finish, Forget, New
  <2>2. base \subseteq share /\ \A s \in share : s \in base \/ Key(s) \in gone[p]
    OBVIOUS
  <2>3. QED
    BY <1>0, <2>1, <2>2, KeyCommit
<1>9. ASSUME NEW p \in Procs, NEW i \in Rules, DeleteRule(p, i)
      PROVE  KeyInv'
  <2>1. /\ share' = Insert(share \ OfRule(i), {}) /\ req' = req /\ req[p] = Idle
        /\ \A q \in Procs : gone'[q] \subseteq gone[q] \ Keys(OfRule(i))
    BY <1>0, <1>9 DEF TypeOK, DeleteRule, Forget, Insert
  <2>2. \A s \in share : s \in share \ OfRule(i) \/ Key(s) \in Keys(OfRule(i))
    BY DEF OfRule, Keys
  <2>3. QED
    BY <1>0, <2>1, <2>2, KeyCommit
<1>10. ASSUME NEW p \in Procs, RecomputeScan(p)
       PROVE  KeyInv'
  <2> DEFINE m   == req[p]
             new == Materialized(m.rule, m.row, m.from, m.limit)
  <2>1. /\ New(p)' = new /\ share' = share /\ gone' = gone /\ m.op = "recomputing"
        /\ \A q \in Procs \ {p} : req'[q] = req[q]
    BY <1>0, <1>10 DEF TypeOK, RecomputeScan, New
  <2>2. m.rule \in Rules /\ m.row \in RuleRow
    BY <1>0, <2>1, RequestTypes DEF TypeOK
  <2>3. OneRowPerKey(new)
    BY MaterializedKeys
  <2>4. \A n \in new : n.rule # Manual
    BY <1>0, <2>2, MaterializedType
  <2> HIDE DEF new
  <2>5. QED
    BY <1>0, <2>1, <2>3, <2>4, KeyQuiet
<1>11. ASSUME NEW p \in Procs, GrantCommit(p)
       PROVE  KeyInv'
  <2> DEFINE m     == req[p]
             hit   == {s \in share : Key(s) = <<m.rec, m.principal>>}
             added == [rec |-> m.rec, principal |-> m.principal, rule |-> Manual,
                       epoch |-> 0, access |-> m.access, cond |-> {}]
             same(s) == [s EXCEPT !.access = m.access]
  <2>1. /\ req' = [req EXCEPT ![p] = Idle] /\ gone' = gone /\ rule' = rule
        /\ share' = (share \ hit) \cup IF hit = {} THEN {added} ELSE {same(s) : s \in hit}
    BY <1>0, <1>11 DEF TypeOK, GrantCommit, Finish
  <2>2. \A s \in share : /\ Key(same(s)) = Key(s)
                         /\ same(s).rule = s.rule
    BY <1>0 DEF TypeOK, Key, ShareRow
  <2>3. Key(added) = <<m.rec, m.principal>>
    BY DEF Key
  <2>4. OneRowPerKey(share')
    <3>1. CASE hit = {}
      BY <2>1, <2>3, <3>1 DEF KeyInv, OneRowPerKey
    <3>2. CASE hit # {}
      BY <2>1, <2>2, <3>2 DEF KeyInv, OneRowPerKey
    <3>3. QED
      BY <3>1, <3>2
  <2>5. ASSUME NEW s \in share \ ManualShares
        PROVE  Key(s) \in {} \/ \E t \in share' : Key(t) = Key(s) /\ t.rule # Manual
    <3>1. s \in hit => same(s) \in share'
      BY <2>1
    <3>2. QED
      BY <2>1, <2>2, <2>5, <3>1 DEF ManualShares
  <2>6. \A q \in Procs : gone'[q] \subseteq Keys(share' \ ManualShares')
    <3> HIDE DEF hit, added, same
    <3>1. \A q \in Procs : gone'[q] \subseteq gone[q] \ {}
      BY <2>1
    <3>2. QED
      BY <2>5, <3>1, GoneStays
  <2>7. \A q \in Procs : New(q)' = New(q) \/ New(q)' = {}
    BY <1>0, <2>1 DEF TypeOK, New, Idle
  <2>8. OneRowPerKey(share)' /\ \A q \in Procs : OneRowPerKey(New(q))'
    BY <1>0, <2>4, <2>7 DEF OneRowPerKey, Key
  <2>9. \A q \in Procs : /\ \A n \in New(q)' : n.rule # Manual
                         /\ (gone[q] \subseteq Keys(share \ ManualShares))'
    BY <1>0, <2>6, <2>7 DEF Keys, Key, ManualShares
  <2>10. QED
    BY <1>0, <2>8, <2>9 DEF KeyInv, Manual
<1>12. ASSUME NEW p \in Procs, NEW s \in share, RevokeManual(p, s)
       PROVE  KeyInv'
  <2>1. /\ share' = Insert(share \ {s}, {}) /\ req' = req /\ req[p] = Idle
        /\ \A q \in Procs : gone'[q] \subseteq gone[q] \ {Key(s)}
    BY <1>0, <1>12 DEF TypeOK, RevokeManual, Forget, Insert
  <2>2. /\ share \ {s} \subseteq share
        /\ \A t \in share : t \in share \ {s} \/ Key(t) \in {Key(s)}
    OBVIOUS
  <2>3. QED
    BY <1>0, <2>1, <2>2, KeyCommit
<1>13. ASSUME NEW p \in Procs, Rollback(p)
       PROVE  KeyInv'
  <2>1. /\ New(p)' = {} /\ share' = share /\ gone'[p] = {}
        /\ \A q \in Procs \ {p} : req'[q] = req[q] /\ gone'[q] = gone[q]
    BY <1>0, <1>13 DEF TypeOK, Rollback, Finish, New, Idle
  <2>2. QED
    BY <1>0, <2>1, KeyQuiet
<1>14. CASE UNCHANGED vars
  BY <1>0, <1>14 DEF KeyInv, TypeOK, vars, OneRowPerKey, New, Key, Keys, ManualShares, Manual
<1>15. QED
  BY <1>1, <1>2, <1>3, <1>4, <1>5, <1>6, <1>7, <1>8, <1>9, <1>10, <1>11, <1>12, <1>13,
     <1>14 DEF Next

\* sec_record_share holds one row for each record and principal, and the rows that a
\* DELETE under way has found are rows of rules that are still there - whatever
\* requests are in progress.
THEOREM OneShareEach == Spec => []KeyInv
BY KeyInit, KeyStep, PTL DEF Spec

\* No commit of the rules' side - a recompute after a write, a materialization, an
\* edit, the cascade of a deletion - takes away a manual share or changes it, not even
\* one that was granted after the DELETE of that request had found its rows.
THEOREM ManualLeftAlone == Spec => RulesLeaveManualAlone
<1>1. ASSUME KeyInv, NEW p \in Procs,
             \/ WriteCommit(p) \/ CreateRuleCommit(p) \/ PatchCommit(p)
             \/ RecomputeCommit(p) \/ \E i \in Rules : DeleteRule(p, i)
      PROVE  ManualShares \subseteq share'
  <2>1. ASSUME NEW s \in ManualShares
        PROVE  Key(s) \notin gone[p]
    <3>1. \A t \in share \ ManualShares : Key(t) # Key(s)
      BY <1>1, <2>1 DEF KeyInv, OneRowPerKey, ManualShares
    <3>2. QED
      BY <1>1, <3>1 DEF KeyInv, Keys
  <2>2. CASE WriteCommit(p) \/ PatchCommit(p)
    BY <2>1, <2>2 DEF WriteCommit, PatchCommit, Insert, ManualShares
  <2>3. CASE CreateRuleCommit(p) \/ RecomputeCommit(p)
    BY <2>3 DEF CreateRuleCommit, RecomputeCommit, Insert, ManualShares
  <2>4. CASE \E i \in Rules : DeleteRule(p, i)
    BY <2>4, BoundsAssumption DEF DeleteRule, OfRule, ManualShares, Rules, Manual
  <2>5. QED
    BY <1>1, <2>2, <2>3, <2>4
<1>2. KeyInv =>
          [(\E p \in Procs : \/ WriteCommit(p) \/ CreateRuleCommit(p) \/ PatchCommit(p)
                             \/ RecomputeCommit(p) \/ \E i \in Rules : DeleteRule(p, i))
           => ManualShares \subseteq share']_vars
  BY <1>1
<1>3. QED
  BY <1>2, OneShareEach, PTL DEF Spec, RulesLeaveManualAlone
-----------------------------------------------------------------------------
(* What overlapping requests leave of the shares *)

\* Of the rules that match and name one principal there is a foremost one.
LEMMA RecomputedCovers ==
    ASSUME TypeOK, NEW r \in Records, NEW d \in Docs
    PROVE  /\ \A n \in Recomputed(r, d) : n.rec = r /\ d \in n.cond /\ Honored(n)
           /\ \A i \in ActiveRules : d \in rule[i].cond =>
                  \E n \in Recomputed(r, d) : n.principal = rule[i].principal
<1> DEFINE matching == {i \in ActiveRules : d \in rule[i].cond}
           Foremost(i) == \A j \in matching : rule[j].principal = rule[i].principal => i <= j
<1>1. Recomputed(r, d) = {RuleShare(r, i, rule[i]) : i \in {j \in matching : Foremost(j)}}
  BY DEF Recomputed
<1>2. matching \subseteq Nat /\ matching \subseteq ActiveRules
  BY BoundsAssumption DEF ActiveRules, Rules
<1>3. \A i \in ActiveRules : rule[i] \in RuleRow /\ i # Manual
  BY BoundsAssumption DEF ActiveRules, TypeOK, Rules, Manual
<1>4. ASSUME NEW n \in Recomputed(r, d)
      PROVE  n.rec = r /\ d \in n.cond /\ Honored(n)
  <2>1. PICK i \in matching : n = RuleShare(r, i, rule[i])
    BY <1>1, <1>4
  <2>2. i \in ActiveRules /\ rule[i] # None /\ rule[i].active
    BY DEF ActiveRules
  <2>3. QED
    BY <2>1, <2>2 DEF RuleShare, Honored
<1>5. ASSUME NEW i \in ActiveRules, d \in rule[i].cond
      PROVE  \E n \in Recomputed(r, d) : n.principal = rule[i].principal
  <2> DEFINE R    == OpToRel(<, Nat)
             same == {j \in matching : rule[j].principal = rule[i].principal}
  <2>1. IsWellFoundedOn(R, Nat)
    BY NatLessThanWellFounded
  <2>2. same \subseteq Nat /\ same # {}
    BY <1>2, <1>5
  <2> HIDE DEF R, same
  <2>3. PICK m \in same : \A j \in same : ~ (<<j, m>> \in R)
    BY <2>1, <2>2, WFMin
  <2>4. \A j \in same : m <= j
    <3>1. \A x, y \in Nat : <<x, y>> \in R <=> x < y
      BY DEF R, OpToRel
    <3>2. ASSUME NEW j \in same PROVE m <= j
      <4>1. m \in Nat /\ j \in Nat /\ ~(<<j, m>> \in R)
        BY <2>2, <2>3
      <4>2. ~(j < m)
        BY <3>1, <4>1
      <4>3. QED
        BY <4>1, <4>2
    <3>3. QED
      BY <3>2
  <2>5. m \in matching /\ Foremost(m) /\ rule[m].principal = rule[i].principal
    BY <2>4 DEF same
  <2> HIDE DEF matching, Foremost
  <2>6. RuleShare(r, m, rule[m]) \in Recomputed(r, d)
    BY <1>1, <2>5
  <2>7. QED
    BY <2>5, <2>6 DEF RuleShare
<1>6. QED
  BY <1>4, <1>5

\* A scan finds live records that match.
LEMMA MaterializedAsWritten ==
    ASSUME NEW i, NEW row, NEW from, NEW limit, NEW n \in Materialized(i, row, from, limit)
    PROVE  AsWritten(n) /\ n.rec \in Records
<1>1. PICK r \in Scanned(from, limit) : doc[r] \in row.cond /\ n = RuleShare(r, i, row)
  BY DEF Materialized
<1>2. r \in Records /\ doc[r] # None
  BY DEF Scanned
<1>3. n.rec = r /\ n.cond = row.cond
  BY <1>1 DEF RuleShare
<1>4. QED
  BY <1>1, <1>2, <1>3 DEF AsWritten

\* The steps that begin a request, look at records or roll back.
LEMMA RaceQuiet ==
    ASSUME RaceInv, KeyInv', NEW p \in Procs,
           share' = share, doc' = doc, rule' = rule, raced \subseteq raced',
           \A q \in Procs \ {p} : req'[q] = req[q] /\ gone'[q] = gone[q],
           RequestAsRead(p)', WriterAlone(p)',
           Materializing(p)' =>
               \A q \in Procs \ {p} : req[q].op = "write" => req[q].rec \in raced',
           req'[p].op = "write" =>
               \A q \in Procs \ {p} : req[q].op = "write" => req[q].rec # req'[p].rec
    PROVE  RaceInv'
<1>1. \A s : AsWritten(s)' <=> AsWritten(s)
  BY DEF AsWritten, Manual
<1>2. \A q \in Procs \ {p} : Materializing(q)' <=> Materializing(q)
  BY DEF Materializing
<1>3. ASSUME NEW q \in Procs \ {p} PROVE RequestAsRead(q)'
  BY <1>1, <1>2 DEF RaceInv, RequestAsRead
<1>4. ASSUME NEW q \in Procs \ {p} PROVE WriterAlone(q)'
  <2> SUFFICES ASSUME req[q].op = "write" PROVE WriterAlone(q)'
    BY DEF WriterAlone
  <2>1. \A o \in Procs \ {q} : req'[o].op = "write" => req'[o].rec # req'[q].rec
    BY DEF RaceInv, WriterAlone
  <2>2. /\ gone'[q] \subseteq {req'[q].rec} \X Principals
        /\ \A n \in req'[q].new :
              n.rec = req'[q].rec /\ n.rule # Manual /\ req'[q].doc \in n.cond
    BY DEF RaceInv, WriterAlone
  <2>3. ASSUME req'[q].rec \notin raced'
        PROVE  /\ \A o \in Procs : ~Materializing(o)'
               /\ (Keys(RuleSharesOf(req[q].rec)) \subseteq gone[q])'
               /\ (\A i \in ActiveRules : req[q].doc \in rule[i].cond =>
                     \E n \in req[q].new : /\ n.principal = rule[i].principal
                                           /\ rule[n.rule] = None \/ Honored(n))'
    <3>1. \A o \in Procs : ~Materializing(o)'
      BY <1>2, <2>3 DEF RaceInv, WriterAlone
    <3>2. (Keys(RuleSharesOf(req[q].rec)) \subseteq gone[q])'
      BY <2>3 DEF RaceInv, WriterAlone, Keys, Key, RuleSharesOf, Manual
    <3>3. (\A i \in ActiveRules : req[q].doc \in rule[i].cond =>
              \E n \in req[q].new : /\ n.principal = rule[i].principal
                                    /\ rule[n.rule] = None \/ Honored(n))'
      BY <2>3 DEF RaceInv, WriterAlone, ActiveRules, Honored, Manual
    <3>4. QED
      BY <3>1, <3>2, <3>3
  <2>4. QED
    BY <2>1, <2>2, <2>3 DEF WriterAlone, Manual
<1>5. QED
  BY <1>1, <1>3, <1>4 DEF RaceInv

\* A commit of a scan: whoever is writing a record races with it.
LEMMA RaceScanned ==
    ASSUME RaceInv, KeyInv', NEW p \in Procs, Materializing(p),
           doc' = doc, raced' = raced, req' = [req EXCEPT ![p] = Idle],
           share' \subseteq share \cup req[p].new,
           \A q \in Procs : gone'[q] \subseteq gone[q]
    PROVE  RaceInv'
<1>0. req \in [Procs -> Request]
  BY DEF RaceInv, KeyInv, TypeOK
<1>1. \A s : AsWritten(s)' <=> AsWritten(s)
  BY DEF AsWritten, Manual
<1>2. ASSUME NEW s \in share', s.rec \notin raced' PROVE AsWritten(s)'
  BY <1>1, <1>2 DEF RaceInv, RequestAsRead
<1>3. /\ req'[p].op = "idle" /\ p \in Procs
      /\ \A q \in Procs \ {p} : req'[q] = req[q]
  BY <1>0 DEF Idle
<1>4. ASSUME NEW q \in Procs PROVE RequestAsRead(q)' /\ WriterAlone(q)'
  <2>1. CASE q = p
    BY <1>3, <2>1 DEF RequestAsRead, WriterAlone, Materializing
  <2>2. CASE q # p
    <3>1. RequestAsRead(q)'
      BY <1>1, <1>3, <2>2 DEF RaceInv, RequestAsRead, Materializing
    <3>2. req[q].op = "write" => req[q].rec \in raced'
      BY DEF RaceInv, WriterAlone
    <3>3. req'[q].op = "write" =>
              /\ \A o \in Procs \ {q} : req'[o].op = "write" => req'[o].rec # req'[q].rec
              /\ gone'[q] \subseteq {req'[q].rec} \X Principals
              /\ \A n \in req'[q].new :
                    n.rec = req'[q].rec /\ n.rule # Manual /\ req'[q].doc \in n.cond
      BY <1>3, <2>2 DEF RaceInv, WriterAlone
    <3>4. WriterAlone(q)'
      BY <1>3, <2>2, <3>2, <3>3 DEF WriterAlone, Manual
    <3>5. QED
      BY <3>1, <3>4
  <2>3. QED
    BY <2>1, <2>2
<1>5. QED
  BY <1>2, <1>4 DEF RaceInv

\* A rule or a manual share is deleted.
LEMMA RaceDeleted ==
    ASSUME RaceInv, KeyInv', NEW taken,
           doc' = doc, raced' = raced, req' = req, share' \subseteq share,
           \A s \in share' : s.rule # Manual => Key(s) \notin taken,
           \A q \in Procs : /\ gone'[q] \subseteq gone[q]
                            /\ req[q] # Idle => gone'[q] = gone[q] \ taken,
           \A i : rule'[i] = rule[i] \/ rule'[i] = None
    PROVE  RaceInv'
<1>1. \A s : AsWritten(s)' <=> AsWritten(s)
  BY DEF AsWritten, Manual
<1>2. ASSUME NEW q \in Procs PROVE RequestAsRead(q)'
  BY <1>1 DEF RaceInv, RequestAsRead, Materializing
<1>3. ASSUME NEW q \in Procs, req[q].op = "write" PROVE WriterAlone(q)'
  <2>1. /\ \A o \in Procs \ {q} : req'[o].op = "write" => req'[o].rec # req'[q].rec
        /\ gone'[q] \subseteq {req'[q].rec} \X Principals
        /\ \A n \in req'[q].new :
              n.rec = req'[q].rec /\ n.rule # Manual /\ req'[q].doc \in n.cond
    BY <1>3 DEF RaceInv, WriterAlone
  <2>2. ASSUME req[q].rec \notin raced
        PROVE  /\ \A o \in Procs : ~Materializing(o)'
               /\ (Keys(RuleSharesOf(req[q].rec)) \subseteq gone[q])'
               /\ (\A i \in ActiveRules : req[q].doc \in rule[i].cond =>
                     \E n \in req[q].new : /\ n.principal = rule[i].principal
                                           /\ rule[n.rule] = None \/ Honored(n))'
    <3>1. \A o \in Procs : ~Materializing(o)'
      BY <1>3, <2>2 DEF RaceInv, WriterAlone, Materializing
    <3>2. (Keys(RuleSharesOf(req[q].rec)) \subseteq gone[q])'
      <4>1. gone'[q] = gone[q] \ taken
        BY <1>3 DEF Idle
      <4>2. Keys(RuleSharesOf(req[q].rec)) \subseteq gone[q]
        BY <1>3, <2>2 DEF RaceInv, WriterAlone
      <4>3. QED
        BY <4>1, <4>2 DEF Keys, Key, RuleSharesOf, Manual
    <3>3. (\A i \in ActiveRules : req[q].doc \in rule[i].cond =>
              \E n \in req[q].new : /\ n.principal = rule[i].principal
                                    /\ rule[n.rule] = None \/ Honored(n))'
      BY <1>3, <2>2 DEF RaceInv, WriterAlone, ActiveRules, Honored, Manual
    <3>4. QED
      BY <3>1, <3>2, <3>3
  <2>3. QED
    BY <2>1, <2>2 DEF WriterAlone, Manual
<1>4. ASSUME NEW q \in Procs PROVE WriterAlone(q)'
  BY <1>3 DEF WriterAlone
<1>5. QED
  BY <1>1, <1>2, <1>4 DEF RaceInv

\* A write, a create or a restore begins.
LEMMA RaceWriteBegin ==
    ASSUME RaceInv, KeyInv', NEW p \in Procs, NEW r \in Records, NEW d \in Docs,
           WriteBegin(p, r, d)
    PROVE  RaceInv'
<1> DEFINE m == [op |-> "write", rec |-> r, doc |-> d, new |-> Recomputed(r, d)]
<1>0. TypeOK /\ req[p] = Idle /\ ~WritingRecord(r)
  BY DEF RaceInv, KeyInv, WriteBegin, Begin
<1>1. /\ req'[p] = m /\ gone'[p] = Keys(RuleSharesOf(r))
      /\ \A q \in Procs \ {p} : req'[q] = req[q] /\ gone'[q] = gone[q]
      /\ share' = share /\ doc' = doc /\ rule' = rule /\ raced \subseteq raced'
      /\ (\E q \in Procs : Materializing(q)) => r \in raced'
  BY <1>0 DEF WriteBegin, Begin, TypeOK
<1>2. m.op = "write" /\ m.rec = r /\ m.doc = d /\ m.new = Recomputed(r, d)
  OBVIOUS
<1> HIDE DEF m
<1>3. \A q \in Procs \ {p} : req[q].op = "write" => req[q].rec # r
  BY <1>0 DEF WritingRecord
<1>4. /\ \A n \in Recomputed(r, d) : n.rec = r /\ d \in n.cond /\ Honored(n) /\ n.rule # Manual
      /\ \A i \in ActiveRules : d \in rule[i].cond =>
             \E n \in Recomputed(r, d) : n.principal = rule[i].principal
  BY <1>0, RecomputedCovers, RecomputedType
<1>5. \A q \in Procs : Materializing(q)' => r \in raced'
  BY <1>1, <1>2 DEF Materializing
<1>6. Keys(RuleSharesOf(r)) \subseteq {r} \X Principals
  BY <1>0 DEF TypeOK, Keys, Key, RuleSharesOf, ShareRow
<1>7. WriterAlone(p)'
  <2>1. (Keys(RuleSharesOf(r)))' = Keys(RuleSharesOf(r))
    BY <1>1 DEF Keys, Key, RuleSharesOf, Manual
  <2>2. (\A i \in ActiveRules : d \in rule[i].cond =>
            \E n \in Recomputed(r, d) : n.principal = rule[i].principal /\ Honored(n))
    BY <1>4
  <2>3. \A i : (i \in ActiveRules)' <=> i \in ActiveRules
    BY <1>1 DEF ActiveRules
  <2>4. \A n : Honored(n)' <=> Honored(n)
    BY <1>1 DEF Honored, Manual
  <2>5. \A i \in (ActiveRules)' : d \in rule'[i].cond =>
            \E n \in m.new : n.principal = rule'[i].principal /\ (rule'[n.rule] = None \/ Honored(n)')
    BY <1>1, <1>2, <2>2, <2>3, <2>4
  <2>6. \A q \in Procs \ {p} : req'[q].op = "write" => req'[q].rec # r
    BY <1>1, <1>3
  <2>7. QED
    BY <1>1, <1>2, <1>4, <1>5, <1>6, <2>1, <2>5, <2>6 DEF WriterAlone, Manual
<1>8. RequestAsRead(p)'
  BY <1>1, <1>2 DEF RequestAsRead, Materializing
<1>9. ~Materializing(p)'
  BY <1>1, <1>2 DEF Materializing
<1>10. QED
  BY <1>1, <1>2, <1>3, <1>7, <1>8, <1>9, RaceQuiet

\* A scan for a rule.
LEMMA RaceScan ==
    ASSUME RaceInv, KeyInv', NEW p \in Procs, NEW i, NEW row, NEW from, NEW limit,
           share' = share, doc' = doc, rule' = rule, MeetsWrites,
           \A q \in Procs \ {p} : req'[q] = req[q] /\ gone'[q] = gone[q],
           Materializing(p)', req'[p].new \subseteq Materialized(i, row, from, limit)
    PROVE  RaceInv'
<1>0. raced \subseteq raced'
  BY DEF MeetsWrites
<1>1. \A q \in Procs : req[q].op = "write" => req[q].rec \in raced'
  BY RequestTypes DEF MeetsWrites, WritingRecord, RaceInv, KeyInv, TypeOK
<1>2. \A n \in req'[p].new : AsWritten(n)
  BY MaterializedAsWritten
<1>3. RequestAsRead(p)'
  BY <1>2 DEF RequestAsRead, Materializing, AsWritten, Manual
<1>4. WriterAlone(p)' /\ req'[p].op # "write"
  BY DEF WriterAlone, Materializing
<1>5. QED
  BY <1>0, <1>1, <1>3, <1>4, RaceQuiet

\* A write commits: it had found every share of rules on its record.
LEMMA RaceWriteCommit ==
    ASSUME RaceInv, KeyInv', NEW p \in Procs, WriteCommit(p)
    PROVE  RaceInv'
<1> DEFINE r == req[p].rec
           d == req[p].doc
           base == {s \in share : Key(s) \notin gone[p]}
<1>0. TypeOK /\ r \in Records /\ d \in Docs /\ d # None /\ req[p].op = "write"
  BY RequestTypes, NoneAssumption DEF RaceInv, KeyInv, TypeOK, WriteCommit
<1>1. /\ share' \subseteq base \cup req[p].new /\ rule' = rule /\ raced' = raced
      /\ doc'[r] = d /\ \A x \in Records \ {r} : doc'[x] = doc[x]
      /\ req'[p] = Idle /\ \A q \in Procs \ {p} : req'[q] = req[q]
      /\ \A q \in Procs \ {p} : gone'[q] = gone[q] \ gone[p]
  BY <1>0 DEF WriteCommit, Insert, Finish, Forget, TypeOK
<1>2. /\ \A q \in Procs \ {p} : req[q].op = "write" => req[q].rec # r
      /\ gone[p] \subseteq {r} \X Principals
      /\ \A n \in req[p].new : n.rec = r /\ n.rule # Manual /\ d \in n.cond
      /\ r \notin raced => /\ \A q \in Procs : ~Materializing(q)
                           /\ Keys(RuleSharesOf(r)) \subseteq gone[p]
  BY <1>0 DEF RaceInv, WriterAlone
<1>3. \A s \in share : s.rec \in Records
  BY <1>0 DEF TypeOK, ShareRow
<1> HIDE DEF r, d
<1>4. ASSUME NEW s, s.rec \in Records \ {r}
      PROVE  AsWritten(s)' <=> AsWritten(s)
  BY <1>1, <1>4 DEF AsWritten, Manual
<1>5. ASSUME NEW s \in share', s.rec \notin raced' PROVE AsWritten(s)'
  <2>1. CASE s.rec # r
    <3>1. s \in share
      BY <1>1, <1>2, <2>1
    <3>2. QED
      BY <1>1, <1>3, <1>4, <1>5, <2>1, <3>1 DEF RaceInv
  <2>2. CASE s.rec = r
    <3>1. s.rule # Manual => s \in req[p].new
      <4>1. s \in share /\ s.rule # Manual => Key(s) \in gone[p]
        BY <1>1, <1>2, <1>5, <2>2 DEF Keys, RuleSharesOf
      <4>2. QED
        BY <1>1, <4>1
    <3>2. QED
      BY <1>0, <1>1, <1>2, <2>2, <3>1 DEF AsWritten, Manual
  <2>3. QED
    BY <2>1, <2>2
<1>6. ASSUME NEW q \in Procs PROVE RequestAsRead(q)' /\ WriterAlone(q)'
  <2>1. CASE q = p
    BY <1>1, <2>1 DEF RequestAsRead, WriterAlone, Materializing, Idle
  <2>2. CASE q # p
    <3>0. req'[q] = req[q] /\ req[q] \in Request
      BY <1>0, <1>1, <2>2 DEF TypeOK
    <3>1. ASSUME Materializing(q)', NEW n \in req'[q].new, n.rec \notin raced'
          PROVE  AsWritten(n)'
      <4>1. Materializing(q) /\ r \in raced
        BY <1>2, <3>0, <3>1 DEF Materializing
      <4>2. n.rec \in Records \ {r}
        BY <1>1, <3>0, <3>1, <4>1, RequestTypes DEF Materializing, ShareRow
      <4>3. AsWritten(n)
        BY <1>1, <3>0, <3>1, <4>1 DEF RaceInv, RequestAsRead
      <4>4. QED
        BY <1>4, <4>2, <4>3
    <3>2. ASSUME req'[q].op = "grant", req'[q].rec \notin raced'
          PROVE  doc'[req'[q].rec] # None
      <4>1. req[q].rec \in Records /\ doc[req[q].rec] # None
        BY <1>1, <3>0, <3>2, RequestTypes DEF RaceInv, RequestAsRead
      <4>2. QED
        BY <1>0, <1>1, <3>0, <4>1
    <3>3. RequestAsRead(q)'
      BY <3>1, <3>2 DEF RequestAsRead
    <3>4. ASSUME req[q].op = "write" PROVE WriterAlone(q)'
      <4>1. /\ req[q].rec # r /\ gone[q] \subseteq {req[q].rec} \X Principals
        BY <1>2, <2>2, <3>4 DEF RaceInv, WriterAlone
      <4>2. gone'[q] = gone[q]
        <5>1. ASSUME NEW k \in gone[q] PROVE k \notin gone[p]
          <6>1. k[1] = req[q].rec
            BY <4>1, <5>1
          <6>2. k \in gone[p] => k[1] = r
            BY <1>2
          <6>3. QED
            BY <4>1, <6>1, <6>2
        <5>2. gone[q] \ gone[p] = gone[q]
          BY <5>1
        <5>3. QED
          BY <1>1, <2>2, <5>2
      <4>3. \A o \in Procs \ {q} : req'[o].op = "write" => req'[o].rec # req'[q].rec
        BY <1>1, <3>0, <3>4 DEF RaceInv, WriterAlone, Idle
      <4>4. \A n \in req[q].new :
                n.rec = req[q].rec /\ n.rule # Manual /\ req[q].doc \in n.cond
        BY <3>4 DEF RaceInv, WriterAlone
      <4>5. ASSUME req[q].rec \notin raced
            PROVE  /\ \A o \in Procs : ~Materializing(o)'
                   /\ (Keys(RuleSharesOf(req[q].rec)) \subseteq gone[q])'
                   /\ (\A i \in ActiveRules : req[q].doc \in rule[i].cond =>
                         \E n \in req[q].new : /\ n.principal = rule[i].principal
                                               /\ rule[n.rule] = None \/ Honored(n))'
        <5>1. \A o \in Procs : ~Materializing(o)
          BY <3>4, <4>5 DEF RaceInv, WriterAlone
        <5>2. \A o \in Procs : ~Materializing(o)'
          BY <1>1, <5>1 DEF Materializing, Idle
        <5>3. \A s \in share' : s.rec = req[q].rec => s \in share
          BY <1>1, <1>2, <4>1
        <5>4. Keys(RuleSharesOf(req[q].rec)) \subseteq gone[q]
          BY <3>4, <4>5 DEF RaceInv, WriterAlone
        <5>5. (Keys(RuleSharesOf(req[q].rec)) \subseteq gone[q])'
          BY <3>0, <4>2, <5>3, <5>4 DEF Keys, Key, RuleSharesOf, Manual
        <5>6. (\A i \in ActiveRules : req[q].doc \in rule[i].cond =>
                  \E n \in req[q].new : /\ n.principal = rule[i].principal
                                        /\ rule[n.rule] = None \/ Honored(n))'
          BY <1>1, <3>0, <3>4, <4>5 DEF RaceInv, WriterAlone, ActiveRules, Honored, Manual
        <5>7. QED
          BY <5>2, <5>5, <5>6
      <4>6. QED
        BY <1>1, <3>0, <4>1, <4>2, <4>3, <4>4, <4>5 DEF WriterAlone, Manual
    <3>5. QED
      BY <3>0, <3>3, <3>4 DEF WriterAlone
  <2>3. QED
    BY <2>1, <2>2
<1>7. QED
  BY <1>5, <1>6 DEF RaceInv

\* A deletion takes every share of its record, and leaves a scan or a grant that knows the
\* record to insert one.
LEMMA RaceDeleteRecord ==
    ASSUME RaceInv, KeyInv', NEW p \in Procs, NEW r \in Records, DeleteRecord(p, r)
    PROVE  RaceInv'
<1>0. TypeOK /\ req' = req /\ rule' = rule
  BY DEF RaceInv, KeyInv, DeleteRecord
<1>1. /\ share' \subseteq share /\ \A s \in share' : s.rec # r
      /\ \A x \in Records \ {r} : doc'[x] = doc[x]
      /\ \A x : x # r => (x \in raced' <=> x \in raced)
      /\ \A q \in Procs : Materializing(q) => r \in raced'
      /\ \A q \in Procs : req[q].op = "grant" /\ req[q].rec = r => r \in raced'
      /\ \A q \in Procs : req[q].op = "write" => req[q].rec # r
      /\ \A q \in Procs : q # p => gone'[q] = gone[q] \ ({r} \X Principals)
      /\ req[p] = Idle
  BY <1>0 DEF DeleteRecord, DropRecordShares, Forget, TypeOK, WritingRecord
<1>3. \A s \in share : s.rec \in Records
  BY <1>0 DEF TypeOK, ShareRow
<1>4. ASSUME NEW s, s.rec \in Records \ {r}
      PROVE  AsWritten(s)' <=> AsWritten(s)
  BY <1>1, <1>4 DEF AsWritten, Manual
<1>5. ASSUME NEW s \in share', s.rec \notin raced' PROVE AsWritten(s)'
  <2>1. s \in share /\ s.rec # r /\ s.rec \notin raced
    BY <1>1, <1>5
  <2>2. QED
    BY <1>3, <1>4, <2>1 DEF RaceInv
<1>6. ASSUME NEW q \in Procs PROVE RequestAsRead(q)'
  <2>1. ASSUME Materializing(q)', NEW n \in req'[q].new, n.rec \notin raced'
        PROVE  AsWritten(n)'
    <3>1. Materializing(q) /\ n \in req[q].new /\ n.rec # r
      BY <1>0, <1>1, <2>1 DEF Materializing
    <3>2. n.rec \in Records /\ n.rec \notin raced
      BY <1>0, <1>1, <2>1, <3>1, RequestTypes DEF Materializing, ShareRow, TypeOK
    <3>3. AsWritten(n)
      BY <3>1, <3>2 DEF RaceInv, RequestAsRead
    <3>4. QED
      BY <1>4, <3>1, <3>2, <3>3
  <2>2. ASSUME req'[q].op = "grant", req'[q].rec \notin raced'
        PROVE  doc'[req'[q].rec] # None
    <3>1. req[q].rec \in Records \ {r}
      BY <1>0, <1>1, <2>2, RequestTypes DEF TypeOK
    <3>2. QED
      BY <1>0, <1>1, <2>2, <3>1 DEF RaceInv, RequestAsRead
  <2>3. QED
    BY <2>1, <2>2 DEF RequestAsRead
<1>7. ASSUME NEW q \in Procs, req[q].op = "write" PROVE WriterAlone(q)'
  <2>1. q # p /\ req[q].rec # r /\ gone[q] \subseteq {req[q].rec} \X Principals
    BY <1>1, <1>7 DEF RaceInv, WriterAlone, Idle
  <2>2. gone'[q] = gone[q]
    <3>1. ASSUME NEW k \in gone[q] PROVE k \notin {r} \X Principals
      BY <2>1, <3>1
    <3>2. gone[q] \ ({r} \X Principals) = gone[q]
      BY <3>1
    <3>3. QED
      BY <1>1, <2>1, <3>2
  <2>3. /\ \A o \in Procs \ {q} : req'[o].op = "write" => req'[o].rec # req'[q].rec
        /\ \A n \in req'[q].new :
              n.rec = req'[q].rec /\ n.rule # Manual /\ req'[q].doc \in n.cond
    BY <1>0, <1>7 DEF RaceInv, WriterAlone
  <2>4. ASSUME req[q].rec \notin raced'
        PROVE  /\ \A o \in Procs : ~Materializing(o)'
               /\ (Keys(RuleSharesOf(req[q].rec)) \subseteq gone[q])'
               /\ (\A i \in ActiveRules : req[q].doc \in rule[i].cond =>
                     \E n \in req[q].new : /\ n.principal = rule[i].principal
                                           /\ rule[n.rule] = None \/ Honored(n))'
    <3>0. req[q].rec \notin raced
      BY <1>1, <2>1, <2>4
    <3>1. \A o \in Procs : ~Materializing(o)'
      BY <1>0, <1>7, <3>0 DEF RaceInv, WriterAlone, Materializing
    <3>2. (Keys(RuleSharesOf(req[q].rec)) \subseteq gone[q])'
      <4>1. Keys(RuleSharesOf(req[q].rec)) \subseteq gone[q]
        BY <1>7, <3>0 DEF RaceInv, WriterAlone
      <4>2. QED
        BY <1>0, <1>1, <2>2, <4>1 DEF Keys, Key, RuleSharesOf, Manual
    <3>3. (\A i \in ActiveRules : req[q].doc \in rule[i].cond =>
              \E n \in req[q].new : /\ n.principal = rule[i].principal
                                    /\ rule[n.rule] = None \/ Honored(n))'
      BY <1>0, <1>7, <3>0 DEF RaceInv, WriterAlone, ActiveRules, Honored, Manual
    <3>4. QED
      BY <3>1, <3>2, <3>3
  <2>5. QED
    BY <1>0, <2>1, <2>2, <2>3, <2>4 DEF WriterAlone, Manual
<1>8. ASSUME NEW q \in Procs PROVE WriterAlone(q)'
  BY <1>0, <1>7 DEF WriterAlone
<1>9. QED
  BY <1>5, <1>6, <1>8 DEF RaceInv

\* A grant adds a manual share of a record that was there, or changes the access of the
\* row it meets.
LEMMA RaceGrantCommit ==
    ASSUME RaceInv, KeyInv', NEW p \in Procs, GrantCommit(p)
    PROVE  RaceInv'
<1> DEFINE m     == req[p]
           hit   == {s \in share : Key(s) = <<m.rec, m.principal>>}
           added == [rec |-> m.rec, principal |-> m.principal, rule |-> Manual,
                     epoch |-> 0, access |-> m.access, cond |-> {}]
           same(s) == [s EXCEPT !.access = m.access]
<1>0. TypeOK
  BY DEF RaceInv, KeyInv
<1>1. /\ req'[p] = Idle /\ \A q \in Procs \ {p} : req'[q] = req[q]
      /\ gone' = gone /\ rule' = rule /\ doc' = doc /\ raced' = raced /\ m.op = "grant"
      /\ share' = (share \ hit) \cup IF hit = {} THEN {added} ELSE {same(s) : s \in hit}
  BY <1>0 DEF TypeOK, GrantCommit, Finish
<1>2. \A s \in share : /\ Key(same(s)) = Key(s) /\ same(s).rec = s.rec
                       /\ same(s).rule = s.rule /\ same(s).cond = s.cond
  BY <1>0 DEF TypeOK, Key, ShareRow
<1>3. added.rec = m.rec /\ added.rule = Manual
  OBVIOUS
<1> HIDE DEF hit, added, same
<1>4. ASSUME NEW s \in share'
      PROVE  \/ s.rec = m.rec /\ s.rule = Manual
             \/ \E t \in share : /\ Key(s) = Key(t) /\ s.rec = t.rec
                                 /\ s.rule = t.rule /\ s.cond = t.cond
  <2>1. s \in share \/ s = added \/ \E t \in hit : s = same(t)
    BY <1>1
  <2>2. hit \subseteq share
    BY DEF hit
  <2>3. QED
    BY <1>2, <1>3, <2>1, <2>2
<1>5. \A s : AsWritten(s)' <=> AsWritten(s)
  BY <1>1 DEF AsWritten, Manual
<1>6. m.rec \notin raced => doc[m.rec] # None
  BY <1>1 DEF RaceInv, RequestAsRead
<1>7. ASSUME NEW s \in share', s.rec \notin raced' PROVE AsWritten(s)'
  <2>1. CASE s.rec = m.rec /\ s.rule = Manual
    BY <1>1, <1>5, <1>6, <1>7, <2>1 DEF AsWritten
  <2>2. CASE \E t \in share : s.rec = t.rec /\ s.rule = t.rule /\ s.cond = t.cond
    BY <1>1, <1>5, <1>7, <2>2 DEF RaceInv, AsWritten
  <2>3. QED
    BY <1>4, <2>1, <2>2
<1> HIDE DEF m
<1>8. ASSUME NEW q \in Procs PROVE RequestAsRead(q)' /\ WriterAlone(q)'
  <2>1. CASE q = p
    BY <1>1, <2>1 DEF RequestAsRead, WriterAlone, Materializing, Idle
  <2>2. CASE q # p
    <3>1. RequestAsRead(q)'
      BY <1>1, <1>5, <2>2 DEF RaceInv, RequestAsRead, Materializing
    <3>2. ASSUME req[q].op = "write"
          PROVE  WriterAlone(q)'
      <4>1. /\ \A o \in Procs \ {q} : req'[o].op = "write" => req'[o].rec # req'[q].rec
            /\ gone'[q] \subseteq {req'[q].rec} \X Principals
            /\ \A n \in req'[q].new :
                  n.rec = req'[q].rec /\ n.rule # Manual /\ req'[q].doc \in n.cond
        BY <1>1, <2>2, <3>2 DEF RaceInv, WriterAlone, Idle
      <4>2. ASSUME req[q].rec \notin raced
            PROVE  /\ \A o \in Procs : ~Materializing(o)'
                   /\ (Keys(RuleSharesOf(req[q].rec)) \subseteq gone[q])'
                   /\ (\A i \in ActiveRules : req[q].doc \in rule[i].cond =>
                         \E n \in req[q].new : /\ n.principal = rule[i].principal
                                               /\ rule[n.rule] = None \/ Honored(n))'
        <5>1. \A o \in Procs : ~Materializing(o)'
          BY <1>1, <3>2, <4>2 DEF RaceInv, WriterAlone, Materializing, Idle
        <5>2. Keys(RuleSharesOf(req[q].rec)) \subseteq gone[q]
          BY <3>2, <4>2 DEF RaceInv, WriterAlone
        <5>3. (Keys(RuleSharesOf(req[q].rec)) \subseteq gone[q])'
          <6>1. ASSUME NEW s \in share', s.rec = req[q].rec, s.rule # Manual
                PROVE  Key(s) \in gone[q]
            BY <1>4, <5>2, <6>1 DEF Keys, RuleSharesOf
          <6>2. QED
            BY <1>1, <2>2, <6>1 DEF Keys, Key, RuleSharesOf, Manual
        <5>4. (\A i \in ActiveRules : req[q].doc \in rule[i].cond =>
                  \E n \in req[q].new : /\ n.principal = rule[i].principal
                                        /\ rule[n.rule] = None \/ Honored(n))'
          BY <1>1, <2>2, <3>2, <4>2 DEF RaceInv, WriterAlone, ActiveRules, Honored, Manual
        <5>5. QED
          BY <5>1, <5>3, <5>4
      <4>3. QED
        BY <1>1, <2>2, <4>1, <4>2 DEF WriterAlone, Manual
    <3>3. QED
      BY <1>1, <2>2, <3>1, <3>2 DEF WriterAlone
  <2>3. QED
    BY <2>1, <2>2
<1>9. QED
  BY <1>7, <1>8 DEF RaceInv

LEMMA RaceStart == Init => RaceInv
BY KeyInit DEF Init, RaceInv, RequestAsRead, WriterAlone, Materializing, Idle

\* Each step keeps the invariant.
LEMMA RaceStep == RaceInv /\ [Next]_vars => RaceInv'
<1> SUFFICES ASSUME RaceInv, [Next]_vars PROVE RaceInv'
  OBVIOUS
<1>0. KeyInv' /\ TypeOK
  BY KeyStep DEF RaceInv, KeyInv
<1>1. ASSUME NEW p \in Procs, NEW r \in Records, NEW d \in Docs, WriteBegin(p, r, d)
      PROVE  RaceInv'
  BY <1>0, <1>1, RaceWriteBegin
<1>2. ASSUME NEW p \in Procs, WriteCommit(p) PROVE RaceInv'
  BY <1>0, <1>2, RaceWriteCommit
<1>3. ASSUME NEW p \in Procs, NEW r \in Records, DeleteRecord(p, r) PROVE RaceInv'
  BY <1>0, <1>3, RaceDeleteRecord
<1>4. ASSUME NEW p \in Procs, NEW c \in Conds, NEW u \in Principals, NEW a \in Accesses,
             CreateRuleBegin(p, c, u, a)
      PROVE  RaceInv'
  <2> DEFINE row == [cond |-> c, principal |-> u, access |-> a, epoch |-> 1, active |-> TRUE]
             new == Materialized(nextRule, row, 0, AutoLimit)
  <2>1. /\ share' = share /\ doc' = doc /\ rule' = rule /\ gone' = gone /\ MeetsWrites
        /\ \A q \in Procs \ {p} : req'[q] = req[q]
        /\ req'[p].op = "create" /\ req'[p].new = new
    BY <1>0, <1>4 DEF CreateRuleBegin, Begin, TypeOK
  <2> HIDE DEF row
  <2>2. QED
    BY <1>0, <2>1, RaceScan DEF Materializing
<1>5. ASSUME NEW p \in Procs, CreateRuleCommit(p) \/ PatchCommit(p) \/ RecomputeCommit(p)
      PROVE  RaceInv'
  <2>1. /\ Materializing(p) /\ doc' = doc /\ raced' = raced /\ req' = [req EXCEPT ![p] = Idle]
        /\ share' \subseteq share \cup req[p].new
        /\ \A q \in Procs : gone'[q] \subseteq gone[q]
    <3>1. CASE CreateRuleCommit(p)
      BY <3>1, <1>0 DEF CreateRuleCommit, Materializing, Insert, Finish
    <3>2. CASE PatchCommit(p)
      <4>1. \A q \in Procs : gone'[q] \subseteq gone[q]
        BY <3>2, <1>0 DEF PatchCommit, Forget, TypeOK
      <4>2. share' \subseteq share \cup req[p].new
        BY <3>2 DEF PatchCommit, Insert
      <4>3. QED
        BY <4>1, <4>2, <3>2 DEF PatchCommit, Materializing, Finish
    <3>3. CASE RecomputeCommit(p)
      BY <3>3, <1>0 DEF RecomputeCommit, Materializing, Insert, Finish
    <3>4. QED
      BY <1>5, <3>1, <3>2, <3>3
  <2>2. QED
    BY <1>0, <2>1, RaceScanned
<1>6. ASSUME NEW p \in Procs,
             \/ \E i \in Rules, b \in Patches : PatchRead(p, i, b)
             \/ \E i \in Rules, from \in Records \cup {0}, limit \in Limits :
                    RecomputeRead(p, i, from, limit)
             \/ Rollback(p)
      PROVE  RaceInv'
  <2>1. /\ share' = share /\ doc' = doc /\ rule' = rule /\ raced' = raced
        /\ \A q \in Procs \ {p} : req'[q] = req[q] /\ gone'[q] = gone[q]
        /\ req'[p].op \in {"patching", "recomputing", "idle"}
    BY <1>0, <1>6 DEF PatchRead, RecomputeRead, Rollback, Begin, Finish, Idle, TypeOK
  <2>2. RequestAsRead(p)' /\ WriterAlone(p)' /\ ~Materializing(p)' /\ req'[p].op # "write"
    BY <2>1 DEF RequestAsRead, WriterAlone, Materializing
  <2>3. QED
    BY <1>0, <2>1, <2>2, RaceQuiet
<1>7. ASSUME NEW p \in Procs, PatchWrite(p) PROVE RaceInv'
  <2> DEFINE i   == req[p].rule
             row == Patched(i, req[p].existing, req[p].body)
             new == Materialized(i, row, 0, AutoLimit)
  <2>1. /\ share' = share /\ doc' = doc /\ rule' = rule /\ MeetsWrites
        /\ \A q \in Procs \ {p} : req'[q] = req[q] /\ gone'[q] = gone[q]
        /\ req'[p].op = "patch" /\ req'[p].new \subseteq new
    BY <1>0, <1>7 DEF PatchWrite, TypeOK
  <2> HIDE DEF row, i
  <2>2. QED
    BY <1>0, <2>1, RaceScan DEF Materializing
<1>8. ASSUME NEW p \in Procs, NEW i \in Rules, DeleteRule(p, i) PROVE RaceInv'
  <2> DEFINE taken == Keys(OfRule(i))
  <2>1. /\ doc' = doc /\ raced' = raced /\ req' = req /\ share' = share \ OfRule(i)
        /\ \A q \in Procs : /\ gone'[q] \subseteq gone[q]
                            /\ req[q] # Idle => gone'[q] = gone[q] \ taken
        /\ \A j : rule'[j] = rule[j] \/ rule'[j] = None
    BY <1>0, <1>8 DEF DeleteRule, Forget, TypeOK
  <2>2. \A s \in share' : Key(s) \notin taken
    BY <2>1 DEF RaceInv, KeyInv, OneRowPerKey, Keys, OfRule
  <2> HIDE DEF taken
  <2>3. QED
    BY <1>0, <2>1, <2>2, RaceDeleted
<1>9. ASSUME NEW p \in Procs, RecomputeScan(p) PROVE RaceInv'
  <2> DEFINE m == req[p]
             new == Materialized(m.rule, m.row, m.from, m.limit)
  <2>1. /\ share' = share /\ doc' = doc /\ rule' = rule /\ gone' = gone /\ MeetsWrites
        /\ \A q \in Procs \ {p} : req'[q] = req[q]
        /\ req'[p].op = "recompute" /\ req'[p].new = new
    BY <1>0, <1>9 DEF RecomputeScan, TypeOK
  <2> HIDE DEF m
  <2>2. QED
    BY <1>0, <2>1, RaceScan DEF Materializing
<1>10. ASSUME NEW p \in Procs, NEW r \in Records, NEW u \in Principals, NEW a \in Accesses,
              GrantCheck(p, r, u, a)
       PROVE  RaceInv'
  <2>1. /\ share' = share /\ doc' = doc /\ rule' = rule /\ gone' = gone /\ raced' = raced
        /\ \A q \in Procs \ {p} : req'[q] = req[q]
        /\ req'[p].op = "grant" /\ req'[p].rec = r /\ doc[r] # None
    BY <1>0, <1>10 DEF GrantCheck, Begin, TypeOK
  <2>2. RequestAsRead(p)' /\ WriterAlone(p)' /\ ~Materializing(p)' /\ req'[p].op # "write"
    BY <2>1 DEF RequestAsRead, WriterAlone, Materializing
  <2>3. QED
    BY <1>0, <2>1, <2>2, RaceQuiet
<1>11. ASSUME NEW p \in Procs, GrantCommit(p) PROVE RaceInv'
  BY <1>0, <1>11, RaceGrantCommit
<1>12. ASSUME NEW p \in Procs, NEW s \in share, RevokeManual(p, s) PROVE RaceInv'
  <2>1. /\ doc' = doc /\ raced' = raced /\ req' = req /\ share' = share \ {s} /\ rule' = rule
        /\ \A q \in Procs : /\ gone'[q] \subseteq gone[q]
                            /\ req[q] # Idle => gone'[q] = gone[q] \ {Key(s)}
    BY <1>0, <1>12 DEF RevokeManual, Forget, TypeOK
  <2>2. \A t \in share' : Key(t) \notin {Key(s)}
    BY <1>12, <2>1 DEF RaceInv, KeyInv, OneRowPerKey
  <2>3. QED
    BY <1>0, <2>1, <2>2, RaceDeleted
<1>13. CASE UNCHANGED vars
  BY <1>0, <1>13 DEF vars, RaceInv, AsWritten, RequestAsRead, WriterAlone, Materializing,
     Keys, Key, RuleSharesOf, ActiveRules, Honored, Manual
<1>14. QED
  BY <1>1, <1>2, <1>3, <1>4, <1>5, <1>6, <1>7, <1>8, <1>9, <1>10, <1>11, <1>12, <1>13 DEF Next

\* Of a record that no write or deletion raced a scan or a grant on, each share and each share
\* to be inserted is what the record says, and a write under way has the record to itself,
\* whatever requests are in progress (recompute_record, drop_record_shares, materialize_rule).
THEOREM RacesApart == Spec => []RaceInv
BY RaceStart, RaceStep, PTL DEF Spec

\* A rule share that is honored is on a record that matches the rule now, unless an empty PATCH
\* has set the rule back, and every share is of a live record; but for records that raced with a
\* scan or a grant, and for any number of requests, rules and records.
THEOREM NoneOverGranted == Spec => []SharesExact
<1>1. RaceInv /\ RevokeSafe => SharesExact
  BY DEF RaceInv, RevokeSafe, SharesExact, AsWritten, NoOverGrant
<1>2. QED
  BY <1>1, RacesApart, RevokeSafety, PTL

\* A write leaves the principal of every active rule that its record matches with an honored
\* share, whatever the other requests do, unless the scan of a rule raced with it
\* (recompute_record).
THEOREM GrantsFollowWrites == Spec => GrantedAfterWrite
<1>1. ASSUME RaceInv, NEW p \in Procs, WriteCommit(p), req[p].rec \notin raced,
             NEW i \in ActiveRules, req[p].doc \in rule[i].cond
      PROVE  \E s \in share' : Key(s) = <<req[p].rec, rule[i].principal>> /\ Honored(s)'
  <2> DEFINE base == {s \in share : Key(s) \notin gone[p]}
  <2>1. /\ share' = Insert(base, req[p].new) /\ FkHolds(base, req[p].new) /\ rule' = rule
        /\ req[p].op = "write"
    BY <1>1 DEF WriteCommit
  <2>2. /\ \A n \in req[p].new : n.rec = req[p].rec
        /\ Keys(RuleSharesOf(req[p].rec)) \subseteq gone[p]
        /\ \E n \in req[p].new : /\ n.principal = rule[i].principal
                                 /\ rule[n.rule] = None \/ Honored(n)
    BY <1>1, <2>1 DEF RaceInv, WriterAlone
  <2>3. PICK n \in req[p].new : /\ n.principal = rule[i].principal
                                /\ rule[n.rule] = None \/ Honored(n)
    BY <2>2
  <2>4. Key(n) = <<req[p].rec, rule[i].principal>>
    BY <2>2, <2>3 DEF Key
  <2>5. \A s : Honored(s)' <=> Honored(s)
    BY <2>1 DEF Honored, Manual
  <2>6. CASE Key(n) \in Keys(base)
    <3>1. PICK s \in base : Key(s) = Key(n)
      BY <2>6 DEF Keys
    <3>2. s.rec = req[p].rec
      BY <2>4, <3>1 DEF Key
    <3>3. s.rule = Manual
      BY <2>2, <3>1, <3>2 DEF Keys, RuleSharesOf
    <3>4. s \in share'
      BY <2>1, <3>1 DEF Insert
    <3>5. QED
      BY <2>4, <2>5, <3>1, <3>3, <3>4 DEF Honored
  <2>7. CASE Key(n) \notin Keys(base)
    <3>1. n \in share'
      BY <2>1, <2>7 DEF Insert
    <3>2. n \in Insert(base, req[p].new) \ base
      BY <2>7 DEF Insert, Keys
    <3>3. rule[n.rule] # None
      BY <2>1, <3>2 DEF FkHolds
    <3>4. QED
      BY <2>3, <2>4, <2>5, <3>1, <3>3
  <2>8. QED
    BY <2>6, <2>7
<1>2. RaceInv => [\A p \in Procs : WriteCommit(p) /\ req[p].rec \notin raced => Grants(p)]_vars
  BY <1>1 DEF Grants
<1>3. QED
  BY <1>2, RacesApart, PTL DEF GrantedAfterWrite
=============================================================================

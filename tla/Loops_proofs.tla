------------------------------ MODULE Loops_proofs ------------------------------
(***************************************************************************)
(* Proofs about two background loops, for every number of replicas that    *)
(* run them: no notification is counted in two summaries (Digest), and no  *)
(* slot of a schedule is dispatched twice (Scheduler).                     *)
(***************************************************************************)
EXTENDS Digest, Scheduler, WellFoundedInduction, TLAPS

(* The digest.  A sweep's stamps are its own until it commits: no row has been stamped  *)
(* before, and no other sweep holds it.  What it will commit as summaries are disjoint  *)
(* parts of what it has stamped.                                                        *)

SweepType == [on: BOOLEAN, todo: SUBSET Groups, cur: {<<>>} \cup {<<g>> : g \in Groups},
              ids: SUBSET Notes, mine: SUBSET Notes, sums: SUBSET SUBSET Notes]

Rolled(s) == BigEnough(s) /\ \A m, n \in s : Group[m] = Group[n]

Disjoint(S) == \A s, t \in S : s # t => s \cap t = {}

SweepOK(t) ==
    /\ \A n \in t.mine : ~sys[n].stamped
    /\ \A s \in t.sums : s \subseteq t.mine /\ Rolled(s)
    /\ Disjoint(t.sums)
    /\ t.cur # <<>> => t.ids \cap t.mine = {} /\ Rolled(t.ids)

DigestInv ==
    /\ DigestTypeOK
    /\ \A s \in summary : Rolled(s) /\ \A n \in s : sys[n].stamped
    /\ Disjoint(summary)
    /\ \A w \in Sweepers : SweepOK(sweep[w])
    /\ \A v, w \in Sweepers : v # w => sweep[v].mine \cap sweep[w].mine = {}

\* No notification is stamped at first.
LEMMA DigestStart == DigestInit => DigestInv
<1> SUFFICES ASSUME DigestInit PROVE DigestInv
  OBVIOUS
<1>1. /\ NoSweep \in SweepType /\ NoSweep.mine = {} /\ NoSweep.sums = {} /\ NoSweep.cur = <<>>
      /\ NoSweep.ids = {}
  BY DEF NoSweep, SweepType
<1>2. DigestTypeOK
  BY <1>1, SweepAssumption DEF DigestInit, DigestTypeOK, SweepType
<1>3. QED
  BY <1>1, <1>2 DEF DigestInit, DigestInv, Disjoint, SweepOK

\* The sweep of one replica goes on.
LEMMA SweepStep ==
    ASSUME DigestInv, NEW w \in Sweepers, NEW t \in SweepType, SweepOK(t),
           \A n \in t.ids : t.cur = <<Group[n]>>,
           \A v \in Sweepers : v # w => sweep[v].mine \cap t.mine = {},
           sweep' = [sweep EXCEPT ![w] = t], UNCHANGED <<sys, summary>>, aborts' \in 0..MaxAborts
    PROVE  DigestInv'
<1>1. sweep' \in [Sweepers -> SweepType] /\ sweep \in [Sweepers -> SweepType] /\ sweep'[w] = t
      /\ \A v \in Sweepers : v # w => sweep'[v] = sweep[v]
  BY DEF DigestInv, DigestTypeOK, SweepType
<1>2. DigestTypeOK'
  BY <1>1 DEF DigestInv, DigestTypeOK, SweepType
<1>3. \A v \in Sweepers : SweepOK(sweep'[v])
  BY <1>1 DEF DigestInv
<1>4. \A v \in Sweepers : SweepOK(sweep[v])'
  BY <1>3 DEF SweepOK
<1>5. QED
  BY <1>1, <1>2, <1>4 DEF DigestInv

\* A row of the list changes, its stamp aside.
LEMMA NoteStep ==
    ASSUME DigestInv, UNCHANGED <<summary, sweep, aborts>>,
           sys' \in [Notes -> [exists: BOOLEAN, old: BOOLEAN, read: BOOLEAN, stamped: BOOLEAN]],
           \A n \in Notes : sys'[n].stamped = sys[n].stamped
    PROVE  DigestInv'
<1>1. DigestTypeOK' /\ sweep \in [Sweepers -> SweepType] /\ summary \subseteq SUBSET Notes
  BY DEF DigestInv, DigestTypeOK, SweepType
<1>2. \A w \in Sweepers : SweepOK(sweep[w])'
  <2>1. ASSUME NEW w \in Sweepers PROVE SweepOK(sweep[w])'
    <3>1. SweepOK(sweep[w]) /\ sweep[w].mine \subseteq Notes
      BY <1>1 DEF DigestInv, SweepType
    <3>2. \A n \in sweep[w].mine : ~sys'[n].stamped
      BY <3>1 DEF SweepOK
    <3>3. QED
      BY <3>1, <3>2 DEF SweepOK
  <2>2. QED
    BY <2>1
<1>3. \A s \in summary : \A n \in s : sys'[n].stamped
  BY <1>1 DEF DigestInv
<1>4. QED
  BY <1>1, <1>2, <1>3 DEF DigestInv

\* Each step of the sweeps keeps their invariant.
LEMMA DigestStep == DigestInv /\ [DigestNext]_digestVars => DigestInv'
<1> SUFFICES ASSUME DigestInv, [DigestNext]_digestVars PROVE DigestInv'
  OBVIOUS
<1>0. /\ sweep \in [Sweepers -> SweepType] /\ \A w \in Sweepers : SweepOK(sweep[w])
      /\ sys \in [Notes -> [exists: BOOLEAN, old: BOOLEAN, read: BOOLEAN, stamped: BOOLEAN]]
      /\ aborts \in 0..MaxAborts /\ MaxAborts \in Nat
      /\ \A w \in Sweepers, n \in Notes : n \in sweep[w].ids => sweep[w].cur = <<Group[n]>>
      /\ \A v, w \in Sweepers : v # w => sweep[v].mine \cap sweep[w].mine = {}
  BY SweepAssumption DEF DigestInv, DigestTypeOK, SweepType
<1>1. /\ NoSweep \in SweepType /\ NoSweep.mine = {} /\ NoSweep.sums = {} /\ NoSweep.cur = <<>>
      /\ NoSweep.ids = {} /\ SweepOK(NoSweep)
  BY DEF NoSweep, SweepType, SweepOK, Disjoint
<1>2. ASSUME NEW n \in Notes, Arrive(n) \/ Age(n) \/ MarkRead(n) PROVE DigestInv'
  <2>1. UNCHANGED <<summary, sweep, aborts>>
    BY <1>2 DEF Arrive, Age, MarkRead
  <2>2. sys' = [sys EXCEPT ![n].exists = TRUE] \/ sys' = [sys EXCEPT ![n].old = TRUE]
        \/ sys' = [sys EXCEPT ![n].read = TRUE]
    BY <1>2 DEF Arrive, Age, MarkRead
  <2>3. sys' \in [Notes -> [exists: BOOLEAN, old: BOOLEAN, read: BOOLEAN, stamped: BOOLEAN]]
    BY <1>0, <2>2
  <2>4. \A m \in Notes : sys'[m].stamped = sys[m].stamped
    BY <1>0, <2>2
  <2>5. QED
    BY <2>1, <2>3, <2>4, NoteStep
<1>3. ASSUME NEW w \in Sweepers, Begin(w) PROVE DigestInv'
  <2> DEFINE t == [NoSweep EXCEPT !.on = TRUE, !.todo = Candidates]
  <2>1. /\ t \in SweepType /\ t.mine = {} /\ t.sums = {} /\ t.cur = <<>> /\ t.ids = {}
    BY <1>1 DEF SweepType, Candidates, NoSweep
  <2>2. sweep' = [sweep EXCEPT ![w] = t] /\ UNCHANGED <<sys, summary, aborts>>
    BY <1>3 DEF Begin
  <2> HIDE DEF t
  <2>3. SweepOK(t)
    BY <2>1 DEF SweepOK, Disjoint
  <2>4. /\ \A n \in t.ids : t.cur = <<Group[n]>>
        /\ \A v \in Sweepers : v # w => sweep[v].mine \cap t.mine = {}
        /\ aborts' \in 0..MaxAborts
    BY <1>0, <2>1, <2>2
  <2>5. QED
    BY <2>1, <2>2, <2>3, <2>4, SweepStep
<1>4. ASSUME NEW w \in Sweepers, NEW g \in Groups, ReadIds(w, g) PROVE DigestInv'
  <2> DEFINE ids == Batch(w, g)
             b == BigEnough(ids)
             k == sweep[w]
             c == IF b THEN <<g>> ELSE <<>>
             i == IF b THEN ids ELSE {}
             t == [k EXCEPT !.todo = @ \ {g}, !.cur = c, !.ids = i]
  <2>1. sweep' = [sweep EXCEPT ![w] = t] /\ UNCHANGED <<sys, summary, aborts>>
    BY <1>0, <1>4 DEF ReadIds
  <2>2. /\ ids \subseteq Notes /\ ids \cap k.mine = {} /\ \A n \in ids : Group[n] = g
    BY DEF Batch, StampedBy
  <2>3. c \in {<<>>} \cup {<<x>> : x \in Groups} /\ i \in SUBSET Notes
        /\ (\A n \in i : c = <<Group[n]>>) /\ i \cap k.mine = {}
        /\ (c # <<>> => Rolled(i))
    BY <2>2 DEF Rolled
  <2> HIDE DEF ids, b, c, i
  <2>4. k \in SweepType /\ SweepOK(k)
    BY <1>0
  <2>5. t \in SweepType /\ t.mine = k.mine /\ t.sums = k.sums /\ t.cur = c /\ t.ids = i
    BY <2>3, <2>4 DEF SweepType
  <2> HIDE DEF t
  <2>6. SweepOK(t)
    BY <2>3, <2>4, <2>5 DEF SweepOK
  <2>7. /\ \A n \in t.ids : t.cur = <<Group[n]>>
        /\ \A v \in Sweepers : v # w => sweep[v].mine \cap t.mine = {}
        /\ aborts' \in 0..MaxAborts
    BY <1>0, <2>1, <2>3, <2>5
  <2>8. QED
    BY <2>1, <2>5, <2>6, <2>7, SweepStep
<1>5. ASSUME NEW w \in Sweepers, Stamp(w) PROVE DigestInv'
  <2> DEFINE k == sweep[w]
             claimed == Stampable(k.ids)
             u == k.mine \cup claimed
             z == IF claimed = k.ids THEN k.sums \cup {k.ids} ELSE k.sums
             t == [k EXCEPT !.mine = u, !.sums = z, !.cur = <<>>, !.ids = {}]
  <2>1. sweep' = [sweep EXCEPT ![w] = t] /\ UNCHANGED <<sys, summary, aborts>>
    BY <1>0, <1>5 DEF Stamp
  <2>2. k \in SweepType /\ SweepOK(k) /\ k.cur # <<>> /\ \A n \in k.ids : ~Busy(n, w)
    BY <1>0, <1>5 DEF Stamp
  <2>3. claimed \subseteq k.ids /\ \A n \in claimed : ~sys[n].stamped
    BY DEF Stampable
  <2> HIDE DEF claimed
  <2>4. u \in SUBSET Notes /\ z \in SUBSET SUBSET Notes
    BY <2>2, <2>3 DEF SweepType
  <2>5. \A v \in Sweepers : v # w => sweep[v].mine \cap u = {}
    BY <1>0, <2>2, <2>3 DEF Busy, StampedBy
  <2>6. \A n \in u : ~sys[n].stamped
    BY <2>2, <2>3 DEF SweepOK
  <2>7. \A s \in z : s \subseteq u /\ Rolled(s)
    BY <2>2 DEF SweepOK
  <2>8. Disjoint(z)
    BY <2>2 DEF SweepOK, Disjoint
  <2> HIDE DEF u, z
  <2>9. t \in SweepType /\ t.mine = u /\ t.sums = z /\ t.cur = <<>> /\ t.ids = {}
    BY <2>2, <2>4 DEF SweepType
  <2> HIDE DEF t
  <2>10. SweepOK(t)
    BY <2>6, <2>7, <2>8, <2>9 DEF SweepOK
  <2>11. QED
    BY <1>0, <2>1, <2>5, <2>9, <2>10, SweepStep
<1>6. ASSUME NEW w \in Sweepers, Rollback(w) PROVE DigestInv'
  <2>1. sweep' = [sweep EXCEPT ![w] = NoSweep] /\ aborts' \in 0..MaxAborts
        /\ UNCHANGED <<sys, summary>>
    BY <1>0, <1>6 DEF Rollback
  <2>2. /\ \A n \in NoSweep.ids : NoSweep.cur = <<Group[n]>>
        /\ \A v \in Sweepers : v # w => sweep[v].mine \cap NoSweep.mine = {}
    BY <1>1
  <2>3. QED
    BY <1>1, <2>1, <2>2, SweepStep
<1>7. ASSUME NEW w \in Sweepers, Commit(w) PROVE DigestInv'
  <2> DEFINE k == sweep[w]
  <2>1. /\ sys' = [n \in Notes |-> [sys[n] EXCEPT !.stamped = @ \/ n \in k.mine]]
        /\ summary' = summary \cup k.sums /\ sweep' = [sweep EXCEPT ![w] = NoSweep]
        /\ aborts' = aborts
    BY <1>7 DEF Commit, StampedBy
  <2>2. k \in SweepType /\ SweepOK(k)
    BY <1>0
  <2>3. sys' \in [Notes -> [exists: BOOLEAN, old: BOOLEAN, read: BOOLEAN, stamped: BOOLEAN]]
    BY <1>0, <2>1
  <2>4. \A n \in Notes : sys'[n].stamped <=> sys[n].stamped \/ n \in k.mine
    BY <1>0, <2>1
  <2> HIDE DEF k
  <2>5. /\ sweep' \in [Sweepers -> SweepType] /\ sweep'[w] = NoSweep
        /\ \A v \in Sweepers : v # w => sweep'[v] = sweep[v]
    BY <1>0, <1>1, <2>1
  <2>6. DigestTypeOK'
    BY <1>0, <1>1, <2>1, <2>2, <2>3, <2>5 DEF DigestInv, DigestTypeOK, SweepType
  <2>7. summary \subseteq SUBSET Notes /\ k.mine \subseteq Notes
    BY <2>2 DEF DigestInv, DigestTypeOK, SweepType
  <2>8. \A s \in summary' : Rolled(s) /\ \A n \in s : sys'[n].stamped
    BY <2>1, <2>2, <2>4, <2>7 DEF DigestInv, SweepOK
  <2>9. Disjoint(summary')
    BY <2>1, <2>2 DEF DigestInv, SweepOK, Disjoint
  <2>10. ASSUME NEW v \in Sweepers PROVE SweepOK(sweep[v])'
    <3>1. CASE v = w
      BY <1>1, <2>5, <3>1 DEF SweepOK
    <3>2. CASE v # w
      <4>1. sweep'[v] = sweep[v] /\ SweepOK(sweep[v]) /\ sweep[v].mine \cap k.mine = {}
            /\ sweep[v].mine \subseteq Notes
        BY <1>0, <2>5, <3>2 DEF SweepType, k
      <4>2. \A n \in sweep[v].mine : ~sys'[n].stamped
        BY <2>4, <4>1 DEF SweepOK
      <4>3. QED
        BY <4>1, <4>2 DEF SweepOK
    <3>3. QED
      BY <3>1, <3>2
  <2>11. \A v, x \in Sweepers : v # x => sweep'[v].mine \cap sweep'[x].mine = {}
    BY <1>0, <1>1, <2>5
  <2>12. QED
    BY <2>6, <2>8, <2>9, <2>10, <2>11 DEF DigestInv
<1>8. CASE UNCHANGED digestVars
  BY <1>0, <1>8, NoteStep DEF digestVars
<1>9. QED
  BY <1>2, <1>3, <1>4, <1>5, <1>6, <1>7, <1>8 DEF DigestNext, Sweep

\* What sweeps hold is theirs alone, in every reachable state.
THEOREM SweepsInvariant == DigestSpec => []DigestInv
BY DigestStart, DigestStep, PTL DEF DigestSpec

\* However many sweeps race, wait for each other, find some of their batch stamped or roll
\* back, no notification is counted in two summaries, and a summary stands for at least
\* two of one user and type, all of them stamped (digest_tenant).
THEOREM SummariesAreDisjoint == DigestSpec => []OneSummaryEach
<1>1. DigestInv => OneSummaryEach
  BY DEF DigestInv, OneSummaryEach, Disjoint, Rolled, BigEnough
<1>2. QED
  BY <1>1, SweepsInvariant, PTL

-----------------------------------------------------------------------------
(* The scheduler.  A slot that is armed lies above every one that has been dispatched,  *)
(* unless a PATCH has set it back; what has been dispatched is not in the future, so    *)
(* that a slot armed anew from the clock is above it too; and a claim moves next_run on *)
(* for good, so that a PATCH that finds the one it had read overlapped none.            *)

JobType ==
    {NoJob} \cup [on: {"run"}, id: Schedules]
            \cup [on: {"insert", "status"}, id: Schedules, outcome: {"ok", "failed"}]

PatchType ==
    [on: {"read"}, id: Schedules, row: ScheduleRow, cron: Crons \cup {Never},
     enabled: BOOLEAN \cup {Never}]
    \cup [on: {"write"}, id: Schedules, was: Nat \cup {Never}, cron: Crons,
          enabled: BOOLEAN, next: Nat \cup {Never}]

JobsTypeOK ==
    /\ now \in Times /\ edits \in 0..MaxEdits /\ crashes \in 0..MaxCrashes
    /\ sched \in [Schedules -> ScheduleRow \cup {Never}]
    /\ job \in [Workers -> JobType]
    /\ patch \in PatchType \cup {NoPatch}
    /\ runs \in [Schedules -> Nat]
    /\ fired \in [Schedules -> [Times -> Nat]]
    /\ rewound \subseteq Schedules

\* An id is not created again: nothing has been dispatched of one that may be.
NewIdsUnused ==
    edits = MaxEdits => \A s \in Schedules : ~Exists(s) => \A t \in Times : fired[s][t] = 0

\* A row r of schedule s is armed above what was dispatched.
ArmedAbove(s, r) ==
    r # Never /\ r.next # Never => \A t \in Times : t >= r.next => fired[s][t] = 0

FiredOnce(s) == \A t \in Times : fired[s][t] <= 1

\* The next_run of a schedule is what was read, or claims have moved it on.
MovedOn(r, was) ==
    r # Never => \/ r.next = was
                 \/ was # Never /\ (r.next = Never \/ r.next > was)

\* A slot t that may be written for schedule s, whose row is r, if no claim came between.
Writable(s, r, was, n) ==
    r # Never /\ r.next = was =>
        n \in {Never, was} \/ \A t \in Times : t >= n => fired[s][t] = 0

PatchOK ==
    /\ patch.on # "idle" => edits # MaxEdits
    /\ patch.on = "read" => MovedOn(sched[patch.id], patch.row.next)
    /\ patch.on = "write" => /\ MovedOn(sched[patch.id], patch.was)
                             /\ Writable(patch.id, sched[patch.id], patch.was, patch.next)

JobsInv ==
    /\ JobsTypeOK /\ NewIdsUnused /\ PatchOK
    /\ \A s \in Schedules, t \in Times : fired[s][t] > 0 => t <= now
    /\ \A s \in Schedules \ rewound : FiredOnce(s) /\ ArmedAbove(s, sched[s])
    /\ \A s \in Schedules : runs[s] > 0 => Exists(s)

\* A non-empty set of slots has the least one that CHOOSE names.
LEMMA LeastSlot ==
    ASSUME NEW S, S \subseteq Nat, S # {}
    PROVE  LET u == CHOOSE u \in S : \A v \in S : u <= v
           IN u \in S /\ \A v \in S : u <= v
<1> DEFINE R == OpToRel(<, Nat)
<1>1. IsWellFoundedOn(R, Nat)
  BY NatLessThanWellFounded
<1>2. \A x, y \in Nat : x < y => <<x, y>> \in R
  BY DEF OpToRel
<1> HIDE DEF R
<1>3. PICK x \in S : \A y \in S : ~(<<y, x>> \in R)
  BY <1>1, WFMin
<1>4. ASSUME NEW y \in S PROVE x <= y
  <2>1. x \in Nat /\ y \in Nat /\ ~(y < x)
    BY <1>2, <1>3
  <2>2. QED
    BY <2>1
<1>5. QED
  BY <1>4

\* The next slot of a cron expression is later.
LEMMA Later ==
    ASSUME NEW c \in Crons, NEW t \in Nat
    PROVE  /\ FirstAfter(c, t) \in Nat \cup {Never}
           /\ FirstAfter(c, t) # Never => FirstAfter(c, t) > t
<1> DEFINE later == {u \in Slots[c] : u > t}
<1>1. later \subseteq Nat
  BY SlotsAssumption
<1>2. CASE later = {}
  BY <1>2 DEF FirstAfter
<1>3. CASE later # {}
  <2>1. FirstAfter(c, t) \in later
    BY <1>1, <1>3, LeastSlot DEF FirstAfter
  <2>2. QED
    BY <1>1, <2>1
<1>4. QED
  BY <1>2, <1>3

\* No slot is claimed at first.
LEMMA JobsStart == JobsInit => JobsInv
<1> SUFFICES ASSUME JobsInit PROVE JobsInv
  OBVIOUS
<1>1. 0 \in Times /\ MaxEdits \in 0..MaxEdits /\ MaxCrashes \in 0..MaxCrashes
  BY SlotsAssumption DEF Times
<1>2. JobsTypeOK
  BY <1>1 DEF JobsInit, JobsTypeOK, JobType
<1>3. QED
  BY <1>2 DEF JobsInit, JobsInv, NewIdsUnused, FiredOnce, ArmedAbove, Exists, PatchOK, NoPatch

\* What is under way in a PATCH and the step does not touch is kept.
LEMMA PatchKept ==
    ASSUME JobsInv, patch' = patch, fired' = fired, edits' = edits \/ edits' # MaxEdits,
           \A s \in Schedules : sched'[s] # Never =>
               sched[s] # Never /\ sched'[s].next = sched[s].next
    PROVE  PatchOK'
<1>1. CASE patch = NoPatch
  BY <1>1 DEF PatchOK, NoPatch
<1>2. CASE patch # NoPatch
  <2>1. patch \in PatchType /\ patch.id \in Schedules
    BY <1>2 DEF JobsInv, JobsTypeOK, PatchType
  <2>2. \A was : MovedOn(sched[patch.id], was) => MovedOn(sched'[patch.id], was)
    BY <2>1 DEF MovedOn
  <2>3. \A was, n : Writable(patch.id, sched[patch.id], was, n)
                       => Writable(patch.id, sched[patch.id], was, n)'
    BY <2>1 DEF Writable
  <2>4. QED
    BY <2>2, <2>3 DEF JobsInv, PatchOK
<1>3. QED
  BY <1>1, <1>2

\* A step that dispatches nothing.
LEMMA JobsKeep ==
    ASSUME JobsInv, JobsTypeOK', PatchOK', now' >= now, fired' = fired, rewound \subseteq rewound',
           edits' = MaxEdits =>
               edits = MaxEdits /\ \A s \in Schedules : sched'[s] = Never => sched[s] = Never,
           \A s \in Schedules \ rewound' : ArmedAbove(s, sched'[s]),
           \A s \in Schedules : runs'[s] > 0 => sched'[s] # Never
    PROVE  JobsInv'
<1>1. \A s \in Schedules, t \in Times : fired'[s][t] > 0 => t <= now'
  <2>1. now \in Nat /\ now' \in Nat /\ Times \subseteq Nat
    BY SlotsAssumption DEF JobsInv, JobsTypeOK, Times
  <2>2. ASSUME NEW s \in Schedules, NEW t \in Times, fired'[s][t] > 0 PROVE t <= now'
    <3>1. t <= now /\ t \in Nat
      BY <2>1, <2>2 DEF JobsInv
    <3>2. QED
      BY <2>1, <3>1
  <2>3. QED
    BY <2>2
<1>2. \A s \in Schedules \ rewound' : FiredOnce(s)' /\ ArmedAbove(s, sched[s])'
  BY DEF JobsInv, FiredOnce, ArmedAbove
<1>3. NewIdsUnused' /\ \A s \in Schedules : runs'[s] > 0 => Exists(s)'
  BY DEF JobsInv, NewIdsUnused, Exists
<1>4. QED
  BY <1>1, <1>2, <1>3 DEF JobsInv

\* What update_schedule computes is what it read, or above all that was dispatched.
LEMMA RearmedAbove ==
    ASSUME JobsInv, NEW s \in Schedules, NEW old \in ScheduleRow,
           NEW cron \in Crons \cup {Never}, NEW n, n = Rearmed(old, cron)
    PROVE  /\ n \in Nat \cup {Never}
           /\ \/ n = Never \/ n = old.next
              \/ \A t \in Times : t >= n => fired[s][t] = 0
<1>1. now \in Nat /\ Times \subseteq Nat /\ old.cron \in Crons /\ old.next \in Nat \cup {Never}
  BY SlotsAssumption DEF JobsInv, JobsTypeOK, Times, ScheduleRow
<1>2. CASE n = Never \/ n = old.next
  BY <1>1, <1>2
<1>3. CASE n # Never /\ n # old.next
  <2>1. PICK c \in Crons : n = FirstAfter(c, now)
    BY <1>1, <1>3, SlotsAssumption DEF Rearmed
  <2>2. n \in Nat /\ n > now
    BY <1>1, <1>3, <2>1, Later, SlotsAssumption
  <2>3. ASSUME NEW t \in Times, t >= n PROVE fired[s][t] = 0
    <3>1. ~(t <= now) /\ fired[s][t] \in Nat
      BY <1>1, <2>2, <2>3 DEF JobsInv, JobsTypeOK
    <3>2. QED
      BY <3>1 DEF JobsInv
  <2>4. QED
    BY <2>2, <2>3
<1>4. QED
  BY <1>2, <1>3

\* Each step of the ticks keeps the invariant of the slots.
LEMMA JobsStep == JobsInv /\ [JobsNext]_jobVars => JobsInv'
<1> SUFFICES ASSUME JobsInv, [JobsNext]_jobVars PROVE JobsInv'
  OBVIOUS
<1>0. /\ now \in Nat /\ now <= Horizon /\ Horizon \in Nat /\ MaxEdits \in Nat /\ MaxCrashes \in Nat
      /\ Times = 0..Horizon /\ edits \in Nat /\ edits <= MaxEdits /\ crashes \in 0..MaxCrashes
      /\ sched \in [Schedules -> ScheduleRow \cup {Never}] /\ job \in [Workers -> JobType]
      /\ patch \in PatchType \cup {NoPatch} /\ runs \in [Schedules -> Nat]
      /\ fired \in [Schedules -> [Times -> Nat]] /\ rewound \subseteq Schedules
      /\ \A s \in Schedules \ rewound : ArmedAbove(s, sched[s])
      /\ \A s \in Schedules : runs[s] > 0 => sched[s] # Never
      /\ \A s \in Schedules : Exists(s) => sched[s] \in ScheduleRow
      /\ Never \notin ScheduleRow
  BY SlotsAssumption DEF JobsInv, JobsTypeOK, Times, Exists
<1>a. now >= now /\ rewound \subseteq rewound
  BY <1>0
<1>1. CASE Passes
  <2>1. UNCHANGED <<sched, job, patch, runs, edits, crashes, fired, rewound>> /\ now' = now + 1
        /\ now < Horizon
    BY <1>1 DEF Passes
  <2>2. now' \in Times /\ now' >= now
    BY <1>0, <2>1
  <2>3. JobsTypeOK'
    BY <2>1, <2>2 DEF JobsInv, JobsTypeOK
  <2>4. PatchOK'
    BY <2>1, PatchKept
  <2>5. QED
    BY <1>0, <2>1, <2>2, <2>3, <2>4, JobsKeep
<1>2. ASSUME NEW s \in Schedules, NEW c \in Crons, Create(s, c) PROVE JobsInv'
  <2> DEFINE r == [cron |-> c, enabled |-> TRUE, next |-> FirstAfter(c, now), status |-> "none"]
  <2>1. r \in ScheduleRow
    BY <1>0, Later DEF ScheduleRow
  <2>2. sched' = [sched EXCEPT ![s] = r] /\ ~Exists(s) /\ edits = MaxEdits
        /\ UNCHANGED <<now, job, patch, runs, edits, crashes, fired, rewound>>
    BY <1>2 DEF Create
  <2> HIDE DEF r
  <2>3. JobsTypeOK'
    BY <2>1, <2>2 DEF JobsInv, JobsTypeOK
  <2>4. ArmedAbove(s, r)
    BY <2>2 DEF JobsInv, NewIdsUnused, ArmedAbove
  <2>5. /\ \A x \in Schedules : sched'[x] = Never => sched[x] = Never
        /\ \A x \in Schedules \ rewound' : ArmedAbove(x, sched'[x])
        /\ \A x \in Schedules : runs'[x] > 0 => sched'[x] # Never
    BY <1>0, <2>1, <2>2, <2>4
  <2>6. PatchOK'
    BY <1>0, <2>2 DEF JobsInv, PatchOK
  <2>7. QED
    BY <1>a, <2>2, <2>3, <2>5, <2>6, JobsKeep
<1>3. ASSUME NEW s \in Schedules, NEW c \in Crons \cup {Never}, NEW on \in BOOLEAN \cup {Never},
             PatchRead(s, c, on)
      PROVE  JobsInv'
  <2>1. /\ patch' = [on |-> "read", id |-> s, row |-> sched[s], cron |-> c, enabled |-> on]
        /\ edits' = edits - 1 /\ edits > 0 /\ Exists(s)
        /\ UNCHANGED <<now, sched, job, runs, crashes, fired, rewound>>
    BY <1>3 DEF PatchRead
  <2>2. patch' \in PatchType
    BY <1>0, <2>1 DEF PatchType
  <2>3. edits' \in 0..MaxEdits /\ edits' # MaxEdits
    BY <1>0, <2>1
  <2>4. JobsTypeOK'
    BY <2>1, <2>2, <2>3 DEF JobsInv, JobsTypeOK
  <2>5. PatchOK'
    BY <2>1, <2>3 DEF PatchOK, MovedOn
  <2>6. QED
    BY <1>0, <1>a, <2>1, <2>3, <2>4, <2>5, JobsKeep
<1>4. CASE PatchCompute
  <2> DEFINE s == patch.id
             old == patch.row
             on == IF patch.enabled = Never THEN old.enabled ELSE patch.enabled
             next == IF on THEN Rearmed(old, patch.cron) ELSE Never
             cron == IF patch.cron = Never THEN old.cron ELSE patch.cron
             p == [on |-> "write", id |-> s, was |-> old.next, cron |-> cron, enabled |-> on,
                   next |-> next]
  <2>1. /\ patch.on = "read" /\ patch' = p
        /\ UNCHANGED <<now, sched, job, runs, edits, crashes, fired, rewound>>
    BY <1>4 DEF PatchCompute
  <2>2. patch \in [on: {"read"}, id: Schedules, row: ScheduleRow, cron: Crons \cup {Never},
                   enabled: BOOLEAN \cup {Never}]
    BY <1>0, <2>1 DEF PatchType, NoPatch
  <2>3. /\ s \in Schedules /\ old \in ScheduleRow /\ patch.cron \in Crons \cup {Never}
        /\ patch.enabled \in BOOLEAN \cup {Never}
    BY <2>2
  <2>4. old.next \in Nat \cup {Never} /\ old.enabled \in BOOLEAN /\ old.cron \in Crons
    BY <2>3 DEF ScheduleRow
  <2>5. on \in BOOLEAN
    BY <2>3, <2>4
  <2>6. cron \in Crons
    BY <2>3, <2>4
  <2>7. PICK n : n = Rearmed(old, patch.cron)
    OBVIOUS
  <2>8. /\ n \in Nat \cup {Never}
        /\ n \in {Never, old.next} \/ \A t \in Times : t >= n => fired[s][t] = 0
    BY <2>3, <2>7, RearmedAbove
  <2>9. /\ next \in Nat \cup {Never}
        /\ next \in {Never, old.next} \/ \A t \in Times : t >= next => fired[s][t] = 0
    BY <2>7, <2>8
  <2>10. MovedOn(sched[s], old.next) /\ edits # MaxEdits
    BY <2>1 DEF JobsInv, PatchOK
  <2> HIDE DEF next, on, cron, old, s
  <2>11. p \in PatchType /\ p.on = "write" /\ p.id = s /\ p.was = old.next /\ p.next = next
    BY <2>3, <2>4, <2>5, <2>6, <2>9 DEF PatchType
  <2> HIDE DEF p
  <2>12. Writable(s, sched[s], old.next, next)
    BY <2>9 DEF Writable
  <2>14. JobsTypeOK'
    BY <2>1, <2>11 DEF JobsInv, JobsTypeOK
  <2>15. PatchOK'
    BY <2>1, <2>10, <2>11, <2>12 DEF PatchOK, Writable
  <2>16. QED
    BY <1>0, <1>a, <2>1, <2>14, <2>15, JobsKeep
<1>5. CASE PatchWrite
  <2> DEFINE s == patch.id
             r == [sched[s] EXCEPT !.cron = patch.cron, !.enabled = patch.enabled,
                                   !.next = patch.next]
  <2>1. /\ patch.on = "write" /\ patch' = NoPatch
        /\ UNCHANGED <<now, job, runs, edits, crashes, fired>>
    BY <1>5 DEF PatchWrite
  <2>2. patch \in [on: {"write"}, id: Schedules, was: Nat \cup {Never}, cron: Crons,
                   enabled: BOOLEAN, next: Nat \cup {Never}]
    BY <1>0, <2>1 DEF PatchType, NoPatch
  <2>3. /\ s \in Schedules /\ patch.cron \in Crons /\ patch.was \in Nat \cup {Never}
        /\ patch.next \in Nat \cup {Never}
    BY <2>2
  <2>4. patch.enabled \in BOOLEAN
    BY <2>2
  <2>5. PatchOK'
    BY <2>1 DEF PatchOK, NoPatch
  <2>6. CASE ~Exists(s)
    <3>1. UNCHANGED <<sched, rewound>>
      BY <1>5, <2>6 DEF PatchWrite
    <3>2. JobsTypeOK'
      BY <2>1, <3>1 DEF JobsInv, JobsTypeOK
    <3>3. QED
      BY <1>0, <1>a, <2>1, <2>5, <3>1, <3>2, JobsKeep
  <2>7. CASE Exists(s)
    <3>1. /\ sched' = [sched EXCEPT ![s] = r]
          /\ rewound' = IF sched[s].next # patch.was /\ DispatchedFrom(s, patch.next)
                        THEN rewound \cup {s} ELSE rewound
      BY <1>0, <1>5, <2>3, <2>7 DEF PatchWrite
    <3>2. sched[s] \in ScheduleRow
      BY <1>0, <2>3, <2>7
    <3>3. r \in ScheduleRow /\ r.next = patch.next
      BY <2>3, <2>4, <3>2 DEF ScheduleRow
    <3>4. sched[s] # Never /\ Writable(s, sched[s], patch.was, patch.next)
      BY <2>1, <2>7 DEF JobsInv, PatchOK, Exists
    <3> HIDE DEF r
    <3>5. rewound \subseteq rewound' /\ rewound' \subseteq Schedules
      BY <1>0, <2>3, <3>1
    <3>6. JobsTypeOK'
      BY <2>1, <2>3, <3>1, <3>3, <3>5 DEF JobsInv, JobsTypeOK
    <3>7. ASSUME s \notin rewound' PROVE ArmedAbove(s, r)
      <4>1. s \notin rewound /\ ArmedAbove(s, sched[s])
        BY <1>0, <2>3, <3>5, <3>7
      <4>2. CASE sched[s].next = patch.was
        BY <3>3, <3>4, <4>1, <4>2 DEF Writable, ArmedAbove
      <4>3. CASE sched[s].next # patch.was
        <5>1. ~DispatchedFrom(s, patch.next)
          BY <3>1, <3>7, <4>3
        <5>2. \A x \in Times : fired[s][x] \in Nat
          BY <1>0, <2>3
        <5>3. QED
          BY <3>3, <5>1, <5>2 DEF DispatchedFrom, ArmedAbove
      <4>4. QED
        BY <4>2, <4>3
    <3>8. /\ \A x \in Schedules : sched'[x] = Never => sched[x] = Never
          /\ \A x \in Schedules \ rewound' : ArmedAbove(x, sched'[x])
          /\ \A x \in Schedules : runs'[x] > 0 => sched'[x] # Never
      BY <1>0, <2>1, <2>3, <3>1, <3>3, <3>5, <3>7
    <3>9. QED
      BY <1>a, <2>1, <2>5, <3>5, <3>6, <3>8, JobsKeep
  <2>8. QED
    BY <2>6, <2>7
<1>6. ASSUME NEW s \in Schedules, Delete(s) PROVE JobsInv'
  <2>1. /\ edits' = edits - 1 /\ edits > 0 /\ sched' = [sched EXCEPT ![s] = Never]
        /\ runs' = [runs EXCEPT ![s] = 0] /\ UNCHANGED <<now, job, patch, crashes, fired, rewound>>
    BY <1>6 DEF Delete
  <2>2. edits' \in 0..MaxEdits /\ edits' # MaxEdits
    BY <1>0, <2>1
  <2>3. JobsTypeOK'
    BY <2>1, <2>2 DEF JobsInv, JobsTypeOK
  <2>4. /\ \A x \in Schedules \ rewound' : ArmedAbove(x, sched'[x])
        /\ \A x \in Schedules : runs'[x] > 0 => sched'[x] # Never
    <3>1. /\ sched'[s] = Never /\ runs'[s] = 0 /\ rewound' = rewound
          /\ \A x \in Schedules : x # s => sched'[x] = sched[x] /\ runs'[x] = runs[x]
      BY <1>0, <2>1
    <3>2. ArmedAbove(s, sched'[s])
      BY <3>1 DEF ArmedAbove
    <3>3. \A x \in Schedules \ rewound' : ArmedAbove(x, sched'[x])
      <4>1. \A x \in Schedules \ rewound : x # s => ArmedAbove(x, sched'[x])
        BY <3>1 DEF JobsInv
      <4>2. QED
        BY <3>1, <3>2, <4>1
    <3>4. \A x \in Schedules : runs'[x] > 0 => sched'[x] # Never
      <4>1. ~(0 > 0)
        OBVIOUS
      <4>2. QED
        BY <1>0, <3>1, <4>1
    <3>5. QED
      BY <3>3, <3>4
  <2>5. PatchOK'
    <3>1. \A x \in Schedules : sched'[x] # Never => sched'[x] = sched[x]
      BY <1>0, <2>1
    <3>2. QED
      BY <2>1, <2>2, <3>1, PatchKept
  <2>6. QED
    BY <1>a, <2>1, <2>2, <2>3, <2>4, <2>5, JobsKeep
<1>7. ASSUME NEW w \in Workers, NEW s \in Schedules, Claim(w, s) PROVE JobsInv'
  <2> DEFINE n == sched[s].next
             next == FirstAfter(sched[s].cron, n)
             r == [sched[s] EXCEPT !.status = "running", !.next = next]
  <2>1. sched[s] \in ScheduleRow /\ n # Never /\ n <= now /\ Exists(s)
    BY <1>0, <1>7 DEF Claim, Due, Armed
  <2>2. n \in Times /\ n \in Nat /\ sched[s].cron \in Crons
    BY <1>0, <2>1 DEF ScheduleRow
  <2>3. next \in Nat \cup {Never} /\ (next # Never => next > n)
    BY <2>2, Later
  <2>4. /\ job' = [job EXCEPT ![w] = [on |-> "run", id |-> s]]
        /\ fired' = [fired EXCEPT ![s][n] = @ + 1] /\ sched' = [sched EXCEPT ![s] = r]
        /\ UNCHANGED <<now, patch, runs, edits, crashes, rewound>>
    BY <1>0, <1>7 DEF Claim, NextSlot
  <2> HIDE DEF n, next
  <2>5. r \in ScheduleRow /\ r.next = next
    BY <2>1, <2>3 DEF ScheduleRow
  <2> HIDE DEF r
  <2>6. /\ fired' \in [Schedules -> [Times -> Nat]]
        /\ fired'[s][n] = fired[s][n] + 1
        /\ \A t \in Times : t # n => fired'[s][t] = fired[s][t]
        /\ \A x \in Schedules : x # s => fired'[x] = fired[x]
    BY <1>0, <2>2, <2>4
  <2>7. [on |-> "run", id |-> s] \in JobType
    BY DEF JobType
  <2>8. JobsTypeOK'
    BY <2>4, <2>5, <2>6, <2>7 DEF JobsInv, JobsTypeOK
  <2>9. NewIdsUnused'
    <3>1. \A x \in Schedules : sched'[x] = Never => x # s /\ sched[x] = Never
      BY <1>0, <2>4, <2>5
    <3>2. QED
      BY <2>4, <2>6, <3>1 DEF JobsInv, NewIdsUnused, Exists
  <2>10. \A x \in Schedules, t \in Times : fired'[x][t] > 0 => t <= now'
    BY <2>1, <2>4, <2>6 DEF JobsInv
  <2>11. ASSUME s \notin rewound
         PROVE  /\ \A t \in Times : fired'[s][t] <= 1
                /\ r.next # Never => \A t \in Times : t >= r.next => fired'[s][t] = 0
    <3>1. FiredOnce(s) /\ \A t \in Times : t >= n => fired[s][t] = 0
      BY <2>1, <2>11 DEF JobsInv, ArmedAbove, Exists, n
    <3>2. \A t \in Times : fired'[s][t] <= 1
      BY <2>2, <2>6, <3>1 DEF FiredOnce
    <3>3. ASSUME r.next # Never, NEW t \in Times, t >= r.next PROVE fired'[s][t] = 0
      <4>1. t \in Nat /\ t >= n /\ t # n
        BY <1>0, <2>2, <2>3, <2>5, <3>3
      <4>2. QED
        BY <2>6, <3>1, <4>1
    <3>4. QED
      BY <3>2, <3>3
  <2>12. \A x \in Schedules \ rewound' : FiredOnce(x)' /\ ArmedAbove(x, sched[x])'
    <3>1. \A x \in Schedules \ rewound : x # s => FiredOnce(x)' /\ ArmedAbove(x, sched[x])'
      BY <1>0, <2>4, <2>6 DEF JobsInv, FiredOnce, ArmedAbove
    <3>2. sched'[s] = r /\ rewound' = rewound
      BY <1>0, <2>4
    <3>3. s \notin rewound => FiredOnce(s)' /\ ArmedAbove(s, sched[s])'
      BY <2>11, <3>2 DEF FiredOnce, ArmedAbove
    <3>4. QED
      BY <3>1, <3>2, <3>3
  <2>13. \A x \in Schedules : runs'[x] > 0 => Exists(x)'
    BY <1>0, <2>4, <2>5 DEF Exists
  <2>14. PatchOK'
    <3>1. CASE patch = NoPatch
      BY <2>4, <3>1 DEF PatchOK, NoPatch
    <3>2. CASE patch # NoPatch
      <4>1. patch \in PatchType /\ patch.id \in Schedules
        BY <1>0, <3>2 DEF PatchType
      <4>2. patch.on \in {"read", "write"}
        BY <4>1 DEF PatchType
      <4>3. CASE patch.id # s
        <5>1. sched'[patch.id] = sched[patch.id] /\ fired'[patch.id] = fired[patch.id]
          BY <1>0, <2>4, <2>6, <4>1, <4>3
        <5>2. QED
          BY <2>4, <5>1 DEF JobsInv, PatchOK, Writable
      <4>4. CASE patch.id = s
        <5> DEFINE was == IF patch.on = "read" THEN patch.row.next ELSE patch.was
        <5>1. MovedOn(sched[s], was)
          BY <4>2, <4>4 DEF JobsInv, PatchOK
        <5>2. was \in Nat \cup {Never}
          BY <4>1 DEF PatchType, ScheduleRow
        <5>3. was # Never /\ n >= was
          BY <2>1, <2>2, <5>1, <5>2 DEF MovedOn, n, Exists
        <5> HIDE DEF was
        <5>4. sched'[s] = r /\ (r.next = Never \/ r.next > was)
          BY <1>0, <2>2, <2>3, <2>4, <2>5, <5>2, <5>3
        <5>5. MovedOn(sched'[s], was) /\ r.next # was
          BY <2>3, <2>5, <5>2, <5>3, <5>4 DEF MovedOn
        <5>6. QED
          BY <2>4, <4>2, <4>4, <5>4, <5>5 DEF JobsInv, PatchOK, Writable, was
      <4>5. QED
        BY <4>3, <4>4
    <3>3. QED
      BY <3>1, <3>2
  <2>15. QED
    BY <2>8, <2>9, <2>10, <2>12, <2>13, <2>14 DEF JobsInv
<1>8. ASSUME NEW w \in Workers, NEW s \in Schedules, Trigger(w, s) PROVE JobsInv'
  <2>1. /\ job' = [job EXCEPT ![w] = [on |-> "run", id |-> s]] /\ edits' = edits - 1 /\ edits > 0
        /\ UNCHANGED <<now, sched, patch, runs, crashes, fired, rewound>>
    BY <1>8 DEF Trigger
  <2>2. edits' \in 0..MaxEdits /\ edits' # MaxEdits
    BY <1>0, <2>1
  <2>3. [on |-> "run", id |-> s] \in JobType
    BY DEF JobType
  <2>4. JobsTypeOK'
    BY <2>1, <2>2, <2>3 DEF JobsInv, JobsTypeOK
  <2>5. PatchOK'
    BY <2>1, <2>2, PatchKept
  <2>6. QED
    BY <1>0, <1>a, <2>1, <2>2, <2>4, <2>5, JobsKeep
<1>9. ASSUME NEW w \in Workers, Dispatch(w) PROVE JobsInv'
  <2>1. PICK o \in {"ok", "failed"} :
           job' = [job EXCEPT ![w] = [on |-> "insert", id |-> job[w].id, outcome |-> o]]
    BY <1>0, <1>9 DEF Dispatch
  <2>2. job[w].id \in Schedules
    BY <1>0, <1>9 DEF Dispatch, JobType, NoJob
  <2>3. [on |-> "insert", id |-> job[w].id, outcome |-> o] \in JobType
    BY <2>2 DEF JobType
  <2>4. UNCHANGED <<now, sched, patch, runs, edits, crashes, fired, rewound>>
    BY <1>9 DEF Dispatch
  <2>5. JobsTypeOK'
    BY <2>1, <2>3, <2>4 DEF JobsInv, JobsTypeOK
  <2>6. PatchOK'
    BY <2>4, PatchKept
  <2>7. QED
    BY <1>0, <1>a, <2>4, <2>5, <2>6, JobsKeep
<1>10. ASSUME NEW w \in Workers, InsertRun(w) PROVE JobsInv'
  <2>1. job[w] \in [on: {"insert"}, id: Schedules, outcome: {"ok", "failed"}]
    BY <1>0, <1>10 DEF InsertRun, JobType, NoJob
  <2> DEFINE k == [job[w] EXCEPT !.on = "status"]
             s == job[w].id
  <2>2. k \in JobType /\ s \in Schedules
    BY <2>1 DEF JobType
  <2>3. /\ job' = [job EXCEPT ![w] = k]
        /\ runs' = [runs EXCEPT ![s] = IF Exists(s) THEN @ + 1 ELSE @]
        /\ UNCHANGED <<now, sched, patch, edits, crashes, fired, rewound>>
    BY <1>0, <1>10 DEF InsertRun
  <2> HIDE DEF k, s
  <2>4. runs' \in [Schedules -> Nat] /\ \A x \in Schedules : runs'[x] > 0 => sched[x] # Never
    BY <1>0, <2>2, <2>3 DEF Exists
  <2>5. JobsTypeOK'
    BY <2>2, <2>3, <2>4 DEF JobsInv, JobsTypeOK
  <2>6. PatchOK'
    BY <2>3, PatchKept
  <2>7. QED
    BY <1>0, <1>a, <2>3, <2>4, <2>5, <2>6, JobsKeep
<1>11. ASSUME NEW w \in Workers, SetStatus(w) PROVE JobsInv'
  <2>1. job[w] \in [on: {"status"}, id: Schedules, outcome: {"ok", "failed"}]
    BY <1>0, <1>11 DEF SetStatus, JobType, NoJob
  <2> DEFINE s == job[w].id
             o == job[w].outcome
             r == [sched[s] EXCEPT !.status = o]
  <2>2. s \in Schedules /\ o \in {"ok", "failed"}
    BY <2>1
  <2>3. /\ job' = [job EXCEPT ![w] = NoJob]
        /\ UNCHANGED <<now, patch, runs, edits, crashes, fired, rewound>>
    BY <1>11 DEF SetStatus
  <2>4. /\ sched' \in [Schedules -> ScheduleRow \cup {Never}]
        /\ \A x \in Schedules : sched'[x] = Never <=> sched[x] = Never
        /\ \A x \in Schedules : sched'[x] # Never => sched'[x].next = sched[x].next
    <3>1. CASE ~Exists(s)
      <4>1. sched' = sched
        BY <1>11, <3>1 DEF SetStatus
      <4>2. QED
        BY <1>0, <4>1
    <3>2. CASE Exists(s)
      <4>1. sched' = [sched EXCEPT ![s] = r]
        BY <1>0, <1>11, <3>2 DEF SetStatus
      <4>2. sched[s] \in ScheduleRow
        BY <1>0, <2>2, <3>2
      <4> HIDE DEF s, o
      <4>3. r \in ScheduleRow /\ r.next = sched[s].next
        BY <2>2, <4>2 DEF ScheduleRow
      <4> HIDE DEF r
      <4>4. QED
        BY <1>0, <2>2, <4>1, <4>2, <4>3
    <3>3. QED
      BY <3>1, <3>2
  <2>5. NoJob \in JobType
    BY DEF JobType
  <2>6. JobsTypeOK'
    BY <2>3, <2>4, <2>5 DEF JobsInv, JobsTypeOK
  <2>7. \A x \in Schedules \ rewound' : ArmedAbove(x, sched'[x])
    BY <1>0, <2>3, <2>4 DEF ArmedAbove
  <2>8. PatchOK'
    BY <2>3, <2>4, PatchKept
  <2>9. QED
    BY <1>0, <1>a, <2>3, <2>4, <2>6, <2>7, <2>8, JobsKeep
<1>12. ASSUME NEW w \in Workers, Crash(w) PROVE JobsInv'
  <2>1. job' = [job EXCEPT ![w] = NoJob] /\ crashes' \in 0..MaxCrashes
        /\ UNCHANGED <<now, sched, patch, runs, edits, fired, rewound>>
    BY <1>0, <1>12 DEF Crash
  <2>2. NoJob \in JobType
    BY DEF JobType
  <2>3. JobsTypeOK'
    BY <2>1, <2>2 DEF JobsInv, JobsTypeOK
  <2>4. PatchOK'
    BY <2>1, PatchKept
  <2>5. QED
    BY <1>0, <1>a, <2>1, <2>3, <2>4, JobsKeep
<1>13. CASE UNCHANGED jobVars
  <2>1. JobsTypeOK'
    BY <1>13 DEF JobsInv, JobsTypeOK, jobVars
  <2>2. PatchOK'
    BY <1>13, PatchKept DEF jobVars
  <2>3. QED
    BY <1>0, <1>a, <1>13, <2>1, <2>2, JobsKeep DEF jobVars
<1>14. QED
  BY <1>1, <1>2, <1>3, <1>4, <1>5, <1>6, <1>7, <1>8, <1>9, <1>10, <1>11, <1>12, <1>13
     DEF JobsNext, Tick

\* What is armed lies above what was dispatched, in every reachable state.
THEOREM JobsInvariant == JobsSpec => []JobsInv
BY JobsStart, JobsStep, PTL DEF JobsSpec

\* However many processes run the scheduler and however late they tick, crash or are
\* edited under, a slot is dispatched twice only after a PATCH that overlapped a claim has
\* written a next_run at or below a slot that was dispatched, and a schedule that is gone
\* has no history (tick, update_schedule, record_run).
THEOREM SlotsFireOnce == JobsSpec => []OncePerSlot
<1>1. JobsInv => OncePerSlot
  <2> SUFFICES ASSUME JobsInv PROVE OncePerSlot
    OBVIOUS
  <2>1. ASSUME NEW s \in Schedules, NEW t \in Times, fired[s][t] > 1 PROVE s \in rewound
    <3>1. fired[s][t] \in Nat
      BY DEF JobsInv, JobsTypeOK
    <3>2. QED
      BY <2>1, <3>1 DEF JobsInv, FiredOnce
  <2>2. QED
    BY <2>1 DEF JobsInv, OncePerSlot
<1>2. QED
  BY <1>1, JobsInvariant, PTL
=============================================================================

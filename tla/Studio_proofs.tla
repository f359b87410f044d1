---------------------------- MODULE Studio_proofs ----------------------------
(***************************************************************************)
(* Proofs about Studio, for every model, number of drafts and handlers:    *)
(* purges match retirements, no save loses an edit it has not seen, and a  *)
(* publish that no other overlapped archives what was live, makes live     *)
(* what it published and leaves no reference dangling; and about the       *)
(* Studio's client: its editor, its lists and its page designers.          *)
(***************************************************************************)
EXTENDS Studio, StudioClient, Panels, Designers, FiniteSetTheorems, TLAPS

(* The inductive invariant: what a request has read is still true, unless the row or   *)
(* the version it was read with has gone.                                               *)

\* An editor's etag is not ahead of its draft's, and the same etag means the same model;
\* a publish that read the present version has read the active model, unless another
\* publish overlapped some reading before.
ReqOK(r) ==
    /\ r.op \in {"edit", "put"} =>
           /\ r.draft < nextDraft
           /\ Exists(r.draft) =>
                  /\ r.etag <= draft[r.draft].etag
                  /\ draft[r.draft].etag = r.etag => draft[r.draft].model = r.seen
    /\ r.op = "put" => r.etag < MaxSaves
    /\ r.op \in {"load", "apply"} => r.since <= version
    /\ r.op = "load" /\ r.since = version => overlapped \/ r.ents = Active \cap Entities
    /\ r.op = "apply" => /\ Valid(r.active, r.model)
                         /\ r.since = version => overlapped \/ r.active = Active

ReqInv == \A h \in Handlers : ReqOK(req[h])

\* A draft's number is not used twice, not even after a discard.
DraftInv == \A d \in Drafts : Exists(d) => d < nextDraft

LiveInv == ~overlapped => /\ Active \in AnyModel /\ lived[version] = Active
                          /\ \A l \in Active \cap Links : Target[l] \in Active

StudioInv ==
    /\ TypeOK /\ RetirementsMatch /\ SnapshotsFaithful
    /\ ReqInv /\ DraftInv /\ LiveInv

-----------------------------------------------------------------------------
(* The operators a publish is built from *)

\* What is read while the version stands is the active model.
LEMMA AssembledActive ==
    ASSUME Active \in AnyModel PROVE Assembled(Active \cap Entities) = Active
<1>1. \A l \in Active \cap Links : Source[l] \in Active /\ Source[l] \in Entities
  BY LinksAssumption DEF AnyModel
<1>2. Active \subseteq Entities \cup Links /\ \A l \in Links : l \in Active <=> status[l] = "active"
  BY DEF Active, Items
<1>3. QED
  BY <1>1, <1>2 DEF Assembled

\* A model assembled from entities is a model.
LEMMA AssembledModel ==
    ASSUME NEW ents \in SUBSET Entities PROVE Assembled(ents) \in AnyModel
BY LinksAssumption DEF Assembled, AnyModel, Items

\* The archive keeps the History versions up to the one that is archived.
Archive(n, L) == {[version |-> v, model |-> L[v]] : v \in {k \in 0..n : k + History >= n}}
Kept(n, L)    == {[version |-> v, model |-> L[v]] : v \in {k \in 0..n : k + History >= n + 1}}

\* The archive keeps the last History versions.
LEMMA LatestVersions ==
    ASSUME NEW n \in Nat, NEW L PROVE Latest(Archive(n, L)) = Kept(n, L)
<1> DEFINE S == Archive(n, L)
           Entry(v) == [version |-> v, model |-> L[v]]
<1>0. History \in Nat /\ History > 0
  BY BoundsAssumption
<1>1. ASSUME NEW k \in 0..n, k + History >= n
      PROVE  Cardinality({t \in S : t.version >= k}) = n - k + 1
  <2> DEFINE T == {t \in S : t.version >= k}
             f == [v \in k..n |-> Entry(v)]
  <2>1. IsFiniteSet(k..n) /\ Cardinality(k..n) = n - k + 1
    BY FS_Interval
  <2>2. \A v \in k..n : Entry(v) \in T
    BY <1>0, <1>1 DEF Archive
  <2>3. \A t \in T : \E v \in k..n : t = Entry(v)
    BY DEF Archive
  <2>4. f \in [k..n -> T] /\ \A v \in k..n : f[v] = Entry(v)
    BY <2>2
  <2>5. f \in Surjection(k..n, T)
    <3> HIDE DEF T, f
    <3>1. QED
      BY <2>3, <2>4 DEF Surjection
  <2>6. f \in Injection(k..n, T)
    <3>1. \A v, x \in k..n : f[v] = f[x] => v = x
      BY <2>4
    <3> HIDE DEF T, f
    <3>2. QED
      BY <2>4, <3>1 DEF Injection, IsInjective
  <2> HIDE DEF T, f
  <2>7. Cardinality(T) = Cardinality(k..n)
    BY <2>1, <2>5, <2>6, FS_Surjection
  <2>8. QED
    BY <2>1, <2>7 DEF T
<1>2. ASSUME NEW k \in 0..n, k + History >= n
      PROVE  Cardinality({t \in S : t.version >= k}) <= History <=> k + History >= n + 1
  BY <1>0, <1>1, <1>2
<1> DEFINE Fits(k) == Cardinality({t \in S : t.version >= k}) <= History
<1>3. \A s : s \in Latest(S) <=> \E k \in 0..n : s = Entry(k) /\ k + History >= n /\ Fits(k)
  <2>1. Latest(S) = {s \in S : Fits(s.version)}
    BY DEF Latest
  <2>2. \A s : s \in S <=> \E k \in 0..n : s = Entry(k) /\ k + History >= n
    BY DEF Archive
  <2>3. \A k : Entry(k).version = k
    OBVIOUS
  <2> HIDE DEF S, Entry, Fits
  <2>4. QED
    BY <2>1, <2>2, <2>3
<1>4. \A s : s \in Kept(n, L) <=> \E k \in 0..n : s = Entry(k) /\ k + History >= n + 1
  BY DEF Kept
<1>5. \A k \in 0..n : k + History >= n + 1 => k + History >= n
  BY <1>0
<1>6. \A k \in 0..n : k + History >= n => (Fits(k) <=> k + History >= n + 1)
  BY <1>2
<1> HIDE DEF S, Entry, Fits
<1>7. \A s : s \in Latest(S) <=> s \in Kept(n, L)
  BY <1>6, <1>3, <1>4, <1>5
<1>8. QED
  BY <1>7 DEF S

-----------------------------------------------------------------------------
(* What a request holds, by its kind *)

\* What a request in flight carries, by its operation.
LEMMA RequestKinds ==
    ASSUME NEW r \in Request
    PROVE  /\ r.op \in {"idle", "branch", "edit", "put", "discard", "publish", "load", "apply",
                        "announce"}
           /\ r.op = "branch" => r.ents \in SUBSET Entities
           /\ r.op = "edit" => /\ r.draft \in Drafts /\ r.etag \in 0..MaxSaves
                               /\ r.seen \in AnyModel
           /\ r.op = "put" => /\ r.draft \in Drafts /\ r.etag \in 0..MaxSaves
                              /\ r.seen \in AnyModel /\ r.model \in Models
           /\ r.op = "discard" => r.draft \in Drafts
           /\ r.op = "publish" => r.draft \in Drafts /\ r.model \in AnyModel
           /\ r.op = "load" => /\ r.draft \in Drafts /\ r.model \in AnyModel
                               /\ r.ents \in SUBSET Entities /\ r.since \in 0..MaxVersion
           /\ r.op = "apply" => /\ r.draft \in Drafts /\ r.model \in AnyModel
                                /\ r.active \in AnyModel /\ r.since \in 0..MaxVersion
BY DEF Request, Idle

\* The models of the constants are models.
LEMMA ModelsAreModels == Models \subseteq AnyModel /\ First \subseteq AnyModel
BY ModelsAssumption DEF AnyModel

\* What the type invariant says of requests and drafts.
LEMMA TypeFacts ==
    ASSUME TypeOK
    PROVE  /\ \A h \in Handlers : req[h] \in Request
           /\ \A d \in Drafts : Exists(d) => /\ draft[d].status \in {"draft", "published"}
                                             /\ draft[d].etag \in 0..MaxSaves
                                             /\ draft[d].model \in AnyModel
           /\ version \in Nat /\ MaxVersion \in Nat /\ MaxSaves \in Nat
           /\ Active \in SUBSET Items
BY BoundsAssumption DEF TypeOK, Exists, Row, Active

\* The invariant of the Studio holds at first.
LEMMA InitInv == Init => StudioInv
<1> SUFFICES ASSUME Init PROVE StudioInv
  OBVIOUS
<1>1. PICK m \in First :
          /\ status = [i \in Items |-> IF i \in m THEN "active" ELSE "absent"]
          /\ version = IF m = {} THEN 0 ELSE 1
          /\ announced = version
          /\ snapshot = IF version = 0 THEN {} ELSE {[version |-> 0, model |-> {}]}
          /\ lived = [k \in 0..version |-> IF k = version THEN m ELSE {}]
  BY DEF Init
<1>2. /\ m \in AnyModel /\ {} \in AnyModel /\ Active = m
      /\ \A l \in m \cap Links : Target[l] \in m
  BY <1>1, ModelsAreModels, ModelsAssumption DEF Active, AnyModel
<1>3. /\ retirement = [i \in Items |-> 0] /\ draft = [d \in Drafts |-> None] /\ nextDraft = 1
      /\ req = [h \in Handlers |-> Idle] /\ overlapped = FALSE
  BY DEF Init
<1>4. TypeOK
  <2>1. m \subseteq Items /\ version \in {0, 1} /\ 1 \in 0..MaxVersion /\ 0 \in 0..MaxVersion
    BY <1>1, <1>2, BoundsAssumption DEF AnyModel
  <2>2. snapshot \subseteq [version: 0..MaxVersion, model: AnyModel]
    BY <1>1, <1>2, <2>1
  <2>3. DOMAIN lived = 0..version /\ \A v \in 0..version : lived[v] \subseteq Items
    BY <1>1, <2>1
  <2>4. req \in [Handlers -> Request]
    BY <1>3 DEF Request
  <2>5. nextDraft \in 1..(MaxDrafts + 1)
    BY <1>3, BoundsAssumption
  <2>6. version \in 0..MaxVersion /\ announced \in 0..version
    BY <1>1, <2>1
  <2>7. QED
    BY <1>1, <1>3, <2>2, <2>3, <2>4, <2>5, <2>6 DEF TypeOK
<1>5. RetirementsMatch
  BY <1>1, <1>3 DEF RetirementsMatch
<1>6. SnapshotsFaithful
  <2>1. CASE version = 0
    BY <1>1, <2>1, BoundsAssumption DEF SnapshotsFaithful
  <2>2. CASE version = 1
    <3>1. {k \in 0..(version - 1) : k + History >= version} = {0}
      BY <2>2, BoundsAssumption
    <3>2. lived[0] = {}
      BY <1>1, <2>2
    <3>3. QED
      BY <1>1, <2>2, <3>1, <3>2 DEF SnapshotsFaithful
  <2>3. QED
    BY <1>1, <2>1, <2>2
<1>7. ReqInv /\ DraftInv
  BY <1>3 DEF ReqInv, DraftInv, ReqOK, Idle, Exists
<1>8. LiveInv
  BY <1>1, <1>2 DEF LiveInv
<1>9. QED
  BY <1>4, <1>5, <1>6, <1>7, <1>8 DEF StudioInv

-----------------------------------------------------------------------------
(* Steps that leave the tables of the model alone *)

\* A step that writes neither the model nor a draft: one request goes on.
LEMMA RequestStep ==
    ASSUME StudioInv, NEW h \in Handlers, NEW new \in Request, ReqOK(new),
           req' = [req EXCEPT ![h] = new], UNCHANGED <<Model, DraftRow>>,
           announced' \in {announced, version}
    PROVE  StudioInv'
<1>0. UNCHANGED <<status, retirement, version, snapshot, lived, overlapped, draft, nextDraft>>
  BY DEF Model, DraftRow
<1>1. TypeOK'
  BY <1>0 DEF StudioInv, TypeOK
<1>2. RetirementsMatch' /\ SnapshotsFaithful' /\ DraftInv' /\ LiveInv'
  BY <1>0 DEF StudioInv, RetirementsMatch, SnapshotsFaithful, DraftInv, LiveInv, Exists, Active
<1>3. \A r : ReqOK(r) => ReqOK(r)'
  BY <1>0 DEF ReqOK, Exists, Active
<1>4. \A k \in Handlers : req'[k] = new \/ req'[k] = req[k]
  BY DEF StudioInv, TypeOK
<1>5. ReqInv'
  BY <1>3, <1>4 DEF StudioInv, ReqInv
<1>6. QED
  BY <1>1, <1>2, <1>5 DEF StudioInv

\* A step that writes one draft, under a number that is not used or under a new etag.
LEMMA DraftStep ==
    ASSUME StudioInv, NEW d \in Drafts, NEW new \in Row \cup {None},
           draft' = [draft EXCEPT ![d] = new], UNCHANGED <<Model, announced>>,
           \/ nextDraft' = nextDraft /\ (Exists(d) \/ new = None)
              /\ (new # None => new.etag > draft[d].etag)
           \/ d = nextDraft /\ nextDraft' = nextDraft + 1,
           NEW h \in Handlers, req' = req \/ req' = [req EXCEPT ![h] = Idle]
    PROVE  StudioInv'
<1>0. UNCHANGED <<status, retirement, version, snapshot, lived, overlapped, announced>>
  BY DEF Model
<1>a. /\ nextDraft \in 1..(MaxDrafts + 1) /\ MaxDrafts \in Nat /\ Drafts \subseteq Nat
      /\ draft \in [Drafts -> Row \cup {None}] /\ Idle \in Request
      /\ req \in [Handlers -> Request]
  BY BoundsAssumption DEF StudioInv, TypeOK, Drafts, Request
<1>1. nextDraft' \in 1..(MaxDrafts + 1)
  BY <1>a DEF Drafts
<1>2. TypeOK'
  BY <1>0, <1>a, <1>1 DEF StudioInv, TypeOK
<1>3. RetirementsMatch' /\ SnapshotsFaithful' /\ LiveInv'
  BY <1>0 DEF StudioInv, RetirementsMatch, SnapshotsFaithful, LiveInv, Active
<1>4. DraftInv'
  BY <1>a DEF StudioInv, DraftInv, Exists
<1>5. ASSUME NEW r \in Request, ReqOK(r) PROVE ReqOK(r)'
  <2>1. ASSUME r.op \in {"edit", "put"}
        PROVE  /\ r.draft < nextDraft'
               /\ Exists(r.draft)' =>
                      /\ r.etag <= draft'[r.draft].etag
                      /\ draft'[r.draft].etag = r.etag => draft'[r.draft].model = r.seen
    <3>1. r.draft \in Drafts /\ r.etag \in 0..MaxSaves /\ MaxSaves \in Nat
      BY <2>1, RequestKinds, BoundsAssumption
    <3>2. r.draft < nextDraft /\ r.draft < nextDraft'
      BY <1>5, <1>a, <2>1, <3>1 DEF ReqOK
    <3>3. CASE r.draft # d
      BY <1>5, <1>a, <2>1, <3>1, <3>2, <3>3 DEF ReqOK, Exists
    <3>4. CASE r.draft = d
      <4>1. nextDraft' = nextDraft /\ draft'[d] = new
        BY <1>a, <3>2, <3>4
      <4>2. CASE new # None
        <5>1. new \in Row /\ draft[d] \in Row /\ new.etag > draft[d].etag
          BY <1>a, <3>2, <3>4, <4>2 DEF Exists
        <5>2. new.etag \in Nat /\ draft[d].etag \in Nat
          BY <3>1, <5>1 DEF Row
        <5>3. r.etag <= draft[d].etag
          BY <1>5, <1>a, <2>1, <3>2, <3>4, <4>2 DEF ReqOK, Exists
        <5>4. QED
          BY <3>1, <3>2, <3>4, <4>1, <5>1, <5>2, <5>3
      <4>3. QED
        BY <3>2, <3>4, <4>1, <4>2 DEF Exists
    <3>5. QED
      BY <3>3, <3>4
  <2>2. QED
    BY <1>0, <1>5, <2>1 DEF ReqOK, Active
<1>6. ReqOK(Idle)
  BY DEF ReqOK, Idle
<1>7. \A k \in Handlers : req'[k] = Idle \/ req'[k] = req[k]
  BY <1>a
<1>8. ReqInv'
  BY <1>a, <1>5, <1>6, <1>7 DEF StudioInv, ReqInv
<1>9. QED
  BY <1>2, <1>3, <1>4, <1>8 DEF StudioInv

-----------------------------------------------------------------------------
(* A publish *)

\* What Apply makes of the rows, one item at a time.
LEMMA AppliedRows ==
    ASSUME TypeOK, RetirementsMatch, NEW old, NEW m, NEW i \in Items
    PROVE  /\ StatusAfter(i, old, m) \in {"absent", "active", "retired"}
           /\ Pending(i, old, m) \in Nat
           /\ StatusAfter(i, old, m) = "retired" <=> Pending(i, old, m) > 0
<1>1. /\ status[i] \in {"absent", "active", "retired"} /\ retirement[i] \in Nat
      /\ status[i] = "retired" <=> retirement[i] > 0
  BY DEF TypeOK, RetirementsMatch
<1>2. CASE i \in Added(old, m)
  BY <1>1, <1>2 DEF StatusAfter, Pending
<1>3. CASE i \in Retired(old, m)
  <2>1. i \notin Added(old, m)
    BY <1>3 DEF Added, Retired
  <2>2. QED
    BY <1>1, <1>3, <2>1 DEF StatusAfter, Pending
<1>4. CASE i \notin Added(old, m) /\ i \notin Retired(old, m)
  BY <1>1, <1>4 DEF StatusAfter, Pending
<1>5. QED
  BY <1>2, <1>3, <1>4

\* The difference to the active model makes the draft's model the active one.
LEMMA AppliedModel ==
    ASSUME NEW m \in SUBSET Items,
           status' = [i \in Items |-> StatusAfter(i, Active, m)]
    PROVE  Active' = m
<1>1. ASSUME NEW i \in Items PROVE status'[i] = "active" <=> i \in m
  BY DEF StatusAfter, Added, Retired, Active
<1>2. QED
  BY <1>1 DEF Active

\* What a publish by handler h does: of the assignments, those the invariant is about.
LEMMA ApplyFacts ==
    ASSUME StudioInv, NEW h \in Handlers, Apply(h)
    PROVE  LET d == req[h].draft
               old == req[h].active
               m == req[h].model
           IN /\ d \in Drafts /\ old \in AnyModel /\ m \in AnyModel /\ m \subseteq Items
              /\ Exists(d) /\ draft[d].status = "draft"
              /\ version \in Nat /\ version < MaxVersion /\ version' = version + 1
              /\ snapshot' = Latest(snapshot \cup {[version |-> version, model |-> old]})
              /\ status' = [i \in Items |-> StatusAfter(i, old, m)]
              /\ retirement' = [i \in Items |-> Pending(i, old, m)]
              /\ draft' = [draft EXCEPT ![d] = [draft[d] EXCEPT !.status = "published"]]
              /\ lived' = [v \in 0..version' |-> IF v = version' THEN Active' ELSE lived[v]]
              /\ overlapped' = (overlapped \/ req[h].since # version)
              /\ req' = [req EXCEPT ![h] = [op |-> "announce"]]
              /\ UNCHANGED <<nextDraft, announced>>
              /\ Valid(old, m) /\ (~overlapped' => old = Active)
<1>1. req[h] \in Request /\ req[h].op = "apply" /\ ReqOK(req[h])
  BY TypeFacts DEF StudioInv, ReqInv, Apply
<1>2. /\ req[h].draft \in Drafts /\ req[h].active \in AnyModel /\ req[h].model \in AnyModel
  BY <1>1, RequestKinds
<1>3. Valid(req[h].active, req[h].model)
  BY <1>1 DEF ReqOK
<1>4. overlapped' = (overlapped \/ req[h].since # version)
  BY DEF Apply
<1>5. overlapped \in BOOLEAN /\ (~overlapped' => req[h].active = Active)
  BY <1>1, <1>4 DEF ReqOK, StudioInv, TypeOK
<1>6. draft' = [draft EXCEPT ![req[h].draft] = [draft[req[h].draft] EXCEPT !.status = "published"]]
  BY DEF Apply
<1>7. QED
  BY <1>2, <1>3, <1>4, <1>5, <1>6, TypeFacts DEF StudioInv, Apply, GoOn, AnyModel, Active

\* The publish transaction keeps the invariant.
LEMMA ApplyStep ==
    ASSUME StudioInv, NEW h \in Handlers, Apply(h) PROVE StudioInv'
<1> DEFINE d == req[h].draft
           old == req[h].active
           m == req[h].model
           row == [draft[d] EXCEPT !.status = "published"]
<1>1. /\ d \in Drafts /\ old \in AnyModel /\ m \in AnyModel /\ m \subseteq Items
      /\ Exists(d) /\ draft[d].status = "draft"
      /\ version \in Nat /\ version < MaxVersion /\ version' = version + 1
      /\ snapshot' = Latest(snapshot \cup {[version |-> version, model |-> old]})
      /\ status' = [i \in Items |-> StatusAfter(i, old, m)]
      /\ retirement' = [i \in Items |-> Pending(i, old, m)]
      /\ draft' = [draft EXCEPT ![d] = row]
      /\ lived' = [v \in 0..version' |-> IF v = version' THEN Active' ELSE lived[v]]
      /\ overlapped' = (overlapped \/ req[h].since # version)
      /\ req' = [req EXCEPT ![h] = [op |-> "announce"]]
      /\ UNCHANGED <<nextDraft, announced>>
      /\ Valid(old, m) /\ (~overlapped' => old = Active)
  BY ApplyFacts
<1>2. draft[d] \in Row /\ row \in Row /\ row.etag = draft[d].etag /\ row.model = draft[d].model
  <2>1. draft[d] \in Row
    BY <1>1 DEF StudioInv, TypeOK, Exists
  <2>2. QED
    BY <2>1 DEF Row
<1> HIDE DEF row, d, old, m
<1>3. TypeOK' /\ RetirementsMatch'
  <2>1. /\ status' \in [Items -> {"absent", "active", "retired"}]
        /\ retirement' \in [Items -> Nat] /\ RetirementsMatch'
    BY <1>1, AppliedRows DEF StudioInv, RetirementsMatch
  <2>2. version' \in 0..MaxVersion /\ announced' \in 0..version'
    BY <1>1, BoundsAssumption DEF StudioInv, TypeOK
  <2>3. snapshot' \subseteq [version: 0..MaxVersion, model: AnyModel]
    <3>1. version \in 0..MaxVersion
      BY DEF StudioInv, TypeOK
    <3>2. snapshot \cup {[version |-> version, model |-> old]}
              \subseteq [version: 0..MaxVersion, model: AnyModel]
      BY <1>1, <3>1 DEF StudioInv, TypeOK
    <3>3. QED
      BY <1>1, <3>2 DEF Latest
  <2>4. DOMAIN lived' = 0..version' /\ \A v \in 0..version' : lived'[v] \subseteq Items
    <3>1. \A v \in 0..version : lived[v] \subseteq Items
      BY DEF StudioInv, TypeOK
    <3>2. \A v \in 0..version' : v = version' \/ v \in 0..version
      BY <1>1
    <3>3. Active' \subseteq Items
      BY DEF Active
    <3>4. QED
      BY <1>1, <3>1, <3>2, <3>3
  <2>5. draft' \in [Drafts -> Row \cup {None}] /\ req' \in [Handlers -> Request]
    <3>1. [op |-> "announce"] \in Request
      BY DEF Request
    <3>2. QED
      BY <1>1, <1>2, <3>1 DEF StudioInv, TypeOK
  <2>6. nextDraft' \in 1..(MaxDrafts + 1) /\ overlapped' \in BOOLEAN
    BY <1>1 DEF StudioInv, TypeOK
  <2>7. QED
    BY <2>1, <2>2, <2>3, <2>4, <2>5, <2>6 DEF TypeOK
<1>4. ~overlapped' => ~overlapped /\ old = Active /\ Active' = m
  <2>1. ~overlapped' => ~overlapped
    BY <1>1, Zenon
  <2>2. ASSUME old = Active PROVE Active' = m
    <3>1. status' = [i \in Items |-> StatusAfter(i, Active, m)] /\ m \in SUBSET Items
      BY <1>1, <2>2
    <3>2. QED
      BY <3>1, AppliedModel
  <2>3. QED
    BY <1>1, <2>1, <2>2, Zenon
<1>5. LiveInv'
  BY <1>1, <1>4 DEF LiveInv, Valid
<1>6. SnapshotsFaithful'
  <2> SUFFICES ASSUME ~overlapped'
               PROVE  snapshot' = {[version |-> v, model |-> lived'[v]] :
                                      v \in {k \in 0..(version' - 1) : k + History >= version'}}
    BY DEF SnapshotsFaithful
  <2>1. /\ snapshot = {[version |-> v, model |-> lived[v]] :
                          v \in {k \in 0..(version - 1) : k + History >= version}}
        /\ lived[version] = old
    BY <1>4 DEF StudioInv, SnapshotsFaithful, LiveInv
  <2>2. {k \in 0..version : k + History >= version}
            = {k \in 0..(version - 1) : k + History >= version} \cup {version}
    BY <1>1, BoundsAssumption
  <2>3. snapshot \cup {[version |-> version, model |-> old]} = Archive(version, lived)
    BY <2>1, <2>2 DEF Archive
  <2>4. snapshot' = Kept(version, lived)
    BY <1>1, <2>3, LatestVersions
  <2>5. \A v \in 0..version : lived'[v] = lived[v]
    BY <1>1
  <2>6. {k \in 0..(version' - 1) : k + History >= version'}
            = {k \in 0..version : k + History >= version + 1}
    BY <1>1
  <2>7. QED
    BY <2>4, <2>5, <2>6 DEF Kept
<1>7. DraftInv'
  BY <1>1 DEF StudioInv, TypeOK, DraftInv, Exists
<1>8. ReqInv'
  <2>1. ASSUME NEW r \in Request, ReqOK(r) PROVE ReqOK(r)'
    <3>1. r.op \in {"edit", "put"} => r.draft \in Drafts
      BY RequestKinds
    <3>2. ASSUME r.op \in {"edit", "put"}
          PROVE  /\ r.draft < nextDraft'
                 /\ Exists(r.draft)' =>
                        /\ r.etag <= draft'[r.draft].etag
                        /\ draft'[r.draft].etag = r.etag => draft'[r.draft].model = r.seen
      BY <1>1, <1>2, <2>1, <3>1, <3>2 DEF ReqOK, StudioInv, TypeOK, Exists
    <3>3. ASSUME r.op \in {"load", "apply"} PROVE r.since <= version' /\ r.since # version'
      <4>1. r.since \in 0..MaxVersion /\ r.since <= version
        BY <2>1, <3>3, RequestKinds DEF ReqOK
      <4>2. QED
        BY <1>1, <4>1, BoundsAssumption
    <3>4. QED
      BY <2>1, <3>2, <3>3 DEF ReqOK, Valid
  <2>2. ReqOK([op |-> "announce"])'
    BY DEF ReqOK
  <2>3. \A k \in Handlers : req'[k] = [op |-> "announce"] \/ req'[k] = req[k]
    BY <1>1 DEF StudioInv, TypeOK
  <2>4. QED
    BY <2>1, <2>2, <2>3, TypeFacts DEF StudioInv, ReqInv
<1>9. QED
  BY <1>3, <1>5, <1>6, <1>7, <1>8 DEF StudioInv

-----------------------------------------------------------------------------
(* The invariant and what it gives *)

\* Each step keeps the invariant of the Studio.
LEMMA StepInv == StudioInv /\ [Next]_vars => StudioInv'
<1> SUFFICES ASSUME StudioInv, [Next]_vars PROVE StudioInv'
  OBVIOUS
<1>0. /\ TypeOK /\ ReqInv /\ \A h \in Handlers : req[h] \in Request /\ ReqOK(req[h])
      /\ Idle \in Request /\ ReqOK(Idle) /\ Idle.op = "idle"
  BY TypeFacts DEF StudioInv, ReqInv, Request, ReqOK, Idle
<1>1. ASSUME NEW h \in Handlers, BranchBegin(h) PROVE StudioInv'
  <2> DEFINE new == [op |-> "branch", ents |-> Active \cap Entities]
  <2>1. new \in Request /\ ReqOK(new)
    BY DEF Request, ReqOK
  <2>2. req' = [req EXCEPT ![h] = new] /\ UNCHANGED <<Model, DraftRow, announced>>
    BY <1>1 DEF BranchBegin, Begin
  <2> HIDE DEF new
  <2>3. QED
    BY <2>1, <2>2, RequestStep
<1>2. ASSUME NEW h \in Handlers, NEW m \in AnyModel, Insert(m),
             req' = req \/ req' = [req EXCEPT ![h] = Idle], UNCHANGED <<Model, announced>>
      PROVE  StudioInv'
  <2> DEFINE new == [status |-> "draft", etag |-> 0, model |-> m]
  <2>1. new \in Row
    BY BoundsAssumption DEF Row
  <2>2. /\ nextDraft \in Drafts /\ draft' = [draft EXCEPT ![nextDraft] = new]
        /\ nextDraft' = nextDraft + 1
    BY <1>2 DEF Insert
  <2> HIDE DEF new
  <2>3. QED
    BY <1>2, <2>1, <2>2, DraftStep
<1>3. ASSUME NEW h \in Handlers, BranchEnd(h) PROVE StudioInv'
  <2>1. Assembled(req[h].ents) \in AnyModel
    <3>1. req[h].ents \in SUBSET Entities
      BY <1>0, <1>3, RequestKinds DEF BranchEnd
    <3>2. QED
      BY <3>1, AssembledModel
  <2>2. PICK m \in AnyModel : m = Assembled(req[h].ents)
    BY <2>1
  <2>3. Insert(m) /\ req' = [req EXCEPT ![h] = Idle] /\ UNCHANGED <<Model, announced>>
    BY <1>3, <2>2 DEF BranchEnd, Finish
  <2>4. QED
    BY <1>2, <2>3
<1>4. ASSUME NEW h \in Handlers, NEW m \in Models, Import(h, m) PROVE StudioInv'
  BY <1>2, <1>4, ModelsAreModels DEF Import
<1>5. ASSUME NEW h \in Handlers, NEW d \in Drafts, Open(h, d) PROVE StudioInv'
  <2> DEFINE new == [op |-> "edit", draft |-> d, etag |-> draft[d].etag, seen |-> draft[d].model]
  <2>1. /\ Exists(d) /\ draft[d].etag \in 0..MaxSaves /\ draft[d].model \in AnyModel
        /\ d < nextDraft /\ MaxSaves \in Nat
    BY <1>0, <1>5, TypeFacts DEF Open, StudioInv, DraftInv
  <2>2. new \in Request /\ ReqOK(new)
    BY <2>1 DEF Request, ReqOK
  <2>3. req' = [req EXCEPT ![h] = new] /\ UNCHANGED <<Model, DraftRow, announced>>
    BY <1>5 DEF Open, Begin
  <2> HIDE DEF new
  <2>4. QED
    BY <2>2, <2>3, RequestStep
<1>6. ASSUME NEW h \in Handlers, NEW m \in Models, PutRead(h, m) PROVE StudioInv'
  <2> DEFINE d == req[h].draft
             new == [op |-> "put", draft |-> d, etag |-> req[h].etag, seen |-> req[h].seen,
                     model |-> m]
  <2>1. /\ d \in Drafts /\ req[h].etag \in 0..MaxSaves /\ req[h].seen \in AnyModel
        /\ req[h].op = "edit"
    BY <1>0, <1>6, RequestKinds DEF PutRead
  <2>2. Exists(d) /\ draft[d].etag < MaxSaves /\ draft[d].etag \in 0..MaxSaves /\ MaxSaves \in Nat
    BY <1>0, <1>6, <2>1, TypeFacts DEF PutRead
  <2>3. /\ d < nextDraft /\ req[h].etag <= draft[d].etag
        /\ draft[d].etag = req[h].etag => draft[d].model = req[h].seen
    BY <1>0, <2>1, <2>2 DEF ReqOK
  <2>4. new \in Request
    BY <2>1 DEF Request
  <2>5. req[h].etag < MaxSaves
    BY <2>1, <2>2, <2>3
  <2>6. ReqOK(new)
    BY <2>3, <2>5 DEF ReqOK
  <2>7. req' = [req EXCEPT ![h] = new] /\ UNCHANGED <<Model, DraftRow, announced>>
    BY <1>6 DEF PutRead, GoOn
  <2> HIDE DEF new
  <2>8. QED
    BY <2>4, <2>6, <2>7, RequestStep
<1>7. ASSUME NEW h \in Handlers, PutWrite(h) PROVE StudioInv'
  <2> DEFINE d == req[h].draft
             new == [draft[d] EXCEPT !.model = req[h].model, !.etag = draft[d].etag + 1]
  <2>1. /\ d \in Drafts /\ req[h].etag \in 0..MaxSaves /\ req[h].model \in AnyModel
        /\ req[h].etag < MaxSaves
    BY <1>0, <1>7, RequestKinds, ModelsAreModels DEF PutWrite, ReqOK
  <2>2. Exists(d) /\ draft[d] \in Row /\ draft[d].etag = req[h].etag
    BY <1>0, <1>7, <2>1 DEF PutWrite, TypeOK, Exists
  <2>3. draft[d].etag + 1 \in 0..MaxSaves /\ draft[d].etag + 1 > draft[d].etag
    BY <2>1, <2>2, BoundsAssumption
  <2>4. new \in Row /\ new.etag > draft[d].etag
    BY <2>1, <2>2, <2>3 DEF Row
  <2>5. /\ draft' = [draft EXCEPT ![d] = new] /\ nextDraft' = nextDraft
        /\ req' = [req EXCEPT ![h] = Idle] /\ UNCHANGED <<Model, announced>>
    BY <1>7 DEF PutWrite, Finish, FreshEtag
  <2> HIDE DEF new, d
  <2>6. QED
    BY <2>1, <2>2, <2>4, <2>5, DraftStep
<1>8. ASSUME NEW h \in Handlers, NEW d \in Drafts, DiscardRead(h, d) PROVE StudioInv'
  <2> DEFINE new == [op |-> "discard", draft |-> d]
  <2>1. new \in Request /\ ReqOK(new)
    BY DEF Request, ReqOK
  <2>2. req' = [req EXCEPT ![h] = new] /\ UNCHANGED <<Model, DraftRow, announced>>
    BY <1>8 DEF DiscardRead, Begin
  <2> HIDE DEF new
  <2>3. QED
    BY <2>1, <2>2, RequestStep
<1>9. ASSUME NEW h \in Handlers, DiscardDelete(h) PROVE StudioInv'
  <2>1. req[h].draft \in Drafts
    BY <1>0, <1>9, RequestKinds DEF DiscardDelete
  <2>2. /\ draft' = [draft EXCEPT ![req[h].draft] = None] /\ nextDraft' = nextDraft
        /\ req' = [req EXCEPT ![h] = Idle] /\ UNCHANGED <<Model, announced>>
    BY <1>9 DEF DiscardDelete, Finish
  <2>3. QED
    BY <2>1, <2>2, DraftStep
<1>10. ASSUME NEW h \in Handlers, NEW d \in Drafts, PublishRead(h, d) PROVE StudioInv'
  <2> DEFINE new == [op |-> "publish", draft |-> d, model |-> draft[d].model]
  <2>1. draft[d].model \in AnyModel
    BY <1>0, <1>10, TypeFacts DEF PublishRead
  <2>2. new \in Request /\ ReqOK(new)
    BY <2>1 DEF Request, ReqOK
  <2>3. req' = [req EXCEPT ![h] = new] /\ UNCHANGED <<Model, DraftRow, announced>>
    BY <1>10 DEF PublishRead, Begin
  <2> HIDE DEF new
  <2>4. QED
    BY <2>2, <2>3, RequestStep
<1>11. ASSUME NEW h \in Handlers, LoadEntities(h) PROVE StudioInv'
  <2> DEFINE new == [op |-> "load", draft |-> req[h].draft, model |-> req[h].model,
                     ents |-> Active \cap Entities, since |-> version]
  <2>1. /\ req[h].draft \in Drafts /\ req[h].model \in AnyModel /\ version \in 0..MaxVersion
        /\ version <= version
    BY <1>0, <1>11, RequestKinds DEF LoadEntities, TypeOK
  <2>2. new \in Request
    BY <2>1 DEF Request
  <2>3. ReqOK(new)
    BY <2>1 DEF ReqOK
  <2>4. req' = [req EXCEPT ![h] = new] /\ UNCHANGED <<Model, DraftRow, announced>>
    BY <1>11 DEF LoadEntities, GoOn
  <2> HIDE DEF new
  <2>5. QED
    BY <2>2, <2>3, <2>4, RequestStep
<1>12. ASSUME NEW h \in Handlers, LoadLinks(h) PROVE StudioInv'
  <2> DEFINE active == Assembled(req[h].ents)
             new == [op |-> "apply", draft |-> req[h].draft, model |-> req[h].model,
                     active |-> active, since |-> req[h].since]
  <2>1. /\ req[h].draft \in Drafts /\ req[h].model \in AnyModel /\ req[h].since \in 0..MaxVersion
        /\ req[h].ents \in SUBSET Entities /\ req[h].op = "load"
    BY <1>0, <1>12, RequestKinds DEF LoadLinks
  <2>2. /\ active \in AnyModel /\ Valid(active, req[h].model)
    BY <1>12, <2>1, AssembledModel DEF LoadLinks
  <2>3. /\ req[h].since <= version
        /\ req[h].since = version => overlapped \/ req[h].ents = Active \cap Entities
    BY <1>0, <2>1 DEF ReqOK
  <2>4. req[h].since = version => overlapped \/ active = Active
    <3>1. ~overlapped => Active \in AnyModel
      BY DEF StudioInv, LiveInv
    <3>2. ~overlapped /\ req[h].ents = Active \cap Entities => active = Active
      BY <3>1, AssembledActive
    <3>3. QED
      BY <2>3, <3>2, Zenon
  <2> HIDE DEF active
  <2>5. new \in Request
    BY <2>1, <2>2 DEF Request
  <2>6. ReqOK(new)
    BY <2>2, <2>3, <2>4 DEF ReqOK
  <2>7. req' = [req EXCEPT ![h] = new] /\ UNCHANGED <<Model, DraftRow, announced>>
    BY <1>12 DEF LoadLinks, GoOn, active
  <2> HIDE DEF new
  <2>8. QED
    BY <2>5, <2>6, <2>7, RequestStep
<1>13. ASSUME NEW h \in Handlers, Announce(h) \/ GiveUp(h) PROVE StudioInv'
  <2>1. /\ req' = [req EXCEPT ![h] = Idle] /\ UNCHANGED <<Model, DraftRow>>
        /\ announced' \in {announced, version}
    BY <1>13 DEF Announce, GiveUp, Finish
  <2>2. QED
    BY <1>0, <2>1, RequestStep
<1>14. CASE UNCHANGED vars
  BY <1>14 DEF vars, StudioInv, TypeOK, RetirementsMatch, SnapshotsFaithful, ReqInv, ReqOK, DraftInv,
               LiveInv, Active, Exists
<1>15. QED
  BY <1>1, <1>3, <1>4, <1>5, <1>6, <1>7, <1>8, <1>9, <1>10, <1>11, <1>12, <1>13, <1>14,
     ApplyStep DEF Next

\* Whatever branches, saves, discards and publishes interleave, the invariant holds.
THEOREM StudioInvariant == Spec => []StudioInv
BY InitInv, StepInv, PTL DEF Spec

\* An item waits for its purge exactly while it is retired, in whatever order publishes
\* retire it and bring it back (retire_entity, unretire).
THEOREM PurgesMatch == Spec => []RetirementsMatch
<1>1. StudioInv => RetirementsMatch
  BY DEF StudioInv
<1>2. QED
  BY <1>1, StudioInvariant, PTL

\* The archive holds the last versions as they were, unless publishes overlapped
\* (apply_additive_publish).
THEOREM ArchiveIsFaithful == Spec => []SnapshotsFaithful
<1>1. StudioInv => SnapshotsFaithful
  BY DEF StudioInv
<1>2. QED
  BY <1>1, StudioInvariant, PTL

\* Publishes that do not overlap leave no relationship whose target is not active:
\* the check of the difference is enough for them (diff).
THEOREM NoneDangles == Spec => []SerialNoDangling
<1>1. StudioInv => SerialNoDangling
  BY DEF StudioInv, LiveInv, SerialNoDangling, Dangling
<1>2. QED
  BY <1>1, StudioInvariant, PTL

\* An etag is never reused, so a save that finds its own replaces the model its editor
\* has seen (put_model).
THEOREM NoEditLost == Spec => NoLostEdit
<1>1. ASSUME StudioInv, NEW h \in Handlers, PutWrite(h)
      PROVE  draft[req[h].draft].model = req[h].seen
  BY <1>1 DEF StudioInv, ReqInv, ReqOK, PutWrite
<1>2. StudioInv =>
    [\A h \in Handlers : PutWrite(h) => draft[req[h].draft].model = req[h].seen]_vars
  BY <1>1
<1>3. QED
  BY <1>2, StudioInvariant, PTL DEF NoLostEdit

\* A publish that no other overlapped makes active what it published, no more and no
\* less (apply_additive_publish).
THEOREM PublishGoesLive == Spec => PublishedIsLive
<1>1. ASSUME StudioInv, NEW h \in Handlers, Apply(h), ~overlapped'
      PROVE  Active' = req[h].model
  <2> DEFINE m == req[h].model
  <2>1. /\ m \in SUBSET Items /\ req[h].active = Active
        /\ status' = [i \in Items |-> StatusAfter(i, req[h].active, m)]
    BY <1>1, ApplyFacts
  <2> HIDE DEF m
  <2>2. status' = [i \in Items |-> StatusAfter(i, Active, m)]
    BY <2>1
  <2>3. Active' = m
    BY <2>1, <2>2, AppliedModel
  <2>4. QED
    BY <2>3 DEF m
<1>2. StudioInv =>
    [\A h \in Handlers : Apply(h) => overlapped' \/ Active' = req[h].model]_vars
  BY <1>1
<1>3. QED
  BY <1>2, StudioInvariant, PTL DEF PublishedIsLive

-----------------------------------------------------------------------------
(* The Studio's editor of drafts *)

EditorTab  == {"model", "etag", "status", "ids", "loaded", "report"}
EditorCall == {"id", "tab", "kind", "at", "model", "etag", "ok", "report"}

\* A tab's etag is no later than the draft's; if it is the draft's, the tab has loaded or saved
\* that model.
TabSound(r, t) ==
    /\ r = [x \in EditorTab |-> r[x]]
    /\ r.etag \in Nat /\ r.etag <= draftRow.etag
    /\ r.etag = draftRow.etag => saw[t] = draftRow.etag

\* The same of the etag of a save, until it is refused; its tab may be left or have another by
\* now.
CallSound(c) ==
    /\ c = [x \in EditorCall |-> c[x]]
    /\ c.tab \in Tabs /\ c.etag \in Nat /\ c.etag <= draftRow.etag
    /\ c.kind \in {"save", "publish"} =>
          /\ c.at = "sent" => ~c.ok
          /\ (c.at = "sent" \/ c.ok) /\ c.etag = draftRow.etag => saw[c.tab] = draftRow.etag

DraftForm(d) == d = [model |-> d.model, etag |-> d.etag, status |-> d.status]

ClientInv ==
    /\ DraftForm(draftRow) /\ draftRow.etag \in Nat
    /\ saw \in [Tabs -> Nat] /\ \A t \in Tabs : saw[t] <= draftRow.etag
    /\ tab = [t \in Tabs |-> tab[t]]
    /\ \A t \in Tabs : Opened(t) => TabSound(tab[t], t)
    /\ \A c \in calls : CallSound(c)

\* No tab is open at first.
LEMMA ClientStart == DesignerInit => ClientInv
<1> SUFFICES ASSUME DesignerInit PROVE ClientInv
  OBVIOUS
<1> USE DEF DesignerInit
<1>1. DraftForm(draftRow) /\ draftRow.etag \in Nat /\ saw \in [Tabs -> Nat]
      /\ \A t \in Tabs : saw[t] <= draftRow.etag
  BY DEF DraftForm
<1>2. tab = [t \in Tabs |-> tab[t]] /\ \A t \in Tabs : ~Opened(t)
  BY DEF Opened
<1> QED
  BY <1>1, <1>2 DEF ClientInv

\* A step that leaves the draft's etag, and what the tabs have seen, as they are keeps the
\* invariant, if the calls and the tab it changes are sound.
LEMMA EtagStays ==
    ASSUME ClientInv, DraftForm(draftRow'), draftRow'.etag = draftRow.etag, saw' = saw,
           \A c \in calls' : c \in calls \/ CallSound(c),
           tab' = [t \in Tabs |-> tab'[t]],
           \A t \in Tabs : \/ tab'[t] = tab[t] \/ tab'[t] \in {Unopened, Unmounted}
                           \/ TabSound(tab'[t], t)
    PROVE  ClientInv'
<1>1. \A c \in calls' : CallSound(c)'
  BY DEF ClientInv, CallSound
<1>2. ASSUME NEW t \in Tabs, Opened(t)' PROVE TabSound(tab[t], t)'
  <2>1. tab'[t] = tab[t] => TabSound(tab'[t], t)
    BY <1>2 DEF ClientInv, Opened
  <2>2. TabSound(tab'[t], t)
    BY <1>2, <2>1 DEF Opened
  <2> QED
    BY <2>2 DEF TabSound, EditorTab
<1> QED
  BY <1>1, <1>2 DEF ClientInv

\* The modeler's steps: a tab opens with the draft's etag, and a call takes its tab's.
LEMMA TabSteps ==
    ASSUME ClientInv, NEW t \in Tabs,
           \/ Locks(t) \/ LocksLost(t) \/ LeaveDraft(t) \/ Select(t)
           \/ \E m, more : Opened(t) /\ Edited(t, m, more)
           \/ \E sort : Click(t, sort)
    PROVE  ClientInv'
<1>1. DraftForm(draftRow)' /\ draftRow' = draftRow /\ saw' = saw
  BY DEF ClientInv, DraftForm, Locks, LocksLost, LeaveDraft, Select, Edited, Click
<1>2. tab = [u \in Tabs |-> tab[u]] /\ (Opened(t) => TabSound(tab[t], t))
  BY DEF ClientInv
<1>3. ASSUME NEW r, tab' = [tab EXCEPT ![t] = r], calls' = calls,
             r = Unmounted \/ TabSound(r, t)
      PROVE  ClientInv'
  <2>1. tab' = [u \in Tabs |-> tab'[u]] /\ tab'[t] = r /\ \A u \in Tabs \ {t} : tab'[u] = tab[u]
    BY <1>2, <1>3
  <2>2. \A u \in Tabs : \/ tab'[u] = tab[u] \/ tab'[u] \in {Unopened, Unmounted}
                        \/ TabSound(tab'[u], u)
    BY <1>3, <2>1
  <2> QED
    BY <1>1, <1>3, <2>1, <2>2, EtagStays
<1>4. CASE Locks(t) \/ LocksLost(t)
  <2>1. PICK ids : tab' = [tab EXCEPT ![t] = [tab[t] EXCEPT !.ids = ids, !.loaded = TRUE]]
    <3>1. CASE Locks(t)
      <4>1. tab' = [tab EXCEPT ![t] = [tab[t] EXCEPT !.ids = DOMAIN activeModel, !.loaded = TRUE]]
        BY <1>2, <3>1 DEF Locks
      <4> QED
        BY <4>1
    <3>2. CASE LocksLost(t)
      <4>1. tab' = [tab EXCEPT ![t] = [tab[t] EXCEPT !.ids = tab[t].ids, !.loaded = TRUE]]
        BY <1>2, <3>2 DEF LocksLost, TabSound, EditorTab
      <4> QED
        BY <4>1
    <3> QED
      BY <1>4, <3>1, <3>2
  <2>2. calls' = calls /\ TabSound(tab[t], t)
    BY <1>2, <1>4 DEF Locks, LocksLost
  <2>3. TabSound([tab[t] EXCEPT !.ids = ids, !.loaded = TRUE], t)
    BY <2>2 DEF TabSound, EditorTab
  <2> QED
    BY <1>3, <2>1, <2>2, <2>3
<1>5. CASE LeaveDraft(t)
  BY <1>3, <1>5 DEF LeaveDraft
<1>6. CASE Select(t) \/ \E m, more : Opened(t) /\ Edited(t, m, more)
  <2>1. PICK m : tab' = [tab EXCEPT ![t] = [tab[t] EXCEPT !.model = m]]
    BY <1>2, <1>6 DEF Select, Edited
  <2>2. calls' = calls /\ TabSound(tab[t], t)
    BY <1>2, <1>6 DEF Select, Edited, Editable
  <2>3. TabSound([tab[t] EXCEPT !.model = m], t)
    BY <2>2 DEF TabSound, EditorTab
  <2> QED
    BY <1>3, <2>1, <2>2, <2>3
<1>7. ASSUME NEW sort, Click(t, sort) PROVE ClientInv'
  <2> DEFINE d == [id |-> FreeId, tab |-> t, kind |-> sort, at |-> "sent", model |-> tab[t].model,
                   etag |-> tab[t].etag, ok |-> FALSE, report |-> NoText]
  <2>1. TabSound(tab[t], t) /\ calls' = calls \cup {d} /\ tab' = tab
    BY <1>2, <1>7 DEF Click, Editable
  <2>2. CallSound(d)
    BY <2>1 DEF TabSound, CallSound, EditorCall
  <2>3. \A c \in calls' : c \in calls \/ CallSound(c)
    BY <2>1, <2>2
  <2>4. tab' = [u \in Tabs |-> tab'[u]] /\ \A u \in Tabs : tab'[u] = tab[u]
    BY <1>2, <2>1
  <2> QED
    BY <1>1, <2>3, <2>4, EtagStays
<1> QED
  BY <1>4, <1>5, <1>6, <1>7

\* A draft is loaded into a tab.
LEMMA DraftOpens == ASSUME ClientInv, NEW t \in Tabs, OpenDraft(t) PROVE ClientInv'
<1> DEFINE r == [model |-> Carried(draftRow.model), etag |-> draftRow.etag,
                 status |-> draftRow.status, ids |-> {}, loaded |-> FALSE, report |-> NoText]
<1>1. /\ tab' = [tab EXCEPT ![t] = r] /\ saw' = [saw EXCEPT ![t] = draftRow.etag]
      /\ draftRow' = draftRow /\ calls' = calls
  BY DEF OpenDraft
<1>2. saw' \in [Tabs -> Nat] /\ \A u \in Tabs : saw'[u] <= draftRow'.etag
  BY <1>1 DEF ClientInv
<1>3. tab' = [u \in Tabs |-> tab'[u]] /\ tab'[t] = r /\ \A u \in Tabs \ {t} : tab'[u] = tab[u]
  BY <1>1 DEF ClientInv
<1>4. \A u \in Tabs : saw[u] = draftRow.etag => saw'[u] = draftRow.etag
  BY <1>1 DEF ClientInv
<1>5. \A c \in calls' : CallSound(c)'
  BY <1>1, <1>4 DEF ClientInv, CallSound
<1>6. ASSUME NEW u \in Tabs, Opened(u)' PROVE TabSound(tab[u], u)'
  <2>1. CASE u = t
    <3>1. tab'[u] = r /\ saw'[u] = draftRow'.etag /\ draftRow'.etag \in Nat
      BY <1>1, <1>3, <2>1 DEF ClientInv
    <3>2. /\ r = [x \in EditorTab |-> r[x]] /\ r.etag = draftRow.etag
      BY DEF EditorTab
    <3> HIDE DEF r
    <3> QED
      BY <1>1, <3>1, <3>2 DEF TabSound
  <2>2. CASE u # t
    <3>1. TabSound(tab[u], u) /\ tab'[u] = tab[u]
      BY <1>3, <1>6, <2>2 DEF ClientInv, Opened
    <3> QED
      BY <1>1, <1>4, <3>1 DEF TabSound
  <2> QED
    BY <2>1, <2>2
<1> QED
  BY <1>1, <1>2, <1>3, <1>5, <1>6 DEF ClientInv

\* The server raises the etag: what tabs and calls have is older, but for the call that saved.
LEMMA EtagRaised ==
    ASSUME ClientInv, DraftForm(draftRow'), draftRow'.etag = draftRow.etag + 1, tab' = tab,
           saw' \in [Tabs -> Nat], \A t \in Tabs : saw'[t] <= draftRow.etag + 1,
           \A c \in calls' : c \in calls \/ CallSound(c)'
    PROVE  ClientInv'
<1>1. draftRow.etag \in Nat
  BY DEF ClientInv
<1>2. \A c \in calls' : CallSound(c)'
  BY <1>1 DEF ClientInv, CallSound
<1>3. ASSUME NEW t \in Tabs, Opened(t)' PROVE TabSound(tab[t], t)'
  BY <1>1, <1>3 DEF ClientInv, Opened, TabSound
<1> QED
  BY <1>1, <1>2, <1>3 DEF ClientInv

\* A save that the server takes comes from a tab that has seen the model it replaces.
LEMMA SaveTaken ==
    ASSUME ClientInv, NEW c \in calls, PutModel(c)
    PROVE  /\ ClientInv'
           /\ OverwritesSeen
<1>1. CallSound(c) /\ DraftForm(draftRow) /\ draftRow.etag \in Nat /\ saw \in [Tabs -> Nat]
      /\ \A t \in Tabs : saw[t] <= draftRow.etag
  BY DEF ClientInv
<1>2. c.at = "sent" /\ c.kind \in {"save", "publish"} /\ tab' = tab
  BY DEF PutModel
<1>3. CASE draftRow.status = "draft" /\ draftRow.etag = c.etag
  <2> DEFINE d == [c EXCEPT !.at = "answer", !.ok = TRUE, !.etag = draftRow.etag + 1,
                            !.report = Violations(c.model)]
  <2>1. /\ draftRow' = [draftRow EXCEPT !.model = c.model, !.etag = @ + 1]
        /\ saw' = [saw EXCEPT ![c.tab] = draftRow.etag + 1] /\ calls' = (calls \ {c}) \cup {d}
    BY <1>3 DEF PutModel, Turns
  <2>2. DraftForm(draftRow') /\ draftRow'.etag = draftRow.etag + 1
    BY <1>1, <2>1 DEF DraftForm
  <2>3. /\ saw' \in [Tabs -> Nat] /\ \A t \in Tabs : saw'[t] <= draftRow.etag + 1
        /\ saw'[c.tab] = draftRow.etag + 1 /\ c.tab \in Tabs
        /\ \A t \in Tabs \ {c.tab} : saw'[t] = saw[t]
    <3>1. c.tab \in Tabs /\ draftRow.etag + 1 \in Nat
      BY <1>1 DEF CallSound
    <3>2. /\ saw' \in [Tabs -> Nat] /\ saw'[c.tab] = draftRow.etag + 1
          /\ \A t \in Tabs \ {c.tab} : saw'[t] = saw[t]
      BY <1>1, <2>1, <3>1
    <3> QED
      BY <1>1, <3>1, <3>2
  <2>4. /\ d = [x \in EditorCall |-> d[x]]
        /\ d.tab = c.tab /\ d.at = "answer" /\ d.etag = draftRow.etag + 1
    BY <1>1 DEF CallSound, EditorCall
  <2>5. PICK x : x = d
    OBVIOUS
  <2> HIDE DEF d
  <2>6. CallSound(x)'
    BY <1>1, <2>2, <2>3, <2>4, <2>5 DEF CallSound
  <2>7. \A e \in calls' : e \in calls \/ CallSound(e)'
    BY <2>1, <2>5, <2>6
  <2>8. ClientInv'
    BY <1>2, <2>2, <2>3, <2>7, EtagRaised
  <2>9. saw[c.tab] = draftRow.etag
    BY <1>1, <1>2, <1>3 DEF CallSound
  <2>10. OverwritesSeen
    BY <1>1, <2>2, <2>3, <2>9 DEF OverwritesSeen
  <2> QED
    BY <2>8, <2>10
<1>4. CASE ~(draftRow.status = "draft" /\ draftRow.etag = c.etag)
  <2> DEFINE d == [c EXCEPT !.at = "answer", !.etag = draftRow.etag]
  <2>1. draftRow' = draftRow /\ saw' = saw /\ calls' = (calls \ {c}) \cup {d}
    BY <1>4 DEF PutModel, Turns
  <2>2. /\ d = [x \in EditorCall |-> d[x]]
        /\ d.tab = c.tab /\ d.at = "answer" /\ d.etag = draftRow.etag /\ d.ok = c.ok
    BY <1>1 DEF CallSound, EditorCall
  <2> HIDE DEF d
  <2>3. CallSound(d)
    BY <1>1, <1>2, <2>2 DEF CallSound, ClientInv
  <2>4. ClientInv'
    BY <1>1, <1>2, <2>1, <2>3, EtagStays DEF ClientInv
  <2>5. OverwritesSeen
    BY <2>1 DEF OverwritesSeen
  <2> QED
    BY <2>4, <2>5
<1> QED
  BY <1>3, <1>4

\* The other calls, and the answers.
LEMMA CallSteps ==
    ASSUME ClientInv, NEW c \in calls, Check(c) \/ Reply(c) \/ Publish(c) \/ Cutover(c) \/ Lose(c)
    PROVE  ClientInv'
<1>1. CallSound(c) /\ DraftForm(draftRow) /\ tab = [t \in Tabs |-> tab[t]]
  BY DEF ClientInv
<1>2. saw' = saw /\ draftRow'.etag = draftRow.etag /\ DraftForm(draftRow')
  <2>1. saw' = saw
    BY DEF Check, Reply, Publish, Cutover, Lose
  <2>2. \/ draftRow' = draftRow
        \/ \E s : draftRow' = [draftRow EXCEPT !.status = s]
    BY DEF Check, Reply, Publish, Cutover, Lose
  <2>3. draftRow'.etag = draftRow.etag /\ DraftForm(draftRow')
    BY <1>1, <2>2 DEF DraftForm
  <2> QED
    BY <2>1, <2>3
<1>3. \A d \in calls' : d \in calls \/ CallSound(d)
  <2>1. CASE Check(c)
    <3>1. PICK ok, report : calls' = (calls \ {c})
                \cup {[c EXCEPT !.at = "answer", !.ok = ok, !.report = report]}
                /\ c.kind = "validate"
      BY <2>1 DEF Check, Turns
    <3>2. CallSound([c EXCEPT !.at = "answer", !.ok = ok, !.report = report])
      BY <1>1, <3>1 DEF CallSound, EditorCall
    <3> QED
      BY <3>1, <3>2
  <2>2. CASE Reply(c)
    <3>1. \/ calls' = (calls \ {c}) \cup {[c EXCEPT !.at = "sent", !.kind = "cutover"]}
          \/ calls' = calls \ {c}
      BY <2>2 DEF Reply, Turns
    <3>2. CallSound([c EXCEPT !.at = "sent", !.kind = "cutover"])
      BY <1>1 DEF CallSound, EditorCall
    <3> QED
      BY <3>1, <3>2
  <2>3. CASE Publish(c)
    <3>1. PICK ok : calls' = (calls \ {c}) \cup {[c EXCEPT !.at = "answer", !.ok = ok]}
                    /\ c.kind = "cutover"
      BY <2>3 DEF Publish, Turns
    <3>2. CallSound([c EXCEPT !.at = "answer", !.ok = ok])
      BY <1>1, <3>1 DEF CallSound, EditorCall
    <3> QED
      BY <3>1, <3>2
  <2>4. CASE Cutover(c) \/ Lose(c)
    BY <2>4 DEF Cutover, Lose
  <2> QED
    BY <2>1, <2>2, <2>3, <2>4
<1>4. /\ tab' = [t \in Tabs |-> tab'[t]]
      /\ \A t \in Tabs : tab'[t] = tab[t] \/ TabSound(tab'[t], t)
  <2>1. \/ tab' = tab
        \/ Opened(c.tab) /\ tab' = [tab EXCEPT ![c.tab].status = "published"]
        \/ /\ Opened(c.tab) /\ c.at = "answer" /\ c.kind \in {"save", "publish", "validate"}
           /\ tab' = [tab EXCEPT
                         ![c.tab].etag   = IF c.kind = "validate" THEN @ ELSE EtagAfter(c, @),
                         ![c.tab].report = IF c.ok THEN c.report ELSE @]
    BY DEF Check, Reply, Publish, Cutover, Lose
  <2>2. CASE tab' = tab
    BY <1>1, <2>2
  <2>3. ASSUME NEW r, tab' = [tab EXCEPT ![c.tab] = r], TabSound(r, c.tab)
        PROVE  /\ tab' = [t \in Tabs |-> tab'[t]]
               /\ \A t \in Tabs : tab'[t] = tab[t] \/ TabSound(tab'[t], t)
    <3>1. c.tab \in Tabs
      BY <1>1 DEF CallSound
    <3>2. /\ tab' = [t \in Tabs |-> tab'[t]] /\ tab'[c.tab] = r
          /\ \A t \in Tabs \ {c.tab} : tab'[t] = tab[t]
      BY <1>1, <2>3, <3>1
    <3> QED
      BY <2>3, <3>1, <3>2
  <2>4. c.tab \in Tabs /\ (Opened(c.tab) => TabSound(tab[c.tab], c.tab))
    BY <1>1 DEF ClientInv, CallSound
  <2>5. CASE Opened(c.tab) /\ tab' = [tab EXCEPT ![c.tab].status = "published"]
    <3>1. tab' = [tab EXCEPT ![c.tab] = [tab[c.tab] EXCEPT !.status = "published"]]
      BY <1>1, <2>4, <2>5
    <3>2. TabSound([tab[c.tab] EXCEPT !.status = "published"], c.tab)
      BY <2>4, <2>5 DEF TabSound, EditorTab
    <3> QED
      BY <2>3, <3>1, <3>2
  <2>6. CASE /\ Opened(c.tab) /\ c.at = "answer" /\ c.kind \in {"save", "publish", "validate"}
             /\ tab' = [tab EXCEPT
                           ![c.tab].etag   = IF c.kind = "validate" THEN @ ELSE EtagAfter(c, @),
                           ![c.tab].report = IF c.ok THEN c.report ELSE @]
    <3> DEFINE e == IF c.kind = "validate" THEN tab[c.tab].etag ELSE EtagAfter(c, tab[c.tab].etag)
               p == IF c.ok THEN c.report ELSE tab[c.tab].report
    <3>1. tab' = [tab EXCEPT ![c.tab] = [tab[c.tab] EXCEPT !.etag = e, !.report = p]]
      BY <1>1, <2>4, <2>6
    <3>2. e \in Nat /\ e <= draftRow.etag /\ (e = draftRow.etag => saw[c.tab] = draftRow.etag)
      BY <1>1, <2>4, <2>6 DEF TabSound, CallSound, EtagAfter
    <3> HIDE DEF e, p
    <3>3. TabSound([tab[c.tab] EXCEPT !.etag = e, !.report = p], c.tab)
      BY <2>4, <2>6, <3>2 DEF TabSound, EditorTab
    <3> QED
      BY <2>3, <3>1, <3>3
  <2> QED
    BY <2>1, <2>2, <2>5, <2>6
<1> QED
  BY <1>2, <1>3, <1>4, EtagStays

\* Editors elsewhere.
LEMMA OtherSteps ==
    ASSUME ClientInv, Discard \/ OtherSave \/ OtherPublish PROVE ClientInv'
<1>1. DraftForm(draftRow) /\ draftRow.etag \in Nat /\ saw \in [Tabs -> Nat]
      /\ tab = [t \in Tabs |-> tab[t]] /\ \A t \in Tabs : saw[t] <= draftRow.etag
  BY DEF ClientInv
<1>2. tab' = tab /\ saw' = saw /\ calls' = calls
  BY DEF Discard, OtherSave, OtherPublish
<1>3. CASE Discard \/ OtherPublish
  <2>1. DraftForm(draftRow') /\ draftRow'.etag = draftRow.etag
    BY <1>1, <1>3 DEF Discard, OtherPublish, DraftForm
  <2> QED
    BY <1>1, <1>2, <2>1, EtagStays
<1>4. CASE OtherSave
  <2>1. DraftForm(draftRow') /\ draftRow'.etag = draftRow.etag + 1
    BY <1>1, <1>4 DEF OtherSave, DraftForm
  <2>2. \A t \in Tabs : saw'[t] <= draftRow.etag + 1
    BY <1>1, <1>2
  <2> QED
    BY <1>1, <1>2, <2>1, <2>2, EtagRaised
<1> QED
  BY <1>3, <1>4

\* Every step of the editor keeps the invariant, and a save replaces what its tab has seen.
LEMMA ClientStep ==
    ASSUME ClientInv, [DesignerNext]_designerVars
    PROVE  ClientInv' /\ (OverwritesSeen \/ UNCHANGED designerVars)
<1>1. CASE UNCHANGED designerVars
  BY <1>1 DEF designerVars, ClientInv, DraftForm, Opened, TabSound, CallSound
<1>2. ASSUME draftRow'.etag = draftRow.etag PROVE OverwritesSeen
  BY <1>2 DEF OverwritesSeen
<1>3. ASSUME NEW t \in Tabs, OpenDraft(t) PROVE ClientInv' /\ OverwritesSeen
  BY <1>2, <1>3, DraftOpens DEF OpenDraft
<1>4. ASSUME NEW t \in Tabs,
             \/ Locks(t) \/ LocksLost(t) \/ LeaveDraft(t) \/ Select(t)
             \/ \E m, more : Opened(t) /\ Edited(t, m, more)
             \/ \E sort : Click(t, sort)
      PROVE  ClientInv' /\ OverwritesSeen
  <2>1. draftRow' = draftRow
    BY <1>4 DEF Locks, LocksLost, LeaveDraft, Select, Edited, Click
  <2> QED
    BY <1>2, <1>4, <2>1, TabSteps
<1>5. ASSUME NEW t \in Tabs, Opened(t), NEW i \in ItemIds, Add(t, i) \/ Retype(t, i) \/ RemoveItem(t, i)
      PROVE  \E m, more : Opened(t) /\ Edited(t, m, more)
  BY <1>5 DEF Add, Retype, RemoveItem
<1>6. ASSUME NEW c \in calls, PutModel(c) PROVE ClientInv' /\ OverwritesSeen
  BY <1>6, SaveTaken
<1>7. ASSUME NEW c \in calls, Check(c) \/ Reply(c) \/ Publish(c) \/ Cutover(c) \/ Lose(c)
      PROVE  ClientInv' /\ OverwritesSeen
  <2>1. \/ draftRow' = draftRow \/ \E s : draftRow' = [draftRow EXCEPT !.status = s]
    BY <1>7 DEF Check, Reply, Publish, Cutover, Lose
  <2>2. draftRow'.etag = draftRow.etag
    BY <2>1 DEF ClientInv, DraftForm
  <2> QED
    BY <1>2, <1>7, <2>2, CallSteps
<1>8. ASSUME Discard \/ OtherSave \/ OtherPublish PROVE ClientInv' /\ OverwritesSeen
  <2>1. /\ draftRow.etag \in Nat /\ saw \in [Tabs -> Nat] /\ saw' = saw
        /\ \A t \in Tabs : saw[t] <= draftRow.etag
    BY <1>8 DEF ClientInv, Discard, OtherSave, OtherPublish
  <2>2. draftRow'.etag \in {draftRow.etag, draftRow.etag + 1}
    BY <1>8 DEF ClientInv, DraftForm, Discard, OtherSave, OtherPublish
  <2>3. OverwritesSeen
    BY <2>1, <2>2 DEF OverwritesSeen
  <2> QED
    BY <1>8, <2>3, OtherSteps
<1> QED
  BY <1>1, <1>3, <1>4, <1>5, <1>6, <1>7, <1>8 DEF DesignerNext

\* The inductive invariant of the editor, for any number of tabs and calls and whatever answers
\* are lost or late: whoever has the draft's etag, a tab or a save that is not refused, is of a
\* tab that has loaded or saved the model under it (launch_save).
THEOREM ClientInvariant == DesignerSpec => []ClientInv
<1>1. ClientInv /\ [DesignerNext]_designerVars => ClientInv'
  BY ClientStep
<1> QED
  BY ClientStart, <1>1, PTL DEF DesignerSpec

\* A save replaces what its tab had loaded or saved last, for any number of tabs, calls and lost
\* answers (launch_save, put_model).
THEOREM NothingOverwritten == DesignerSpec => NoUnseenOverwrite
<1>1. ClientInv /\ [DesignerNext]_designerVars => [OverwritesSeen]_designerVars
  BY ClientStep
<1> QED
  BY ClientInvariant, <1>1, PTL DEF DesignerSpec, NoUnseenOverwrite

-----------------------------------------------------------------------------
(* The lists of the Studio *)

IsCall(c) ==
    /\ c = [id |-> c.id, op |-> c.op, row |-> c.row, to |-> c.to, at |-> c.at,
            rows |-> c.rows, alone |-> c.alone]
    /\ c.alone \in BOOLEAN

\* Who has met no other call is the only one, and its list is true until somebody else acts.
CallOK(c) ==
    /\ IsCall(c)
    /\ c.alone => asked = {c}
    /\ c.alone /\ c.at = "listed" => c.rows = Shot(table)

\* A list that is trusted is true until a call has been served.
ListInv == trusted /\ (\A c \in asked : c.at = "sent") => list = Shot(table)

PanelsInv == trusted \in BOOLEAN /\ (\A c \in asked : CallOK(c)) /\ ListInv

\* A button that is pressed leaves the table and the list, and no other call is alone.
LEMMA SendKeeps ==
    ASSUME PanelsInv, NEW op, NEW i, NEW to, Send(op, i, to)
    PROVE  PanelsInv'
<1> DEFINE met == {[c EXCEPT !.alone = FALSE] : c \in asked}
<1>1. PICK new : /\ new = [id |-> FreeCall, op |-> op, row |-> i, to |-> to, at |-> "sent",
                           rows |-> <<>>, alone |-> asked = {}]
                 /\ asked' = met \cup {new}
                 /\ UNCHANGED <<table, list, trusted>>
  BY DEF Send
<1>2. Shot(table)' = Shot(table)
  BY <1>1 DEF Shot, Present
<1>3. ASSUME NEW c \in asked, NEW d, d = [c EXCEPT !.alone = FALSE]
      PROVE  IsCall(d) /\ d.at = c.at /\ ~d.alone
  <2>1. IsCall(c)
    BY DEF PanelsInv, CallOK
  <2>2. QED
    BY <1>3, <2>1 DEF IsCall
<1>4. IsCall(new) /\ (new.alone => asked = {}) /\ new.at = "sent"
  BY <1>1 DEF IsCall
<1>5. \A d \in asked' : CallOK(d)'
  <2>1. ASSUME NEW d \in met PROVE CallOK(d)'
    <3>1. IsCall(d) /\ ~d.alone
      BY <1>3
    <3>2. QED
      BY <3>1 DEF CallOK, IsCall
  <2>2. CallOK(new)'
    BY <1>1, <1>4 DEF CallOK, IsCall
  <2>3. QED
    BY <1>1, <2>1, <2>2
<1>6. ListInv'
  <2>1. ASSUME trusted', \A d \in asked' : d.at = "sent" PROVE list' = Shot(table)'
    <3>1. ASSUME NEW c \in asked PROVE c.at = "sent"
      <4>1. [c EXCEPT !.alone = FALSE] \in asked'
        BY <1>1
      <4>2. QED
        BY <1>3, <2>1, <4>1
    <3>2. QED
      BY <1>1, <1>2, <2>1, <3>1 DEF PanelsInv, ListInv
  <2>2. QED
    BY <2>1 DEF ListInv
<1>7. QED
  BY <1>1, <1>5, <1>6 DEF PanelsInv

\* A call that is served is no longer sent, and one that is not leaves the table.
LEMMA ServeKeeps ==
    ASSUME PanelsInv, NEW c \in asked, ServeCall(c)
    PROVE  PanelsInv'
<1>0. CallOK(c) /\ UNCHANGED <<list, trusted>> /\ c.at = "sent"
  BY DEF PanelsInv, ServeCall
<1>1. CASE asked' = asked \ {c} /\ UNCHANGED table
  <2>1. Shot(table)' = Shot(table)
    BY <1>1 DEF Shot, Present
  <2>2. \A d \in asked' : CallOK(d)'
    BY <1>1, <2>1 DEF PanelsInv, CallOK, IsCall
  <2>3. ListInv'
    BY <1>0, <1>1, <2>1 DEF PanelsInv, ListInv
  <2>4. QED
    BY <1>0, <2>2, <2>3 DEF PanelsInv
<1>2. CASE asked' = (asked \ {c}) \cup {[c EXCEPT !.at = "done"]}
  <2> DEFINE d == [c EXCEPT !.at = "done"]
  <2>1. IsCall(d) /\ d.at = "done" /\ d.alone = c.alone
    BY <1>0 DEF CallOK, IsCall
  <2>2. CallOK(d)'
    BY <1>0, <1>2, <2>1 DEF CallOK, IsCall
  <2>3. \A e \in asked \ {c} : ~e.alone
    BY DEF PanelsInv, CallOK
  <2>4. \A e \in asked \ {c} : CallOK(e)'
    BY <2>3 DEF PanelsInv, CallOK, IsCall
  <2>5. d \in asked' /\ d.at # "sent"
    BY <1>2, <2>1
  <2>6. ListInv'
    BY <2>5 DEF ListInv
  <2>7. QED
    BY <1>0, <1>2, <2>2, <2>4, <2>6 DEF PanelsInv
<1>3. QED
  BY <1>1, <1>2 DEF ServeCall, Replaced, Reloads

\* The table is read.
LEMMA FetchKeeps ==
    ASSUME PanelsInv, NEW c \in asked, FetchList(c)
    PROVE  PanelsInv'
<1>0. CallOK(c) /\ UNCHANGED <<table, list, trusted>>
  BY DEF PanelsInv, FetchList
<1>1. Shot(table)' = Shot(table)
  BY <1>0 DEF Shot, Present
<1>2. PICK d : /\ d = [c EXCEPT !.at = "listed", !.rows = Shot(table)]
               /\ asked' = (asked \ {c}) \cup {d}
  BY DEF FetchList, Replaced
<1>3. IsCall(d) /\ d.at = "listed" /\ d.alone = c.alone /\ d.rows = Shot(table)
  <2>1. d = [id |-> c.id, op |-> c.op, row |-> c.row, to |-> c.to, at |-> "listed",
             rows |-> Shot(table), alone |-> c.alone]
    BY <1>0, <1>2 DEF CallOK, IsCall
  <2>2. QED
    BY <1>0, <2>1 DEF CallOK, IsCall
<1>4. CallOK(d)'
  BY <1>0, <1>1, <1>2, <1>3 DEF CallOK, IsCall
<1>5. \A e \in asked \ {c} : ~e.alone
  BY DEF PanelsInv, CallOK
<1>6. \A e \in asked \ {c} : CallOK(e)'
  BY <1>5 DEF PanelsInv, CallOK, IsCall
<1>7. ListInv'
  BY <1>2, <1>3 DEF ListInv
<1>8. QED
  BY <1>0, <1>2, <1>4, <1>6, <1>7 DEF PanelsInv

\* An answer comes, or is lost.
LEMMA AnswerKeeps ==
    ASSUME PanelsInv, NEW c \in asked, Listed(c) \/ LoseCall(c)
    PROVE  PanelsInv'
<1>0. CallOK(c) /\ asked' = asked \ {c} /\ UNCHANGED table
  BY DEF PanelsInv, Listed, LoseCall
<1>1. Shot(table)' = Shot(table)
  BY <1>0 DEF Shot, Present
<1>2. \A d \in asked' : CallOK(d)'
  BY <1>0, <1>1 DEF PanelsInv, CallOK, IsCall
<1>3. trusted' \in BOOLEAN /\ ListInv'
  <2>1. CASE Listed(c)
    <3>1. list' = c.rows /\ trusted' = c.alone /\ c.at = "listed"
      BY <2>1 DEF Listed
    <3>2. QED
      BY <1>0, <1>1, <3>1 DEF ListInv, CallOK, IsCall
  <2>2. CASE LoseCall(c)
    <3>1. list' = list /\ trusted' = (trusted /\ c.at = "sent")
      BY <2>2 DEF LoseCall
    <3>2. QED
      BY <1>0, <1>1, <3>1 DEF PanelsInv, ListInv
  <2>3. QED
    BY <2>1, <2>2
<1>4. QED
  BY <1>2, <1>3 DEF PanelsInv

\* Each step of a tab keeps its invariant.
LEMMA PanelsStep == PanelsInv /\ [PanelsNext]_panelVars => PanelsInv'
<1> SUFFICES ASSUME PanelsInv, [PanelsNext]_panelVars PROVE PanelsInv'
  OBVIOUS
<1>1. ASSUME NEW k \in Kinds, Mount(k) PROVE PanelsInv'
  <2> DEFINE new == [id |-> 1, op |-> "list", row |-> NoTab, to |-> NoItem, at |-> "done",
                     rows |-> <<>>, alone |-> TRUE]
  <2>1. asked' = {new} /\ UNCHANGED <<table, list, trusted>>
    BY <1>1 DEF Mount
  <2>2. CallOK(new)'
    BY <2>1 DEF CallOK, IsCall
  <2>3. ListInv'
    BY <2>1 DEF ListInv
  <2>4. QED
    BY <2>1, <2>2, <2>3 DEF PanelsInv
<1>2. ASSUME NEW op, NEW i, NEW to, Send(op, i, to) PROVE PanelsInv'
  BY <1>2, SendKeeps
<1>3. CASE Create \/ DeleteItem \/ Toggle \/ EditItem \/ ChooseFlag
  BY <1>2, <1>3 DEF Create, DeleteItem, Toggle, EditItem, ChooseFlag
<1>4. CASE \E c \in asked : ServeCall(c) \/ FetchList(c) \/ Listed(c) \/ LoseCall(c)
  BY <1>4, ServeKeeps, FetchKeeps, AnswerKeeps
<1>5. CASE Other
  <2>1. /\ ~trusted'
        /\ trusted' \in BOOLEAN
        /\ asked' = {[c EXCEPT !.alone = @ /\ c.at # "listed"] : c \in asked}
    BY <1>5 DEF Other
  <2>2. ASSUME NEW d \in asked' PROVE CallOK(d)'
    <3>1. PICK c \in asked : d = [c EXCEPT !.alone = @ /\ c.at # "listed"]
      BY <2>1
    <3>2. IsCall(c) /\ (c.alone => asked = {c})
      BY DEF PanelsInv, CallOK
    <3>3. IsCall(d) /\ d.at = c.at /\ d.alone = (c.alone /\ c.at # "listed")
      BY <3>1, <3>2 DEF IsCall
    <3>4. d.alone => asked' = {d}
      BY <2>1, <3>1, <3>2, <3>3
    <3>5. QED
      BY <3>3, <3>4 DEF CallOK, IsCall
  <2>3. QED
    BY <2>1, <2>2 DEF PanelsInv, ListInv
<1>6. CASE UNCHANGED panelVars
  <2>1. Shot(table)' = Shot(table) /\ UNCHANGED <<asked, list, trusted, table>>
    BY <1>6 DEF panelVars, Shot, Present
  <2>2. QED
    BY <2>1 DEF PanelsInv, ListInv, CallOK, IsCall
<1>7. QED
  BY <1>1, <1>3, <1>4, <1>5, <1>6 DEF PanelsNext, RulesTab, NewRule, WorkflowsTab, NewWorkflow,
     ShareTab, UserRow, UsersTab, UserRoles, TeamsTab, OwdTab, RolesTab, RolePermissions,
     RoleParents, DashboardsTab, NewDashboard, StudioReports, NewReport

\* The invariant of a tab holds.
THEOREM PanelsInvariant == PanelsSpec => []PanelsInv
<1>1. PanelsInit => PanelsInv
  BY DEF PanelsInit, PanelsInv, ListInv
<1>2. QED
  BY <1>1, PanelsStep, PTL DEF PanelsSpec

\* A tab at met, whose last fetch met no other call and no foreign action, lists the
\* rows of the server.
THEOREM ListsAreTrue == PanelsSpec => []RestingListTrue
<1>1. PanelsInv => RestingListTrue
  BY DEF PanelsInv, ListInv, RestingListTrue
<1>2. QED
  BY <1>1, PanelsInvariant, PTL

-----------------------------------------------------------------------------
(* The page designers *)

IsSave(s) ==
    /\ s = [id |-> s.id, ent |-> s.ent, delete |-> s.delete, picks |-> s.picks, rest |-> s.rest,
            checked |-> s.checked, hasty |-> s.hasty, crossed |-> s.crossed, edited |-> s.edited]
    /\ s.ent \in Ents /\ s.delete \in BOOLEAN /\ s.hasty \in BOOLEAN

IsLoad(m) ==
    /\ m = [id |-> m.id, ent |-> m.ent, answer |-> m.answer, crossed |-> m.crossed]
    /\ m.ent \in Ents

DesignTypeOK ==
    /\ DOMAIN stored = Ents
    /\ ent \in Ents \cup {Unpicked}
    /\ hasty \in BOOLEAN
    /\ \A s \in saves : IsSave(s)
    /\ \A m \in loads : IsLoad(m)

\* What the designer of views sends of a rest.
Sendable(r) == IF r = NotAList THEN EmptyRest ELSE r

\* The rest that a save of r may meet on the server: what would be sent of the one is what
\* would be sent of the other.
Agrees(e, r) == stored[e] # Unstored => Sendable(stored[e].rest) = Sendable(r)

\* The rest of the definition that the server renders.
RestOf(e) == IF stored[e] = Unstored THEN EmptyRest ELSE stored[e].rest

\* No other author has stored a definition.
Alone(m) == "definition" \notin m

\* Who waits has loads or saves on their way, not both; what has been rendered, what the
\* designer has, and what it has sent is what the server has, if no other author wrote.
Waits ==
    ~hasty =>
        /\ loads # {} => saves = {}
        /\ \A m \in loads : m.answer # Unpicked /\ Alone(m.crossed) => m.answer.rest = RestOf(m.ent)
        /\ ent # Unpicked /\ loads = {} /\ Alone(crossed) => Agrees(ent, rest)
        /\ \A s \in saves : s.ent = ent /\ ent # Unpicked /\ (~s.delete => s.rest = Sendable(rest))

\* A save that nobody hurried or crossed finds its rest, and all others on their way have
\* the same.
SavesAgree ==
    \A s \in saves : ~s.hasty /\ ~s.delete =>
        /\ s.rest = Sendable(s.rest)
        /\ Alone(s.crossed) => Agrees(s.ent, s.rest)
        /\ \A t \in saves : ~t.delete /\ t.ent = s.ent => t.rest = s.rest

DesignInv == DesignTypeOK /\ (design = "view" => Waits /\ SavesAgree)

\* Another entity is picked.
LEMMA PickKeeps ==
    ASSUME DesignInv, NEW e \in Ents, PickEntity(e)
    PROVE  DesignInv'
<1>1. PICK m : /\ m = [id |-> FreeSlot(loads, MaxLoads), ent |-> e, answer |-> Unpicked,
                       crossed |-> {}]
               /\ loads' = loads \cup {m}
  BY DEF PickEntity
<1>2. IsLoad(m) /\ m.answer = Unpicked
  BY <1>1 DEF IsLoad
<1>3. /\ ent' = e /\ hasty' = (hasty \/ saves # {})
      /\ UNCHANGED <<design, stored, rest, saves, crossed>>
  BY DEF PickEntity
<1>4. DesignTypeOK'
  BY <1>1, <1>2, <1>3 DEF DesignInv, DesignTypeOK, IsLoad, IsSave
<1>5. design = "view" => Waits'
  BY <1>1, <1>2, <1>3 DEF DesignInv, Waits, RestOf
<1>6. design = "view" => SavesAgree'
  BY <1>3 DEF DesignInv, SavesAgree, Agrees
<1>7. QED
  BY <1>3, <1>4, <1>5, <1>6 DEF DesignInv

\* The server renders a definition.
LEMMA RenderKeeps ==
    ASSUME DesignInv, NEW m \in loads, RenderStep(m)
    PROVE  DesignInv'
<1>1. PICK n : n = [m EXCEPT !.answer = Render(m.ent)] /\ loads' = (loads \ {m}) \cup {n}
  BY DEF RenderStep
<1>2. IsLoad(m)
  BY DEF DesignInv, DesignTypeOK
<1>3. n = [id |-> m.id, ent |-> m.ent, answer |-> Render(m.ent), crossed |-> m.crossed]
  BY <1>1, <1>2 DEF IsLoad
<1>4. IsLoad(n) /\ n.answer.rest = RestOf(n.ent) /\ loads # {}
  BY <1>2, <1>3 DEF IsLoad, Render, RestOf
<1>5. UNCHANGED <<design, stored, ent, rest, saves, hasty, crossed>>
  BY DEF RenderStep, shown
<1>6. DesignTypeOK'
  BY <1>1, <1>4, <1>5 DEF DesignInv, DesignTypeOK, IsLoad, IsSave
<1>7. design = "view" => Waits'
  BY <1>1, <1>4, <1>5 DEF DesignInv, Waits, RestOf
<1>8. design = "view" => SavesAgree'
  BY <1>5 DEF DesignInv, SavesAgree, Agrees
<1>9. QED
  BY <1>5, <1>6, <1>7, <1>8 DEF DesignInv

\* The answer arrives, or there is none.
LEMMA LoadedKeeps ==
    ASSUME DesignInv, NEW m \in loads, DefinitionLoaded(m) \/ NotLoaded(m)
    PROVE  DesignInv'
<1>1. /\ loads' = loads \ {m} /\ crossed' = m.crossed
      /\ UNCHANGED <<design, stored, ent, saves>>
  BY DEF DefinitionLoaded, NotLoaded, Fill
<1>2. hasty' \in BOOLEAN /\ (hasty => hasty')
  BY DEF DefinitionLoaded, NotLoaded, DesignInv, DesignTypeOK
<1>3. ~hasty' => m.answer # Unpicked /\ rest' = m.answer.rest /\ m.ent = ent
  BY DEF DefinitionLoaded, NotLoaded, Fill
<1>4. DesignTypeOK'
  BY <1>1, <1>2 DEF DesignInv, DesignTypeOK, IsLoad, IsSave
<1>5. design = "view" => Waits'
  <2> SUFFICES ASSUME design = "view", ~hasty' PROVE Waits'
    BY DEF Waits
  <2>1. Waits /\ ~hasty
    BY <1>2 DEF DesignInv
  <2>2. saves = {} /\ (Alone(m.crossed) => m.answer.rest = RestOf(m.ent))
    BY <1>3, <2>1 DEF Waits
  <2>3. Alone(crossed') => Agrees(ent, rest)'
    BY <1>1, <1>3, <2>2 DEF Agrees, RestOf
  <2>4. QED
    BY <1>1, <2>1, <2>2, <2>3 DEF Waits, RestOf
<1>6. design = "view" => SavesAgree'
  BY <1>1 DEF DesignInv, SavesAgree, Agrees
<1>7. QED
  BY <1>1, <1>4, <1>5, <1>6 DEF DesignInv

\* A save that differs only in what it has been marked with.
Same(u, t) == u.ent = t.ent /\ u.delete = t.delete /\ u.rest = t.rest

\* A save is sent: in haste it marks those before it, and otherwise it is what they are.
LEMMA SentKeeps ==
    ASSUME DesignInv, NEW s, NEW also, IsSave(s), Sent(s, also), s.ent = ent,
           ~s.delete => /\ s.hasty = (hasty \/ loads # {}) /\ s.crossed = crossed
                        /\ design = "view" => s.rest = Sendable(rest)
    PROVE  DesignInv'
<1>1. /\ saves' = {[t EXCEPT !.hasty = @ \/ s.hasty, !.edited = @ \cup also] : t \in saves} \cup {s}
      /\ hasty' = (hasty \/ loads # {}) /\ ent # Unpicked
      /\ UNCHANGED <<design, stored, ent, rest, loads, crossed>>
  BY DEF Sent, shown
<1>2. ASSUME NEW t \in saves, NEW u,
             u = [t EXCEPT !.hasty = @ \/ s.hasty, !.edited = @ \cup also]
      PROVE  IsSave(u) /\ Same(u, t) /\ u.crossed = t.crossed /\ u.hasty = (t.hasty \/ s.hasty)
  <2>1. IsSave(t) /\ s.hasty \in BOOLEAN
    BY DEF DesignInv, DesignTypeOK, IsSave
  <2>2. u = [id |-> t.id, ent |-> t.ent, delete |-> t.delete, picks |-> t.picks,
             rest |-> t.rest, checked |-> t.checked, hasty |-> t.hasty \/ s.hasty,
             crossed |-> t.crossed, edited |-> t.edited \cup also]
    BY <1>2, <2>1 DEF IsSave
  <2>3. QED
    BY <2>1, <2>2 DEF IsSave, Same
<1>3. \A u \in saves' : u = s \/ \E t \in saves :
          Same(u, t) /\ u.crossed = t.crossed /\ u.hasty = (t.hasty \/ s.hasty)
  BY <1>1, <1>2
<1>4. DesignTypeOK'
  <2>1. \A u \in saves' : IsSave(u)
    BY <1>1, <1>2
  <2>2. QED
    BY <1>1, <2>1 DEF DesignInv, DesignTypeOK, IsLoad, IsSave
<1>5. design = "view" => Waits'
  <2> SUFFICES ASSUME design = "view", ~hasty, loads = {} PROVE Waits'
    BY <1>1 DEF Waits
  <2>1. /\ Alone(crossed) => Agrees(ent, rest)
        /\ Alone(crossed) => Agrees(ent, rest)'
        /\ \A t \in saves : t.ent = ent /\ (~t.delete => t.rest = Sendable(rest))
        /\ s.ent = ent /\ (~s.delete => s.rest = Sendable(rest))
    BY <1>1 DEF DesignInv, Waits, Agrees
  <2>2. \A u \in saves' : u.ent = ent /\ (~u.delete => u.rest = Sendable(rest))
    BY <1>3, <2>1 DEF Same
  <2>3. QED
    BY <1>1, <2>1, <2>2 DEF Waits
<1>6. design = "view" => SavesAgree'
  <2> SUFFICES ASSUME design = "view", NEW u \in saves', ~u.hasty, ~u.delete
               PROVE  /\ u.rest = Sendable(u.rest)
                      /\ Alone(u.crossed) => Agrees(u.ent, u.rest)'
                      /\ \A t \in saves' : ~t.delete /\ t.ent = u.ent => t.rest = u.rest
    BY <1>1 DEF SavesAgree
  <2>1. Waits /\ SavesAgree
    BY DEF DesignInv
  <2>2. s.ent = ent /\ UNCHANGED <<stored, ent>>
    BY <1>1
  <2>3. ASSUME ~s.delete, ~s.hasty
        PROVE  /\ s.rest = Sendable(s.rest) /\ (Alone(s.crossed) => Agrees(ent, s.rest))
               /\ \A t \in saves : ~t.delete => t.rest = s.rest
    BY <1>1, <2>1, <2>3 DEF Waits, IsSave, Agrees, Sendable
  <2>4. CASE u = s
    <3>1. ~s.delete /\ ~s.hasty
      BY <2>4
    <3>2. Alone(s.crossed) => Agrees(s.ent, s.rest)'
      BY <2>3, <2>2, <3>1 DEF Agrees
    <3>3. \A t \in saves' : ~t.delete => t.rest = s.rest
      BY <1>3, <2>3, <3>1 DEF Same
    <3>4. QED
      BY <2>3, <2>4, <3>1, <3>2, <3>3
  <2>5. ASSUME NEW v \in saves, Same(u, v), u.crossed = v.crossed, u.hasty = (v.hasty \/ s.hasty)
        PROVE  /\ u.rest = Sendable(u.rest)
               /\ Alone(u.crossed) => Agrees(u.ent, u.rest)'
               /\ \A t \in saves' : ~t.delete /\ t.ent = u.ent => t.rest = u.rest
    <3>1. ~v.hasty /\ ~v.delete /\ ~s.hasty
      BY <2>5 DEF Same
    <3>2. /\ v.rest = Sendable(v.rest)
          /\ Alone(v.crossed) => Agrees(v.ent, v.rest)
          /\ \A t \in saves : ~t.delete /\ t.ent = v.ent => t.rest = v.rest
      BY <2>1, <3>1 DEF SavesAgree
    <3>3. ~s.delete => s.rest = v.rest
      BY <2>3, <3>1
    <3>4. Alone(u.crossed) => Agrees(u.ent, u.rest)'
      BY <2>5, <2>2, <3>2 DEF Agrees, Same
    <3>5. \A t \in saves' : ~t.delete /\ t.ent = u.ent => t.rest = u.rest
      BY <1>3, <2>5, <3>2, <3>3 DEF Same
    <3>6. QED
      BY <2>5, <3>2, <3>4, <3>5 DEF Same
  <2>6. QED
    BY <1>3, <2>4, <2>5
<1>7. QED
  BY <1>1, <1>4, <1>5, <1>6 DEF DesignInv

\* The designer sends what it has.
LEMMA SaveKeeps == ASSUME DesignInv, SaveDesign \/ DeleteDesign PROVE DesignInv'
<1>1. CASE SaveDesign
  <2>1. PICK s : /\ Sent(s, {}) /\ IsSave(s) /\ s.ent = ent /\ s.crossed = crossed
                 /\ s.hasty = (hasty \/ loads # {}) /\ s.rest = RestSent
    <3> DEFINE s == [id |-> FreeSlot(saves, MaxInputs), ent |-> ent, delete |-> FALSE,
                     picks |-> PicksSent, rest |-> RestSent, checked |-> design = "form",
                     hasty |-> hasty \/ loads # {}, crossed |-> crossed, edited |-> edited]
    <3>1. Sent(s, {}) /\ ent # Unpicked
      BY <1>1 DEF SaveDesign, Sent
    <3>2. /\ IsSave(s) /\ s.ent = ent /\ s.hasty = (hasty \/ loads # {})
          /\ s.rest = RestSent /\ s.crossed = crossed
      BY <3>1 DEF IsSave, DesignInv, DesignTypeOK
    <3>3. QED
      BY <3>1, <3>2
  <2>2. QED
    BY <2>1, SentKeeps DEF RestSent, Sendable
<1>2. CASE DeleteDesign
  <2>1. PICK s : Sent(s, Names(ent)) /\ IsSave(s) /\ s.ent = ent /\ s.delete
    <3> DEFINE s == [id |-> FreeSlot(saves, MaxInputs), ent |-> ent, delete |-> TRUE,
                     picks |-> <<>>, rest |-> EmptyRest, checked |-> TRUE,
                     hasty |-> FALSE, crossed |-> {}, edited |-> {}]
    <3>1. Sent(s, Names(ent)) /\ ent # Unpicked
      BY <1>2 DEF DeleteDesign, Sent
    <3>2. IsSave(s) /\ s.ent = ent /\ s.delete
      BY <3>1 DEF IsSave, DesignInv, DesignTypeOK
    <3>3. QED
      BY <3>1, <3>2
  <2>2. QED
    BY <2>1, SentKeeps
<1>3. QED
  BY <1>1, <1>2

\* The saves on their way are marked, or fewer.
LEMMA MarkedKeeps ==
    ASSUME DesignInv, UNCHANGED <<design, stored, ent, rest, loads, hasty, crossed>>,
           \A u \in saves' : /\ IsSave(u)
                             /\ \E t \in saves : Same(u, t) /\ u.hasty = t.hasty /\ u.crossed = t.crossed
    PROVE  DesignInv'
<1>1. DesignTypeOK'
  BY DEF DesignInv, DesignTypeOK, IsLoad, IsSave
<1>2. design = "view" => Waits'
  <2>1. ASSUME design = "view", ~hasty
        PROVE  /\ loads # {} => saves' = {}
               /\ \A u \in saves' : u.ent = ent /\ ent # Unpicked /\ (~u.delete => u.rest = Sendable(rest))
    BY <2>1 DEF DesignInv, Waits, Same
  <2>2. QED
    BY <2>1 DEF DesignInv, Waits, Agrees, RestOf
<1>3. design = "view" => SavesAgree'
  BY DEF DesignInv, SavesAgree, Same, Agrees
<1>4. QED
  BY <1>1, <1>2, <1>3 DEF DesignInv

\* A widget changes, the columns are looked up, or a save is lost.
LEMMA EditKeeps ==
    ASSUME DesignInv, \/ EditPick
                      \/ \E s \in saves : LookUpColumns(s) \/ SaveLost(s)
    PROVE  DesignInv'
<1>1. UNCHANGED <<design, stored, ent, rest, loads, hasty, crossed>>
  BY DEF EditPick, TypeIn, LookUpColumns, SaveLost, shown
<1>2. \A t \in saves : IsSave(t)
  BY DEF DesignInv, DesignTypeOK
<1>3. ASSUME NEW u \in saves'
      PROVE  /\ IsSave(u)
             /\ \E t \in saves : Same(u, t) /\ u.hasty = t.hasty /\ u.crossed = t.crossed
  <2>1. PICK t \in saves :
          u = [id |-> t.id, ent |-> t.ent, delete |-> t.delete, picks |-> t.picks, rest |-> t.rest,
               checked |-> u.checked, hasty |-> t.hasty, crossed |-> t.crossed, edited |-> u.edited]
    <3>1. CASE EditPick
      <4>1. PICK n : saves' = {[s EXCEPT !.edited = @ \cup {n}] : s \in saves}
        <5>1. PICK n, pick : TypeIn(n, pick)
          BY <3>1 DEF EditPick
        <5>2. QED
          BY <5>1 DEF TypeIn
      <4>2. PICK t \in saves : u = [t EXCEPT !.edited = @ \cup {n}]
        BY <4>1
      <4>3. u = [id |-> t.id, ent |-> t.ent, delete |-> t.delete, picks |-> t.picks, rest |-> t.rest,
                 checked |-> t.checked, hasty |-> t.hasty, crossed |-> t.crossed,
                 edited |-> t.edited \cup {n}]
        <5>1. IsSave(t)
          BY <1>2
        <5>2. QED
          BY <4>2, <5>1 DEF IsSave
      <4>4. QED
        BY <4>3
    <3>2. CASE u \in saves
      BY <1>2, <3>2 DEF IsSave
    <3>3. ASSUME NEW s \in saves, LookUpColumns(s), u \notin saves
          PROVE  u = [s EXCEPT !.checked = TRUE]
      BY <3>3 DEF LookUpColumns
    <3>4. ASSUME NEW s \in saves, u = [s EXCEPT !.checked = TRUE]
          PROVE  u = [id |-> s.id, ent |-> s.ent, delete |-> s.delete, picks |-> s.picks,
                      rest |-> s.rest, checked |-> u.checked, hasty |-> s.hasty,
                      crossed |-> s.crossed, edited |-> u.edited]
      <4>1. u = [id |-> s.id, ent |-> s.ent, delete |-> s.delete, picks |-> s.picks, rest |-> s.rest,
                 checked |-> TRUE, hasty |-> s.hasty, crossed |-> s.crossed, edited |-> s.edited]
        <5>1. IsSave(s)
          BY <1>2
        <5>2. QED
          BY <3>4, <5>1 DEF IsSave
      <4>2. QED
        BY <4>1
    <3>5. ASSUME NEW s \in saves, SaveLost(s) PROVE u \in saves
      BY <3>5 DEF SaveLost
    <3>6. QED
      BY <3>1, <3>2, <3>3, <3>4, <3>5
  <2>2. QED
    BY <1>2, <2>1 DEF IsSave, Same
<1>4. QED
  BY <1>1, <1>3, MarkedKeeps

\* What a save may do to the stored definitions.
LEMMA UpsertStores ==
    ASSUME DesignInv, NEW s \in saves, Upsert(s)
    PROVE  /\ IsSave(s)
           /\ \A e \in Ents \ {s.ent} : stored'[e] = stored[e]
           /\ \/ stored'[s.ent] = Unstored
              \/ ~s.delete /\ stored'[s.ent] = [picks |-> s.picks, rest |-> s.rest]
           /\ DOMAIN stored' = Ents
BY DEF DesignInv, DesignTypeOK, IsSave, Upsert

\* The server stores a definition or removes it.
LEMMA UpsertKeeps ==
    ASSUME DesignInv, NEW s \in saves, Upsert(s)
    PROVE  DesignInv'
<1>1. saves' = saves \ {s} /\ UNCHANGED <<design, ent, rest, loads, hasty, crossed>>
  BY DEF Upsert, shown
<1>2. DesignTypeOK'
  BY <1>1, UpsertStores DEF DesignInv, DesignTypeOK, IsSave, IsLoad
<1>3. ASSUME NEW e \in Ents, NEW r, Agrees(e, r),
             e = s.ent /\ ~s.delete => Sendable(s.rest) = Sendable(r)
      PROVE  Agrees(e, r)'
  <2>1. CASE stored'[e] = stored[e] \/ stored'[e] = Unstored
    BY <1>3, <2>1 DEF Agrees
  <2>2. CASE e = s.ent /\ ~s.delete /\ stored'[e] = [picks |-> s.picks, rest |-> s.rest]
    BY <1>3, <2>2 DEF Agrees
  <2>3. QED
    BY <2>1, <2>2, UpsertStores
<1>4. design = "view" => Waits'
  <2> SUFFICES ASSUME design = "view", ~hasty PROVE Waits'
    BY <1>1 DEF Waits
  <2>1. loads = {} /\ s.ent = ent /\ ent # Unpicked /\ (~s.delete => s.rest = Sendable(rest))
        /\ (Alone(crossed) => Agrees(ent, rest)) /\ ent \in Ents
    BY DEF DesignInv, DesignTypeOK, Waits
  <2>2. Alone(crossed) => Agrees(ent, rest)'
    BY <1>1, <1>3, <2>1 DEF Agrees, Sendable
  <2>3. QED
    BY <1>1, <2>1, <2>2 DEF DesignInv, Waits
<1>5. design = "view" => SavesAgree'
  <2> SUFFICES ASSUME design = "view", NEW t \in saves \ {s}, ~t.hasty, ~t.delete, Alone(t.crossed)
               PROVE  Agrees(t.ent, t.rest)'
    BY <1>1 DEF DesignInv, SavesAgree
  <2>1. Agrees(t.ent, t.rest) /\ (~s.delete /\ s.ent = t.ent => s.rest = t.rest) /\ t.ent \in Ents
    BY DEF DesignInv, SavesAgree, DesignTypeOK, IsSave
  <2>2. QED
    BY <1>3, <2>1
<1>6. QED
  BY <1>1, <1>2, <1>4, <1>5 DEF DesignInv

\* Another author stores a definition or a publisher retires a field: what has been
\* rendered of the entity, and what has been sent, is marked.
LEMMA CrossKeeps ==
    ASSUME DesignInv, NEW e \in Ents,
           \/ \E d \in Authored : AuthorWrites(e, d)
           \/ \E n \in present[e] : RetireField(e, n)
    PROVE  DesignInv'
<1>1. PICK what : /\ Cross(e, what) /\ DOMAIN stored' = Ents
                  /\ \A x \in Ents : stored'[x] = stored[x] \/ (x = e /\ what = "definition")
  BY DEF AuthorWrites, RetireField, DesignInv, DesignTypeOK
<1>2. UNCHANGED <<design, ent, rest, hasty>>
  BY <1>1 DEF Cross, shown
<1>3. ASSUME NEW u \in saves'
      PROVE  /\ IsSave(u)
             /\ \E t \in saves : /\ Same(u, t) /\ u.hasty = t.hasty
                                 /\ Alone(u.crossed) => Alone(t.crossed) /\ (u.ent = e => what # "definition")
  <2>1. PICK t \in saves :
          u = [t EXCEPT !.crossed = IF t.ent = e THEN @ \cup {what} ELSE @]
    BY <1>1 DEF Cross
  <2>2. IsSave(t)
    BY DEF DesignInv, DesignTypeOK
  <2>3. u = [id |-> t.id, ent |-> t.ent, delete |-> t.delete, picks |-> t.picks, rest |-> t.rest,
             checked |-> t.checked, hasty |-> t.hasty,
             crossed |-> IF t.ent = e THEN t.crossed \cup {what} ELSE t.crossed,
             edited |-> t.edited]
    BY <2>1, <2>2 DEF IsSave
  <2>4. QED
    BY <2>2, <2>3 DEF IsSave, Same, Alone
<1>4. ASSUME NEW u \in loads'
      PROVE  /\ IsLoad(u)
             /\ \E m \in loads :
                   /\ u.ent = m.ent /\ u.answer = m.answer
                   /\ Alone(u.crossed) /\ u.answer # Unpicked =>
                         Alone(m.crossed) /\ (u.ent = e => what # "definition")
  <2>1. PICK m \in loads :
          u = [m EXCEPT !.crossed = IF m.ent = e /\ m.answer # Unpicked THEN @ \cup {what} ELSE @]
    BY <1>1 DEF Cross
  <2>2. IsLoad(m)
    BY DEF DesignInv, DesignTypeOK
  <2>3. u = [id |-> m.id, ent |-> m.ent, answer |-> m.answer,
             crossed |-> IF m.ent = e /\ m.answer # Unpicked THEN m.crossed \cup {what} ELSE m.crossed]
    BY <2>1, <2>2 DEF IsLoad
  <2>4. QED
    BY <2>2, <2>3 DEF IsLoad, Alone
<1>5. DesignTypeOK'
  BY <1>1, <1>2, <1>3, <1>4 DEF DesignInv, DesignTypeOK
<1>6. (loads' = {} <=> loads = {}) /\ (saves = {} => saves' = {})
  BY <1>1 DEF Cross
<1>7. Alone(crossed') => Alone(crossed) /\ (ent = e => what # "definition")
  BY <1>1 DEF Cross, Alone
<1>8. design = "view" => Waits'
  <2> SUFFICES ASSUME design = "view", ~hasty PROVE Waits'
    BY <1>2 DEF Waits
  <2>1. Waits
    BY DEF DesignInv
  <2>2. loads' # {} => saves' = {}
    BY <1>6, <2>1 DEF Waits
  <2>3. \A u \in loads' : u.answer # Unpicked /\ Alone(u.crossed) => u.answer.rest = RestOf(u.ent)'
    BY <1>1, <1>4, <2>1 DEF Waits, RestOf, IsLoad
  <2>4. ent # Unpicked /\ loads' = {} /\ Alone(crossed') => Agrees(ent, rest)'
    <3> SUFFICES ASSUME ent # Unpicked, loads' = {}, Alone(crossed') PROVE Agrees(ent, rest)'
      OBVIOUS
    <3>1. Agrees(ent, rest) /\ ent \in Ents
      BY <1>6, <1>7, <2>1 DEF Waits, DesignInv, DesignTypeOK
    <3>2. stored'[ent] = stored[ent]
      BY <1>1, <1>7, <3>1
    <3>3. QED
      BY <1>2, <3>1, <3>2 DEF Agrees
  <2>5. \A u \in saves' : u.ent = ent /\ ent # Unpicked /\ (~u.delete => u.rest = Sendable(rest))
    BY <1>3, <2>1 DEF Waits, Same
  <2>6. QED
    BY <1>2, <2>2, <2>3, <2>4, <2>5 DEF Waits
<1>9. design = "view" => SavesAgree'
  <2> SUFFICES ASSUME design = "view", NEW u \in saves', ~u.hasty, ~u.delete
               PROVE  /\ u.rest = Sendable(u.rest)
                      /\ Alone(u.crossed) => Agrees(u.ent, u.rest)'
                      /\ \A t \in saves' : ~t.delete /\ t.ent = u.ent => t.rest = u.rest
    BY <1>2 DEF SavesAgree
  <2>1. PICK v \in saves : /\ Same(u, v) /\ u.hasty = v.hasty
                           /\ Alone(u.crossed) => Alone(v.crossed) /\ (u.ent = e => what # "definition")
    BY <1>3
  <2>2. /\ v.rest = Sendable(v.rest)
        /\ Alone(v.crossed) => Agrees(v.ent, v.rest)
        /\ \A t \in saves : ~t.delete /\ t.ent = v.ent => t.rest = v.rest
    BY <2>1 DEF DesignInv, SavesAgree, Same
  <2>3. \A t \in saves' : ~t.delete /\ t.ent = u.ent => t.rest = u.rest
    BY <1>3, <2>1, <2>2 DEF Same
  <2>4. Alone(u.crossed) => Agrees(u.ent, u.rest)'
    <3> SUFFICES ASSUME Alone(u.crossed) PROVE Agrees(u.ent, u.rest)'
      OBVIOUS
    <3>1. stored'[u.ent] = stored[u.ent]
      BY <1>1, <1>3, <2>1 DEF IsSave
    <3>2. QED
      BY <2>1, <2>2, <3>1 DEF Agrees, Same
  <2>5. QED
    BY <2>1, <2>2, <2>3, <2>4 DEF Same
<1>10. QED
  BY <1>2, <1>5, <1>8, <1>9 DEF DesignInv

\* Each step of a designer keeps its invariant.
LEMMA DesignStep == DesignInv /\ [DesignNext]_designVars => DesignInv'
<1> SUFFICES ASSUME DesignInv, [DesignNext]_designVars PROVE DesignInv'
  OBVIOUS
<1>1. CASE UNCHANGED designVars
  <2>1. UNCHANGED <<design, stored, ent, rest, loads, saves, hasty, crossed>>
    BY <1>1 DEF designVars, shown
  <2>2. QED
    BY <2>1 DEF DesignInv, DesignTypeOK, Waits, SavesAgree, Agrees, RestOf, IsSave, IsLoad
<1>2. QED
  BY <1>1, PickKeeps, RenderKeeps, LoadedKeeps, SaveKeeps, EditKeeps, UpsertKeeps, CrossKeeps
  DEF DesignNext

\* The invariant of a designer holds, beside other authors and publishers.
THEOREM DesignInvariant == DesignSpec => []DesignInv
<1>1. DesignInit => DesignInv
  <2> SUFFICES ASSUME DesignInit PROVE DesignInv
    OBVIOUS
  <2>1. DesignTypeOK
    BY DesignAssumption DEF DesignInit, DesignTypeOK
  <2>2. QED
    BY <2>1 DEF DesignInit, DesignInv, Waits, SavesAgree
<1>2. QED
  BY <1>1, DesignStep, PTL DEF DesignSpec

\* A save by a modeler who waits, crossed by no other author's, leaves the filters and the
\* sort as they were if they are lists.
THEOREM FiltersAreKept == DesignSpec => FiltersRoundTrip
<1>1. DesignInv /\ [DesignNext]_designVars => [KeepsFilters]_designVars
  <2> SUFFICES ASSUME DesignInv, DesignNext PROVE KeepsFilters
    BY DEF designVars
  <2>1. SUFFICES ASSUME NEW s \in CarefulSaves, design = "view", "definition" \notin s.crossed,
                        stored[s.ent] # Unstored, stored[s.ent].rest # NotAList
                 PROVE  stored'[s.ent].rest = stored[s.ent].rest
    BY DEF KeepsFilters
  <2>2. s \in saves /\ ~s.delete /\ IsSave(s)
        /\ s.rest = Sendable(s.rest) /\ Agrees(s.ent, s.rest)
    BY <2>1 DEF CarefulSaves, Finished, DesignInv, DesignTypeOK, SavesAgree, Alone
  <2>3. stored[s.ent].rest = s.rest
    BY <2>1, <2>2 DEF Agrees, Sendable
  <2>4. CASE UNCHANGED stored
    BY <2>4
  <2>5. ASSUME NEW t \in saves, Upsert(t) PROVE stored'[s.ent].rest = stored[s.ent].rest
    <3>1. s = t
      BY <2>1, <2>5 DEF Upsert, CarefulSaves, Finished
    <3>2. stored' = [stored EXCEPT ![s.ent] = [picks |-> s.picks, rest |-> s.rest]]
      BY <2>2, <2>5, <3>1 DEF Upsert
    <3>3. QED
      BY <2>2, <2>3, <3>2 DEF DesignInv, DesignTypeOK, IsSave
  <2>6. ASSUME NEW e \in Ents, NEW d \in Authored, AuthorWrites(e, d) PROVE FALSE
    <3>1. [s EXCEPT !.crossed = IF s.ent = e THEN @ \cup {"definition"} ELSE @] \in saves'
      BY <2>2, <2>6 DEF AuthorWrites, Cross
    <3>2. [s EXCEPT !.crossed = IF s.ent = e THEN @ \cup {"definition"} ELSE @].id = s.id
      BY <2>2 DEF IsSave
    <3>3. QED
      BY <2>1, <3>1, <3>2 DEF CarefulSaves, Finished
  <2>7. QED
    BY <2>4, <2>5, <2>6 DEF DesignNext, PickEntity, RenderStep, DefinitionLoaded, NotLoaded, Fill,
       EditPick, TypeIn, SaveDesign, DeleteDesign, Sent, LookUpColumns, SaveLost, RetireField
<1>2. QED
  BY <1>1, DesignInvariant, PTL DEF DesignSpec, FiltersRoundTrip
=============================================================================

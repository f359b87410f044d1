--------------------------- MODULE EventLog_proofs ---------------------------
(***************************************************************************)
(* Lemmas about the event log and the queries on it, for the proofs about  *)
(* its readers: the webhook relay and the event stream.                    *)
(***************************************************************************)
EXTENDS EventLog, FiniteSetTheorems, WellFoundedInduction, TLAPS

\* The numbers are ordered, so a set of them has a least and a greatest member.
LEMMA LeastExists ==
    ASSUME NEW S, S \subseteq Nat, S # {}
    PROVE  \E x \in S : \A y \in S : x <= y
<1> DEFINE R == OpToRel(<, Nat)
<1>1. IsWellFoundedOn(R, Nat)
  BY NatLessThanWellFounded
<1>2. \A x, y \in Nat : x < y => <<x, y>> \in R
  BY DEF OpToRel
<1> HIDE DEF R
<1>3. PICK x \in S : \A y \in S : ~(<<y, x>> \in R)
  BY <1>1, WFMin
<1>4. ASSUME NEW y \in S PROVE x <= y
  <2>1. x \in Nat /\ y \in Nat /\ ~(y < x)
    BY <1>2, <1>3
  <2>2. QED
    BY <2>1
<1>5. QED
  BY <1>4

\* A non-empty set of numbers has the least element that CHOOSE names.
LEMMA LeastChosen ==
    ASSUME NEW S, S \subseteq Nat, S # {}
    PROVE  LET x == CHOOSE x \in S : \A y \in S : x <= y
           IN x \in S /\ \A y \in S : x <= y
BY LeastExists

\* Highest picks the largest of a non-empty set of sequence numbers.
LEMMA HighestChosen ==
    ASSUME NEW S, S \subseteq Seqs \cup {0}, S # {}, NEW d
    PROVE  Highest(S, d) \in S /\ \A y \in S : y <= Highest(S, d)
<1>0. MaxSeq \in Nat /\ S \subseteq 0..MaxSeq
  BY LogAssumption DEF Seqs
<1> DEFINE T == {MaxSeq - x : x \in S}
<1>1. T \subseteq Nat /\ T # {}
  <2>1. ASSUME NEW x \in S PROVE MaxSeq - x \in Nat
    <3>1. x \in Nat /\ x <= MaxSeq
      BY <1>0
    <3>2. QED
      BY <1>0, <3>1
  <2>2. QED
    BY <2>1
<1> HIDE DEF T
<1>2. PICK t \in T : \A y \in T : t <= y
  BY <1>1, LeastExists
<1>3. PICK x \in S : t = MaxSeq - x
  BY DEF T
<1>4. ASSUME NEW y \in S PROVE y <= x
  <2>1. MaxSeq - y \in T
    BY DEF T
  <2>2. MaxSeq - x <= MaxSeq - y
    BY <1>2, <1>3, <2>1
  <2>3. x \in 0..MaxSeq /\ y \in 0..MaxSeq
    BY <1>0
  <2>4. QED
    BY <1>0, <2>2, <2>3
<1>5. QED
  BY <1>4 DEF Highest

\* A page of the log is a part of it, above the cursor it was asked for.
LEMMA PageOfLog ==
    ASSUME NEW a, NEW limit
    PROVE  After(a, limit) \subseteq log /\ \A s \in After(a, limit) : s > a
BY DEF After

\* A page leaves nothing out below its last event: ORDER BY seq LIMIT limit.
LEMMA PageIsPrefix ==
    ASSUME LogTypeOK, NEW a \in Nat, NEW limit \in Nat,
           NEW t \in After(a, limit), NEW s \in log, a < s, s <= t
    PROVE  s \in After(a, limit)
<1> DEFINE Upto(x) == {y \in log : a < y /\ y <= x}
<1>1. log \subseteq Nat /\ IsFiniteSet(log)
  <2>1. nextSeq - 1 \in Int /\ log \subseteq 1..(nextSeq - 1)
    BY LogAssumption DEF LogTypeOK
  <2>2. IsFiniteSet(1..(nextSeq - 1))
    BY <2>1, FS_Interval
  <2>3. QED
    <3>1. log \subseteq Nat
      BY <2>1
    <3>2. IsFiniteSet(log)
      BY <2>1, <2>2, FS_Subset
    <3>3. QED
      BY <3>1, <3>2
<1>2. t \in log /\ Cardinality(Upto(t)) <= limit
  BY DEF After
<1>3. Upto(s) \subseteq Upto(t)
  <2>1. \A y \in log : y <= s => y <= t
    BY <1>1, <1>2
  <2>2. QED
    BY <2>1
<1>4. IsFiniteSet(Upto(t))
  BY <1>1, FS_Subset
<1>5. Cardinality(Upto(s)) <= Cardinality(Upto(t)) /\ Cardinality(Upto(s)) \in Nat
      /\ Cardinality(Upto(t)) \in Nat
  BY <1>3, <1>4, FS_Subset, FS_CardinalityType
<1>6. Cardinality(Upto(s)) <= limit
  <2> HIDE DEF Upto
  <2>1. QED
    BY <1>2, <1>5
<1>7. QED
  BY <1>6 DEF After

-----------------------------------------------------------------------------
\* The log on its own: rows are only added, and one that is added below another is late.
LEMMA SeqsPositive == Seqs \subseteq Nat /\ Seqs \cup {0} \subseteq Nat /\ \A s \in Seqs : s > 0
BY LogAssumption DEF Seqs

\* The rows of the log, and those that committed late, are sequence numbers.
LEMMA LogNumbers ==
    LogTypeOK => log \subseteq Seqs /\ late \subseteq log
BY LogAssumption DEF LogTypeOK, Seqs

\* The log starts empty.
LEMMA LogInitially == LogInit => LogTypeOK /\ log = {}
BY LogAssumption DEF LogInit, LogTypeOK

\* A write only adds to the log, and what it adds in time is above all that was there.
LEMMA LogStep ==
    ASSUME LogTypeOK, Write \/ UNCHANGED logVars
    PROVE  /\ LogTypeOK' /\ log \subseteq log' /\ log' \subseteq Seqs
           /\ \A s \in log' \ late' : s \in log \ late \/ \A x \in log : x < s
<1>0. /\ nextSeq \in Nat /\ MaxSeq \in Nat /\ log \subseteq Nat /\ open \subseteq Nat
  BY LogAssumption DEF LogTypeOK
<1>1. ASSUME InsertEvent PROVE LogTypeOK' /\ log' = log /\ late' = late
  BY <1>0, <1>1 DEF LogTypeOK, InsertEvent, Seqs
<1>2. ASSUME NEW s \in Seqs, CommitEvent(s)
      PROVE  /\ LogTypeOK' /\ log \subseteq log'
             /\ \A x \in log' \ late' : x \in log \ late \/ \A y \in log : y < x
  <2>1. LogTypeOK' /\ log' = log \cup {s} /\ s \notin log
    BY <1>2 DEF LogTypeOK, CommitEvent
  <2>2. late \subseteq late'
    BY <1>2 DEF CommitEvent
  <2>3. ASSUME s \notin late', NEW y \in log PROVE y < s
    <3>1. ~(y > s) /\ y # s
      BY <1>2, <2>1, <2>3 DEF CommitEvent
    <3>2. y \in Nat /\ s \in Nat
      BY <1>0 DEF Seqs
    <3>3. QED
      BY <3>1, <3>2
  <2>4. QED
    BY <2>1, <2>2, <2>3
<1>3. ASSUME NEW s \in Seqs, AbortEvent(s)
      PROVE  LogTypeOK' /\ log' = log /\ late' = late
  BY <1>3 DEF LogTypeOK, AbortEvent
<1>4. ASSUME UNCHANGED logVars PROVE LogTypeOK' /\ log' = log /\ late' = late
  BY <1>4 DEF LogTypeOK, logVars
<1>5. /\ LogTypeOK' /\ log \subseteq log'
      /\ \A s \in log' \ late' : s \in log \ late \/ \A x \in log : x < s
  BY <1>1, <1>2, <1>3, <1>4 DEF Write
<1>6. log' \subseteq Seqs
  <2>1. nextSeq' \in 1..(MaxSeq + 1) /\ log' \subseteq 1..(nextSeq' - 1)
    BY <1>5 DEF LogTypeOK
  <2>2. ASSUME NEW n \in 1..(MaxSeq + 1) PROVE 1..(n - 1) \subseteq 1..MaxSeq
    BY <1>0
  <2>3. QED
    BY <2>1, <2>2 DEF Seqs
<1>7. QED
  BY <1>5, <1>6
=============================================================================

------------------------- MODULE WebhookRelay_proofs -------------------------
(***************************************************************************)
(* Proofs about WebhookRelay, for every number of relays, events and       *)
(* concurrent writers: the shared cursor passes over no event but one that *)
(* was committed after a higher one.                                       *)
(***************************************************************************)
EXTENDS WebhookRelay, EventLog_proofs

(* The inductive invariant.  What the stored cursor promises, the mark a relay carries  *)
(* promises too, and the events it still holds are a prefix of those above its mark.    *)

\* Cursors and marks are numbers of the log, so an event that is committed below one is
\* late.
MarksInLog ==
    /\ cursor \in log \cup {0}
    /\ \A r \in Relays : pass[r].mark \in log \cup {0}

PassInv ==
    \A r \in Relays :
        /\ pass[r].at # "enqueue" => pass[r].todo = {}
        /\ \A s \in log \ late :
               /\ s <= pass[r].mark => queued[s] > 0
               /\ \A t \in pass[r].todo : s <= t => s \in pass[r].todo \/ queued[s] > 0

RelayInv == TypeOK /\ MarksInLog /\ NothingSkipped /\ PassInv

PassType == [at: {"idle", "read", "enqueue"}, mark: Seqs \cup {0}, todo: SUBSET Seqs]

-----------------------------------------------------------------------------
\* Nothing is relayed at first.
LEMMA RelayInit == Init => RelayInv
<1> SUFFICES ASSUME Init PROVE RelayInv
  OBVIOUS
<1>1. LogTypeOK /\ log = {}
  BY LogInitially DEF Init
<1>2. Idle \in PassType
  BY DEF Idle, PassType
<1>3. TypeOK
  BY <1>1, <1>2, RelayAssumption DEF Init, TypeOK, PassType, Idle
<1>4. MarksInLog /\ NothingSkipped /\ PassInv
  BY <1>1 DEF Init, MarksInLog, NothingSkipped, PassInv, Idle
<1>5. QED
  BY <1>3, <1>4 DEF RelayInv

\* The log grows above what has been read, or with late events.
LEMMA LogKeeps ==
    ASSUME RelayInv, Log \/ UNCHANGED vars PROVE RelayInv'
<1>0. LogTypeOK /\ log \subseteq Seqs /\ pass \in [Relays -> PassType] /\ Seqs \subseteq Nat
  BY LogNumbers, SeqsPositive DEF RelayInv, TypeOK, PassType
<1>1. UNCHANGED <<cursor, pass, queued, deaths, replays>> /\ (Write \/ UNCHANGED logVars)
  BY DEF Log, vars
<1>2. /\ LogTypeOK' /\ log \subseteq log' /\ log' \subseteq Seqs
      /\ \A s \in log' \ late' : s \in log \ late \/ \A x \in log : x < s
  BY <1>0, <1>1, LogStep
<1>4. TypeOK'
  BY <1>1, <1>2 DEF RelayInv, TypeOK
<1>5. MarksInLog'
  BY <1>1, <1>2 DEF RelayInv, MarksInLog
<1>6. ASSUME NEW s \in log' \ late', NEW t \in log \cup {0}, s <= t
      PROVE  s \in log \ late
  <2>1. CASE \A x \in log : x < s
    <3>1. s \in Nat /\ t \in Nat /\ s > 0
      BY <1>0, <1>2, SeqsPositive
    <3>2. QED
      BY <1>6, <2>1, <3>1
  <2>2. QED
    BY <1>2, <2>1
<1>7. NothingSkipped'
  BY <1>1, <1>6 DEF RelayInv, NothingSkipped, MarksInLog
<1>8. PassInv'
  <2>1. \A r \in Relays : pass[r].todo \subseteq log /\ pass[r].mark \in log \cup {0}
    BY DEF RelayInv, TypeOK, MarksInLog
  <2>2. QED
    BY <1>1, <1>6, <2>1 DEF RelayInv, PassInv
<1>9. QED
  BY <1>4, <1>5, <1>7, <1>8 DEF RelayInv

\* A relay's step that reads, or gives up, and writes no table.
LEMMA PassKeeps ==
    ASSUME RelayInv, NEW r \in Relays, NEW new \in PassType, pass' = [pass EXCEPT ![r] = new],
           UNCHANGED <<logVars, queued, replays>>, deaths' \in 0..MaxDeaths,
           cursor' \in {cursor, pass[r].mark},
           new.mark \in {0, cursor, pass[r].mark}, new.at # "enqueue" => new.todo = {},
           \A t \in new.todo : t \in log /\ t > new.mark,
           \A t \in new.todo, s \in log : new.mark < s /\ s <= t => s \in new.todo
    PROVE  RelayInv'
<1>0. /\ pass \in [Relays -> PassType] /\ log \subseteq Seqs
      /\ log' = log /\ late' = late /\ LogTypeOK'
  BY LogNumbers DEF RelayInv, TypeOK, LogTypeOK, logVars, PassType
<1>1. TypeOK'
  BY <1>0 DEF RelayInv, TypeOK, PassType
<1>2. MarksInLog'
  BY <1>0 DEF RelayInv, MarksInLog
<1>3. NothingSkipped'
  BY <1>0 DEF RelayInv, NothingSkipped, PassInv
<1>4. ASSUME NEW s \in log \ late
      PROVE  /\ s <= new.mark => queued[s] > 0
             /\ \A t \in new.todo : s <= t => s \in new.todo \/ queued[s] > 0
  <2>1. s <= new.mark => queued[s] > 0
    <3>1. s > 0 /\ s \in Nat
      BY <1>0, SeqsPositive
    <3>2. new.mark = 0 => ~(s <= new.mark)
      BY <3>1
    <3>3. QED
      BY <3>2 DEF RelayInv, NothingSkipped, PassInv
  <2>2. s \in Nat /\ new.mark \in Nat
    <3>1. new.mark \in Seqs \cup {0}
      BY DEF PassType
    <3>2. QED
      BY <1>0, <3>1, SeqsPositive
  <2>3. s <= new.mark \/ new.mark < s
    BY <2>2
  <2>4. QED
    BY <2>1, <2>3
<1>5. PassInv'
  BY <1>0, <1>4 DEF RelayInv, PassInv
<1>6. QED
  BY <1>1, <1>2, <1>3, <1>5 DEF RelayInv

\* The next event in order is enqueued: all that are below it are.
LEMMA EnqueueKeeps ==
    ASSUME RelayInv, NEW r \in Relays, EnqueueNext(r) PROVE RelayInv'
<1> DEFINE s == CHOOSE x \in pass[r].todo : \A y \in pass[r].todo : x <= y
           m == Highest({pass[r].mark, s}, 0)
           new == [pass[r] EXCEPT !.todo = @ \ {s}, !.mark = m]
<1>0. /\ pass \in [Relays -> PassType] /\ pass[r] \in PassType
      /\ pass[r].at = "enqueue" /\ pass[r].todo # {}
      /\ log \subseteq Seqs /\ Seqs \subseteq Nat /\ queued \in [Seqs -> Nat]
  BY LogNumbers, SeqsPositive DEF RelayInv, TypeOK, PassType, EnqueueNext
<1>a. log' = log /\ late' = late /\ LogTypeOK'
  BY DEF RelayInv, TypeOK, LogTypeOK, logVars, EnqueueNext
<1>b. queued' = [queued EXCEPT ![s] = @ + 1] /\ UNCHANGED <<cursor, deaths, replays>>
  BY DEF EnqueueNext
<1>1. s \in pass[r].todo /\ \A y \in pass[r].todo : s <= y
  BY <1>0, LeastChosen DEF PassType
<1>3. pass' = [pass EXCEPT ![r] = new]
  <2>1. pass' = [pass EXCEPT ![r].todo = @ \ {s}, ![r].mark = Highest({@, s}, 0)]
    BY DEF EnqueueNext
  <2> HIDE DEF s
  <2>2. QED
    BY <1>0, <2>1
<1>2. s \in log /\ s > pass[r].mark /\ pass[r].mark \in Nat /\ s \in Nat
  <2>1. s \in log /\ s > pass[r].mark
    BY <1>1 DEF RelayInv, TypeOK
  <2>2. pass[r].mark \in Seqs \cup {0}
    BY <1>0 DEF PassType
  <2>3. QED
    BY <1>0, <2>1, <2>2, SeqsPositive
<1> HIDE DEF s
<1>4. m = s
  <2>1. m \in {pass[r].mark, s} /\ \A y \in {pass[r].mark, s} : y <= m
    BY <1>0, <1>1, HighestChosen DEF PassType
  <2>2. QED
    BY <1>2, <2>1
<1> HIDE DEF m
<1>5. new \in PassType /\ new.mark = s /\ new.todo = pass[r].todo \ {s} /\ new.at = "enqueue"
  BY <1>0, <1>1, <1>4 DEF PassType
<1> HIDE DEF new
<1>6. /\ queued' \in [Seqs -> Nat] /\ queued'[s] > 0
      /\ \A x \in Seqs : queued[x] > 0 => queued'[x] > 0
  BY <1>0, <1>b, <1>2
<1>7. ASSUME NEW t \in new.todo PROVE t \in log /\ t > s
  <2>1. t \in log /\ s <= t /\ t # s
    BY <1>0, <1>1, <1>5, <1>7 DEF RelayInv, TypeOK
  <2>2. t \in Nat
    BY <1>0, <2>1
  <2>3. QED
    BY <1>2, <2>1, <2>2
<1>8. TypeOK'
  BY <1>0, <1>a, <1>b, <1>3, <1>5, <1>6, <1>7 DEF RelayInv, TypeOK, PassType
<1>9. MarksInLog'
  BY <1>0, <1>a, <1>b, <1>2, <1>3, <1>5 DEF RelayInv, MarksInLog
<1>10. NothingSkipped'
  BY <1>0, <1>a, <1>b, <1>6 DEF RelayInv, NothingSkipped
<1>11. ASSUME NEW x \in log \ late
       PROVE  /\ x <= s => queued'[x] > 0
              /\ \A t \in new.todo : x <= t => x \in new.todo \/ queued'[x] > 0
  <2>1. x <= s => x \in pass[r].todo \/ queued[x] > 0
    BY <1>1 DEF RelayInv, PassInv
  <2>2. x <= s /\ x \in pass[r].todo => x = s
    <3>1. x \in Nat
      BY <1>0
    <3>2. QED
      BY <1>1, <1>2, <3>1
  <2>3. x <= s => queued'[x] > 0
    BY <1>0, <1>6, <2>1, <2>2
  <2>4. \A t \in new.todo : x <= t => x \in pass[r].todo \/ queued[x] > 0
    BY <1>5 DEF RelayInv, PassInv
  <2>5. QED
    BY <1>0, <1>5, <1>6, <2>3, <2>4
<1>12. PassInv'
  <2>1. ASSUME NEW v \in Relays, v # r
        PROVE  \A x \in log \ late :
                   /\ x <= pass[v].mark => queued'[x] > 0
                   /\ \A t \in pass[v].todo : x <= t => x \in pass[v].todo \/ queued'[x] > 0
    BY <1>0, <1>6 DEF RelayInv, PassInv
  <2>2. QED
    BY <1>0, <1>a, <1>3, <1>5, <1>11, <2>1 DEF RelayInv, PassInv
<1>13. QED
  BY <1>8, <1>9, <1>10, <1>12 DEF RelayInv

\* A replay enqueues once more.
LEMMA ReplayKeeps ==
    ASSUME RelayInv, NEW from, NEW limit, Replay(from, limit) PROVE RelayInv'
<1>1. /\ UNCHANGED <<logVars, cursor, pass, deaths>> /\ replays' = replays - 1 /\ replays > 0
      /\ log \subseteq Seqs
  BY LogNumbers DEF Replay, RelayInv, TypeOK
<1>2. PICK S : queued' = [s \in Seqs |-> IF s \in S THEN queued[s] + 1 ELSE queued[s]]
  <2>1. PICK last \in After(from, limit) :
           queued' = [s \in Seqs |-> IF s \in After(from, limit) /\ s <= last
                                     THEN queued[s] + 1 ELSE queued[s]]
    BY DEF Replay
  <2>2. queued' = [s \in Seqs |-> IF s \in {x \in After(from, limit) : x <= last}
                                  THEN queued[s] + 1 ELSE queued[s]]
    BY <2>1
  <2>3. QED
    BY <2>2
<1>3. queued' \in [Seqs -> Nat] /\ \A s \in Seqs : queued[s] > 0 => queued'[s] > 0
  BY <1>2 DEF RelayInv, TypeOK
<1>4. replays' \in 0..MaxReplays
  BY <1>1, RelayAssumption DEF RelayInv, TypeOK
<1>5. TypeOK'
  BY <1>1, <1>3, <1>4 DEF RelayInv, TypeOK, LogTypeOK, logVars
<1>6. MarksInLog' /\ NothingSkipped' /\ PassInv'
  BY <1>1, <1>3 DEF RelayInv, MarksInLog, NothingSkipped, PassInv, logVars
<1>7. QED
  BY <1>5, <1>6 DEF RelayInv

\* Each step of the relay keeps its invariant.
LEMMA RelayStep == RelayInv /\ [Next]_vars => RelayInv'
<1> SUFFICES ASSUME RelayInv, [Next]_vars PROVE RelayInv'
  OBVIOUS
<1>0. /\ \A r \in Relays : pass[r] \in PassType
      /\ deaths \in 0..MaxDeaths /\ MaxDeaths \in Nat /\ Limit \in Nat /\ LogTypeOK
      /\ cursor \in Seqs \cup {0} /\ Idle \in PassType
      /\ Seqs \subseteq Nat /\ log \subseteq Seqs
  BY RelayAssumption, LogNumbers DEF RelayInv, TypeOK, PassType, Idle, Seqs
<1>1. ASSUME NEW r \in Relays, ReadCursor(r) PROVE RelayInv'
  <2> DEFINE new == [Idle EXCEPT !.at = "read", !.mark = cursor]
  <2>1. new \in PassType /\ new.mark = cursor /\ new.todo = {} /\ new.at = "read"
    BY <1>0 DEF Idle, PassType
  <2>2. pass' = [pass EXCEPT ![r] = new] /\ UNCHANGED <<logVars, cursor, queued, deaths, replays>>
    BY <1>1 DEF ReadCursor
  <2> HIDE DEF new
  <2>3. QED
    BY <1>0, <2>1, <2>2, PassKeeps
<1>2. ASSUME NEW r \in Relays, ReadEvents(r) PROVE RelayInv'
  <2> DEFINE m == pass[r].mark
             page == [at |-> "enqueue", mark |-> m, todo |-> NewEvents(m)]
  <2>1. UNCHANGED <<logVars, cursor, queued, deaths, replays>>
    BY <1>2 DEF ReadEvents
  <2>2. CASE pass' = [pass EXCEPT ![r] = Idle]
    BY <1>0, <2>1, <2>2, PassKeeps DEF Idle
  <2>3. CASE pass' = [pass EXCEPT ![r] = page]
    <3>1. m \in Nat /\ m \in Seqs \cup {0}
      <4>1. m \in Seqs \cup {0}
        BY <1>0 DEF PassType
      <4>2. QED
        BY <4>1, SeqsPositive
    <3>2. NewEvents(m) \subseteq log /\ \A t \in NewEvents(m) : t > m
      BY PageOfLog DEF NewEvents
    <3>3. \A t \in NewEvents(m), s \in log : m < s /\ s <= t => s \in NewEvents(m)
      BY <1>0, <3>1, PageIsPrefix DEF NewEvents
    <3>4. page \in PassType /\ page.mark = m /\ page.todo = NewEvents(m) /\ page.at = "enqueue"
      BY <1>0, <3>1, <3>2 DEF PassType
    <3> HIDE DEF page
    <3>5. QED
      BY <1>0, <2>1, <2>3, <3>2, <3>3, <3>4, PassKeeps
  <2>4. QED
    BY <1>2, <2>2, <2>3 DEF ReadEvents
<1>3. ASSUME NEW r \in Relays, AdvanceCursor(r) PROVE RelayInv'
  BY <1>0, <1>3, PassKeeps DEF AdvanceCursor, Idle
<1>4. ASSUME NEW r \in Relays, Die(r) PROVE RelayInv'
  <2>1. deaths' \in 0..MaxDeaths
    BY <1>0, <1>4 DEF Die
  <2>2. QED
    BY <1>0, <1>4, <2>1, PassKeeps DEF Die, Idle
<1>5. QED
  BY <1>1, <1>2, <1>3, <1>4, LogKeeps, EnqueueKeeps, ReplayKeeps DEF Next, Relay

\* Types, marks within the log, and what cursor and passes promise hold in every
\* reachable state.
THEOREM RelayInvariant == Spec => []RelayInv
BY RelayInit, RelayStep, PTL DEF Spec

\* Whatever relays race on the cursor, set it back, die half-way or are replayed, the
\* cursor stands above an event that was not enqueued only if that event was committed
\* after a higher one (relay_once).
THEOREM CursorSkipsNothing == Spec => []NothingSkipped
<1>1. RelayInv => NothingSkipped
  BY DEF RelayInv
<1>2. QED
  BY <1>1, RelayInvariant, PTL
=============================================================================

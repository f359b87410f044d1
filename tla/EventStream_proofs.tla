-------------------------- MODULE EventStream_proofs --------------------------
(***************************************************************************)
(* Proofs about EventStream, for every number of clients, events and       *)
(* writers and every capacity: a client receives events in order and none  *)
(* twice, and misses none but those that a failed or short replay left     *)
(* unread, while the listener stays connected.                             *)
(***************************************************************************)
EXTENDS EventStream, EventLog_proofs

(* The inductive invariant.  What has been received, what is in the queue and what is   *)
(* on its way into it are one increasing sequence, which ends at the task's cursor, and *)
(* complete up to there.                                                                *)

Below(p, q) == \A i \in DOMAIN p, j \in DOMAIN q : p[i] < q[j]
Upto(q, n)  == \A i \in DOMAIN q : q[i] <= n

\* k is a client's connection, r what the client has received.
FlowOK(k, r) ==
    /\ Increasing(r) /\ Increasing(k.queue) /\ Increasing(k.todo)
    /\ Below(r, k.queue) /\ Below(r, k.todo) /\ Below(k.queue, k.todo)
    /\ k.at # "live" => k.queue = <<>> /\ k.todo = <<>>
    /\ k.at # "off" => Upto(r, k.last) /\ Upto(k.queue, k.last) /\ Upto(k.todo, k.last)

OrderInv == TypeOK /\ \A c \in Clients : FlowOK(conn[c], recv[c])

-----------------------------------------------------------------------------
(* Sorting *)

\* Every set of events can be put in order.
LEMMA CanSort ==
    ASSUME NEW S \in SUBSET Seqs
    PROVE  IsFiniteSet(S) /\ \E q \in [1..Cardinality(S) -> S] : Increasing(q)
<1> DEFINE Sorts(q, X) == q \in [1..Cardinality(X) -> X] /\ Increasing(q)
           Bad == {n \in Nat : \E X \in SUBSET Seqs : Cardinality(X) = n /\ ~\E q : Sorts(q, X)}
<1>1. \A X \in SUBSET Seqs : IsFiniteSet(X) /\ Cardinality(X) \in Nat
  <2>1. IsFiniteSet(Seqs)
    BY LogAssumption, FS_Interval DEF Seqs
  <2>2. QED
    BY <2>1, FS_Subset, FS_CardinalityType
<1>2. ASSUME Bad # {} PROVE FALSE
  <2>1. PICK n \in Bad : \A x \in Bad : n <= x
    BY <1>2, LeastExists
  <2>2. PICK X \in SUBSET Seqs : Cardinality(X) = n /\ ~\E q : Sorts(q, X)
    BY <2>1
  <2>3. CASE X = {}
    <3>1. Cardinality(X) = 0
      BY <2>3, FS_EmptySet
    <3>2. Sorts(<<>>, X)
      BY <2>3, <3>1 DEF Increasing
    <3>3. QED
      BY <2>2, <3>2
  <2>4. CASE X # {}
    <3> DEFINE m == Highest(X, 0)
               Y == X \ {m}
    <3>1. m \in X /\ \A y \in X : y <= m
      BY <2>4, HighestChosen
    <3> HIDE DEF m
    <3>2. Y \in SUBSET Seqs /\ \A y \in Y : y < m
      <4>1. \A y \in Y : y <= m /\ y # m /\ y \in Nat /\ m \in Nat
        BY <3>1, SeqsPositive
      <4>2. QED
        BY <4>1
    <3>3. n \in Nat /\ Cardinality(Y) = n - 1 /\ Cardinality(Y) \in Nat
      BY <1>1, <2>2, <3>1, <3>2, FS_RemoveElement
    <3>4. PICK q : Sorts(q, Y)
      <4>1. Cardinality(Y) \notin Bad
        BY <2>1, <3>3
      <4>2. QED
        BY <3>2, <3>3, <4>1
    <3> DEFINE p == [i \in 1..n |-> IF i = n THEN m ELSE q[i]]
    <3>5. q \in [1..(n - 1) -> Y] /\ \A i, j \in 1..(n - 1) : i < j => q[i] < q[j]
      BY <3>3, <3>4 DEF Increasing
    <3>6. p \in [1..n -> X]
      BY <3>1, <3>3, <3>5
    <3>7. ASSUME NEW i \in 1..n, NEW j \in 1..n, i < j PROVE p[i] < p[j]
      <4>1. i \in 1..(n - 1) /\ p[i] = q[i]
        BY <3>3, <3>7
      <4>2. CASE j = n
        BY <3>2, <3>3, <3>5, <4>1, <4>2
      <4>3. CASE j # n
        BY <3>3, <3>5, <3>7, <4>1, <4>3
      <4>4. QED
        BY <4>2, <4>3
    <3>8. Sorts(p, X)
      BY <2>2, <3>6, <3>7 DEF Increasing
    <3>9. QED
      BY <2>2, <3>8
  <2>5. QED
    BY <2>3, <2>4
<1>3. Cardinality(S) \notin Bad /\ Cardinality(S) \in Nat
  BY <1>1, <1>2
<1>4. \E q : Sorts(q, S)
  BY <1>3
<1>5. QED
  BY <1>1, <1>4

\* What a query returns, in order: each row once.
LEMMA Ordered ==
    ASSUME NEW S \in SUBSET Seqs
    PROVE  /\ InOrder(S) \in Seq(S) /\ InOrder(S) \in Seq(Seqs)
           /\ Increasing(InOrder(S)) /\ ToSet(InOrder(S)) = S
           /\ \A i \in DOMAIN InOrder(S) : InOrder(S)[i] \in S
<1> DEFINE n == Cardinality(S)
           q == InOrder(S)
<1>1. q \in [1..n -> S] /\ Increasing(q)
  BY CanSort DEF InOrder
<1>2. IsFiniteSet(S) /\ n \in Nat
  BY CanSort, FS_CardinalityType
<1> HIDE DEF q, n
<1>3. q \in Seq(S) /\ q \in Seq(Seqs)
  BY <1>1, <1>2
<1>4. \A i, j \in 1..n : q[i] = q[j] => i = j
  <2>1. ASSUME NEW i \in 1..n, NEW j \in 1..n, i # j PROVE q[i] # q[j]
    <3>1. i < j \/ j < i
      BY <1>2, <2>1
    <3>2. q[i] < q[j] \/ q[j] < q[i]
      BY <1>1, <3>1 DEF Increasing
    <3>3. q[i] \in Nat /\ q[j] \in Nat
      BY <1>1, SeqsPositive
    <3>4. QED
      BY <3>2, <3>3
  <2>2. QED
    BY <2>1
<1>5. q \in Injection(1..n, S)
  BY <1>1, <1>4 DEF Injection, IsInjective
<1>6. Cardinality(1..n) = n
  BY <1>2, FS_Interval
<1>7. q \in Surjection(1..n, S)
  BY <1>2, <1>5, <1>6, FS_Injection DEF n
<1>8. ToSet(q) = S
  BY <1>1, <1>7 DEF Surjection, ToSet
<1>9. QED
  BY <1>1, <1>3, <1>8 DEF q

-----------------------------------------------------------------------------
(* Increasing sequences *)

\* The elements of a sequence of sequence numbers are natural numbers.
LEMMA SeqNumbers ==
    ASSUME NEW q \in Seq(Seqs) PROVE \A i \in DOMAIN q : q[i] \in Seqs /\ q[i] \in Nat
<1>1. \A i \in DOMAIN q : q[i] \in Seqs
  OBVIOUS
<1>2. QED
  BY <1>1, SeqsPositive

\* Appending a larger number keeps a sequence increasing.
LEMMA IncreasingAppend ==
    ASSUME NEW q \in Seq(Seqs), NEW s \in Seqs, Increasing(q), \A i \in DOMAIN q : q[i] < s
    PROVE  /\ Append(q, s) \in Seq(Seqs) /\ Increasing(Append(q, s))
           /\ \A i \in DOMAIN Append(q, s) : Append(q, s)[i] = s \/ \E j \in DOMAIN q : Append(q, s)[i] = q[j]
<1>1. /\ Len(q) \in Nat /\ DOMAIN q = 1..Len(q) /\ DOMAIN Append(q, s) = 1..(Len(q) + 1)
      /\ Append(q, s) \in Seq(Seqs)
      /\ \A i \in 1..Len(q) : Append(q, s)[i] = q[i]
      /\ Append(q, s)[Len(q) + 1] = s
  OBVIOUS
<1>2. \A i \in 1..(Len(q) + 1) : i \in 1..Len(q) \/ i = Len(q) + 1
  BY <1>1
<1>3. ASSUME NEW i \in 1..(Len(q) + 1), NEW j \in 1..(Len(q) + 1), i < j
      PROVE  Append(q, s)[i] < Append(q, s)[j]
  <2>1. i \in 1..Len(q)
    BY <1>1, <1>3
  <2>2. QED
    BY <1>1, <1>2, <1>3, <2>1 DEF Increasing
<1>4. QED
  BY <1>1, <1>2, <1>3 DEF Increasing

\* Taking the head off an increasing sequence leaves one above the head.
LEMMA IncreasingTail ==
    ASSUME NEW q \in Seq(Seqs), q # <<>>, Increasing(q)
    PROVE  /\ Head(q) \in Seqs /\ Tail(q) \in Seq(Seqs) /\ Increasing(Tail(q))
           /\ Head(q) = q[1] /\ 1 \in DOMAIN q
           /\ \A i \in DOMAIN Tail(q) : /\ Head(q) < Tail(q)[i]
                                        /\ i + 1 \in DOMAIN q /\ Tail(q)[i] = q[i + 1]
<1>1. /\ Len(q) \in Nat /\ Len(q) > 0 /\ DOMAIN q = 1..Len(q)
      /\ Tail(q) \in Seq(Seqs) /\ DOMAIN Tail(q) = 1..(Len(q) - 1)
      /\ Head(q) = q[1] /\ 1 \in DOMAIN q /\ q[1] \in Seqs
      /\ \A i \in 1..(Len(q) - 1) : Tail(q)[i] = q[i + 1]
  OBVIOUS
<1>2. \A i \in 1..(Len(q) - 1) : i + 1 \in 1..Len(q) /\ 1 < i + 1
  BY <1>1
<1>3. \A i, j \in 1..(Len(q) - 1) : i < j => i + 1 < j + 1
  BY <1>1
<1>4. QED
  BY <1>1, <1>2, <1>3 DEF Increasing

\* The rows above a cursor, in order, are new to a sequence that ends at the cursor.
LEMMA PageAbove ==
    ASSUME LogTypeOK, NEW n \in Seqs \cup {0}, NEW limit
    PROVE  LET rows == After(n, limit)
               q == InOrder(rows)
           IN /\ rows \in SUBSET Seqs /\ rows \subseteq log
              /\ q \in Seq(Seqs) /\ Increasing(q) /\ ToSet(q) = rows
              /\ \A i \in DOMAIN q : n < q[i] /\ q[i] <= Highest(rows, n)
              /\ Highest(rows, n) \in Seqs \cup {0} /\ n <= Highest(rows, n)
              /\ Highest(rows, n) \in rows \cup {n}
<1> DEFINE rows == After(n, limit)
           q == InOrder(rows)
           m == Highest(rows, n)
<1>1. rows \subseteq log /\ rows \in SUBSET Seqs /\ \A s \in rows : s > n
  BY PageOfLog, LogNumbers
<1>2. /\ q \in Seq(Seqs) /\ Increasing(q) /\ ToSet(q) = rows
      /\ \A i \in DOMAIN q : q[i] \in rows
  BY <1>1, Ordered
<1>3. CASE rows = {}
  BY <1>1, <1>2, <1>3, SeqsPositive DEF Highest
<1>4. CASE rows # {}
  <2>1. m \in rows /\ \A s \in rows : s <= m
    BY <1>1, <1>4, HighestChosen
  <2> HIDE DEF m, q, rows
  <2>2. m \in Nat /\ n \in Nat /\ m > n
    BY <1>1, <2>1, SeqsPositive
  <2>3. \A i \in DOMAIN q : n < q[i] /\ q[i] <= m
    <3>1. ASSUME NEW i \in DOMAIN q PROVE n < q[i] /\ q[i] <= m
      <4>1. q[i] \in rows /\ q[i] \in Nat
        BY <1>1, <1>2, SeqsPositive
      <4>2. QED
        BY <1>1, <2>1, <2>2, <4>1
    <3>2. QED
      BY <3>1
  <2>4. n <= m /\ m \in Seqs \cup {0}
    BY <1>1, <2>1, <2>2
  <2>5. QED
    BY <1>1, <1>2, <2>1, <2>3, <2>4 DEF m, q, rows
<1>5. QED
  BY <1>3, <1>4

-----------------------------------------------------------------------------
(* Order *)

\* What the type invariant says of each part, in the form the steps use it.
LEMMA StreamTypes ==
    ASSUME TypeOK
    PROVE  /\ LogTypeOK /\ log \subseteq Seqs /\ lastSeen \in Seqs \cup {0} /\ sent \in Seq(Seqs)
           /\ Len(sent) \in Nat /\ DOMAIN sent = 1..Len(sent)
           /\ \A c \in Clients : /\ conn[c] \in Connection /\ recv[c] \in Seq(Seqs)
                                 /\ conn[c].pos <= Len(sent) /\ Len(conn[c].queue) <= Wire
           /\ {PumpLimit, ReplayBatch, Capacity, Wire} \subseteq Nat \ {0}
           /\ {MaxDrops, MaxFails, MaxReseeds} \subseteq Nat
BY LogNumbers, StreamAssumption DEF TypeOK

\* No client is connected at first.
LEMMA OrderInit == Init => OrderInv
<1> SUFFICES ASSUME Init PROVE OrderInv
  OBVIOUS
<1>1. LogTypeOK
  BY LogInitially DEF Init
<1>2. Off \in Connection /\ Off.queue = <<>> /\ Off.todo = <<>> /\ Off.at = "off" /\ Off.pos = 0
  BY DEF Off, Connection
<1>3. TypeOK
  BY <1>1, <1>2, StreamAssumption DEF Init, TypeOK
<1>4. FlowOK(Off, <<>>)
  BY <1>2 DEF FlowOK, Increasing, Below
<1>5. QED
  BY <1>3, <1>4 DEF OrderInv, Init

\* One connection, and what its client has received, go on.
LEMMA ConnStep ==
    ASSUME OrderInv, NEW c \in Clients, NEW k \in Connection, NEW r \in Seq(Seqs),
           FlowOK(k, r), k.pos <= Len(sent), Len(k.queue) <= Wire,
           conn' = [conn EXCEPT ![c] = k], recv' = [recv EXCEPT ![c] = r],
           UNCHANGED <<logVars, lastSeen, sent, reseeds>>, drops' \in 0..MaxDrops,
           unread' \in [Clients -> SUBSET Seqs], fails' \in 0..MaxFails
    PROVE  OrderInv'
<1>1. TypeOK'
  BY DEF OrderInv, TypeOK, LogTypeOK, logVars
<1>2. \A d \in Clients : FlowOK(conn'[d], recv'[d])
  BY DEF OrderInv, TypeOK
<1>3. QED
  BY <1>1, <1>2 DEF OrderInv

\* Reading a batch of the backlog keeps the flow of a connection in order.
LEMMA ReplayedFlow ==
    ASSUME TypeOK, NEW k \in Connection, NEW r \in Seq(Seqs), FlowOK(k, r),
           k.at \in {"replay", "live"}, k.todo = <<>>
    PROVE  /\ Replayed(k) \in Connection /\ FlowOK(Replayed(k), r)
           /\ Replayed(k).pos = k.pos /\ Replayed(k).queue = k.queue
           /\ Replayed(k).at = "live" /\ Replayed(k).todo = InOrder(After(k.last, ReplayBatch))
           /\ Replayed(k).last = Highest(After(k.last, ReplayBatch), k.last)
<1> DEFINE rows == After(k.last, ReplayBatch)
           q == InOrder(rows)
           m == Highest(rows, k.last)
           new == [k EXCEPT !.at = "live", !.todo = q, !.last = m]
<1>1. k.last \in Seqs \cup {0} /\ k.queue \in Seq(Seqs)
  BY DEF Connection
<1>2. /\ rows \in SUBSET Seqs /\ q \in Seq(Seqs) /\ Increasing(q)
      /\ \A i \in DOMAIN q : k.last < q[i] /\ q[i] <= m
      /\ m \in Seqs \cup {0} /\ k.last <= m
  BY <1>1, StreamTypes, PageAbove
<1> HIDE DEF q, m, rows
<1>3. /\ new \in Connection /\ new.pos = k.pos /\ new.queue = k.queue /\ new.at = "live"
      /\ new.todo = q /\ new.last = m
  BY <1>2 DEF Connection
<1>4. /\ \A i \in DOMAIN r : r[i] \in Nat
      /\ \A i \in DOMAIN k.queue : k.queue[i] \in Nat
      /\ \A i \in DOMAIN q : q[i] \in Nat
      /\ k.last \in Nat /\ m \in Nat
  BY <1>1, <1>2, SeqNumbers, SeqsPositive
<1>5. Upto(r, m) /\ Upto(k.queue, m) /\ Upto(q, m)
  BY <1>2, <1>4 DEF FlowOK, Upto
<1>6. Below(r, q) /\ Below(k.queue, q)
  BY <1>2, <1>4 DEF FlowOK, Upto, Below
<1>7. FlowOK(new, r)
  BY <1>2, <1>3, <1>5, <1>6 DEF FlowOK
<1>8. QED
  BY <1>3, <1>7 DEF Replayed, q, m, rows

\* Taking an event off the broadcast keeps the flow of a connection in order.
LEMMA TakenFlow ==
    ASSUME NEW k \in Connection, NEW r \in Seq(Seqs), FlowOK(k, r),
           k.at = "live", k.todo = <<>>, NEW s \in Seqs
    PROVE  /\ Taken(k, s) \in Connection /\ FlowOK(Taken(k, s), r)
           /\ Taken(k, s).pos = k.pos + 1 /\ Taken(k, s).queue = k.queue
<1>1. k.last \in Nat /\ s \in Nat /\ k.pos \in Nat /\ k.queue \in Seq(Seqs)
  BY SeqsPositive DEF Connection
<1>2. CASE s <= k.last
  <2> DEFINE new == [k EXCEPT !.pos = @ + 1]
  <2>1. /\ new \in Connection /\ new.pos = k.pos + 1 /\ new.queue = k.queue /\ new.at = k.at
        /\ new.todo = k.todo /\ new.last = k.last
    BY <1>1 DEF Connection
  <2>2. FlowOK(new, r)
    BY <2>1 DEF FlowOK
  <2>3. QED
    BY <1>2, <2>1, <2>2 DEF Taken
<1>3. CASE ~(s <= k.last)
  <2> DEFINE one == <<s>>
             new == [k EXCEPT !.pos = @ + 1, !.last = s, !.todo = one]
  <2>1. one \in Seq(Seqs)
    OBVIOUS
  <2> HIDE DEF one
  <2>2. /\ new \in Connection /\ new.pos = k.pos + 1 /\ new.queue = k.queue /\ new.at = k.at
        /\ new.todo = one /\ new.last = s
    <3> DEFINE n == k.pos + 1
               k1 == [k EXCEPT !.pos = n]
               k2 == [k1 EXCEPT !.last = s]
    <3>1. n \in Nat
      BY <1>1
    <3>2. new = [k2 EXCEPT !.todo = one]
      BY DEF Connection
    <3> HIDE DEF n, new
    <3>3. /\ k1 \in Connection /\ k1.pos = n /\ k1.queue = k.queue /\ k1.at = k.at
      BY <3>1 DEF Connection
    <3> HIDE DEF k1
    <3>4. /\ k2 \in Connection /\ k2.pos = n /\ k2.queue = k.queue /\ k2.at = k.at /\ k2.last = s
      BY <3>3 DEF Connection
    <3> HIDE DEF k2
    <3>5. QED
      BY <2>1, <3>2, <3>4 DEF Connection, n
  <2>3. /\ \A i \in DOMAIN r : r[i] \in Nat
        /\ \A i \in DOMAIN k.queue : k.queue[i] \in Nat
    BY <1>1, SeqNumbers
  <2>4. /\ \A i \in DOMAIN r : r[i] < s /\ r[i] <= s
        /\ \A i \in DOMAIN k.queue : k.queue[i] < s /\ k.queue[i] <= s
    BY <1>1, <1>3, <2>3 DEF FlowOK, Upto
  <2>5. Increasing(one) /\ Below(r, one) /\ Below(k.queue, one) /\ Upto(one, s)
        /\ Upto(r, s) /\ Upto(k.queue, s)
    BY <1>1, <2>4 DEF Increasing, Below, Upto, one
  <2>6. FlowOK(new, r)
    BY <2>2, <2>5 DEF FlowOK
  <2>7. QED
    BY <1>3, <2>2, <2>6 DEF Taken, one
<1>4. QED
  BY <1>2, <1>3

\* Putting the next event on the wire keeps the flow in order.
LEMMA SentFlow ==
    ASSUME NEW k \in Connection, NEW r \in Seq(Seqs), FlowOK(k, r), k.todo # <<>>,
           NEW new, new = [k EXCEPT !.queue = Append(@, Head(k.todo)), !.todo = Tail(@)]
    PROVE  /\ new \in Connection /\ FlowOK(new, r) /\ new.pos = k.pos /\ new.last = k.last
           /\ new.at = k.at /\ new.todo = Tail(k.todo)
           /\ new.queue = Append(k.queue, Head(k.todo)) /\ Len(new.queue) = Len(k.queue) + 1
<1> DEFINE s == Head(k.todo)
           q == Append(k.queue, s)
           t == Tail(k.todo)
<1>0. k.todo \in Seq(Seqs) /\ k.queue \in Seq(Seqs) /\ k.at = "live" /\ k.at \in {"off", "replay", "live"}
  BY DEF Connection, FlowOK
<1>1. /\ s \in Seqs /\ t \in Seq(Seqs) /\ Increasing(t) /\ s = k.todo[1] /\ 1 \in DOMAIN k.todo
      /\ \A i \in DOMAIN t : s < t[i] /\ i + 1 \in DOMAIN k.todo /\ t[i] = k.todo[i + 1]
  BY <1>0, IncreasingTail DEF FlowOK
<1>2. \A i \in DOMAIN k.queue : k.queue[i] < s
  BY <1>1 DEF FlowOK, Below
<1>3. /\ q \in Seq(Seqs) /\ Increasing(q) /\ Len(q) = Len(k.queue) + 1
      /\ \A i \in DOMAIN q : q[i] = s \/ \E j \in DOMAIN k.queue : q[i] = k.queue[j]
  BY <1>0, <1>1, <1>2, IncreasingAppend DEF FlowOK
<1> HIDE DEF s, q, t
<1>4. /\ new \in Connection /\ new.pos = k.pos /\ new.last = k.last /\ new.at = k.at
      /\ new.todo = t /\ new.queue = q
  BY <1>1, <1>3 DEF Connection, s, q, t
<1>5. Below(r, q) /\ Below(r, t) /\ Below(q, t)
  BY <1>1, <1>3 DEF FlowOK, Below
<1>6. Upto(q, k.last) /\ Upto(t, k.last)
  BY <1>0, <1>1, <1>3 DEF FlowOK, Upto
<1>7. FlowOK(new, r)
  BY <1>0, <1>1, <1>3, <1>4, <1>5, <1>6 DEF FlowOK
<1>8. QED
  BY <1>3, <1>4, <1>7 DEF s, q, t

\* Receiving an event off the wire keeps the flow in order.
LEMMA ReceivedFlow ==
    ASSUME NEW k \in Connection, NEW r \in Seq(Seqs), FlowOK(k, r), k.queue # <<>>,
           NEW r2 \in Seq(Seqs), r2 = Append(r, Head(k.queue)),
           NEW new, new = [k EXCEPT !.queue = Tail(@)]
    PROVE  /\ new \in Connection /\ FlowOK(new, r2) /\ new.pos = k.pos
           /\ new.last = k.last /\ new.at = k.at /\ new.todo = k.todo
           /\ new.queue = Tail(k.queue) /\ Len(new.queue) = Len(k.queue) - 1
           /\ \A i \in DOMAIN r2 : r2[i] <= Head(k.queue)
<1> DEFINE s == Head(k.queue)
           t == Tail(k.queue)
<1>0. k.todo \in Seq(Seqs) /\ k.queue \in Seq(Seqs) /\ k.at = "live"
  BY DEF Connection, FlowOK
<1>1. /\ s \in Seqs /\ t \in Seq(Seqs) /\ Increasing(t) /\ s = k.queue[1] /\ 1 \in DOMAIN k.queue
      /\ \A i \in DOMAIN t : s < t[i] /\ i + 1 \in DOMAIN k.queue /\ t[i] = k.queue[i + 1]
      /\ Len(t) = Len(k.queue) - 1
  BY <1>0, IncreasingTail DEF FlowOK
<1>2. \A i \in DOMAIN r : r[i] < s
  BY <1>1 DEF FlowOK, Below
<1>3. /\ r2 \in Seq(Seqs) /\ Increasing(r2)
      /\ \A i \in DOMAIN r2 : r2[i] = s \/ \E j \in DOMAIN r : r2[i] = r[j]
  BY <1>0, <1>1, <1>2, IncreasingAppend DEF FlowOK
<1> HIDE DEF s, t
<1>4. /\ new \in Connection /\ new.pos = k.pos /\ new.last = k.last /\ new.at = k.at
      /\ new.todo = k.todo /\ new.queue = t
  BY <1>1 DEF Connection, t
<1>5. Below(r2, t) /\ Below(r2, k.todo) /\ Below(t, k.todo)
  BY <1>1, <1>2, <1>3, <1>0 DEF FlowOK, Below
<1>6. Upto(r2, k.last) /\ Upto(t, k.last)
  BY <1>0, <1>1, <1>3 DEF FlowOK, Upto
<1>7. FlowOK(new, r2)
  BY <1>0, <1>1, <1>3, <1>4, <1>5, <1>6 DEF FlowOK
<1>8. \A i \in DOMAIN r2 : r2[i] <= s
  <2>1. \A i \in DOMAIN r : r[i] \in Nat
    BY SeqsPositive
  <2>2. s \in Nat
    BY <1>1, SeqsPositive
  <2>3. QED
    BY <1>2, <1>3, <2>1, <2>2
<1>9. QED
  BY <1>1, <1>3, <1>4, <1>7, <1>8 DEF s, t

\* Each step of the stream keeps the order invariant.
LEMMA OrderStep == OrderInv /\ [Next]_vars => OrderInv'
<1> SUFFICES ASSUME OrderInv, [Next]_vars PROVE OrderInv'
  OBVIOUS
<1>0. /\ TypeOK /\ drops \in 0..MaxDrops /\ fails \in 0..MaxFails
      /\ unread \in [Clients -> SUBSET Seqs]
      /\ \A c \in Clients : FlowOK(conn[c], recv[c]) /\ recv[c] = recv[c]
      /\ \A c \in Clients : recv = [recv EXCEPT ![c] = recv[c]]
  BY DEF OrderInv, TypeOK
<1>1. CASE UNCHANGED <<conn, recv>> /\ TypeOK'
  BY <1>0, <1>1 DEF OrderInv
<1>2. CASE Log
  <2>1. LogTypeOK'
    BY <1>0, <1>2, LogStep DEF Log, TypeOK
  <2>2. QED
    BY <1>0, <1>1, <1>2, <2>1 DEF Log, TypeOK
<1>3. CASE Pump
  <2> DEFINE rows == After(lastSeen, PumpLimit)
             q == InOrder(rows)
  <2>1. q \in Seq(Seqs) /\ Highest(rows, lastSeen) \in Seqs \cup {0}
    BY <1>0, StreamTypes, PageAbove
  <2>2. sent' = sent \o q /\ lastSeen' = Highest(rows, lastSeen)
        /\ UNCHANGED <<logVars, conn, recv, unread, drops, fails, reseeds>>
    BY <1>3 DEF Pump
  <2> HIDE DEF q, rows
  <2>3. sent' \in Seq(Seqs) /\ Len(sent') = Len(sent) + Len(q) /\ Len(q) \in Nat
    BY <1>0, <2>1, <2>2, StreamTypes
  <2>4. \A c \in Clients : conn[c].pos <= Len(sent')
    <3>1. ASSUME NEW c \in Clients PROVE conn[c].pos <= Len(sent')
      <4>1. conn[c].pos \in Nat /\ conn[c].pos <= Len(sent) /\ Len(sent) \in Nat
        BY <1>0, StreamTypes DEF Connection
      <4>2. QED
        BY <2>3, <4>1
    <3>2. QED
      BY <3>1
  <2>5. TypeOK'
    BY <1>0, <2>1, <2>2, <2>3, <2>4 DEF TypeOK, LogTypeOK, logVars
  <2>6. QED
    BY <1>1, <2>2, <2>5
<1>4. CASE Reseed
  <2>1. Highest(log, 0) \in Seqs \cup {0}
    <3>1. log \subseteq Seqs
      BY <1>0, StreamTypes
    <3>2. CASE log = {}
      BY <3>2 DEF Highest
    <3>3. CASE log # {}
      BY <3>1, <3>3, HighestChosen
    <3>4. QED
      BY <3>2, <3>3
  <2>2. reseeds' \in 0..MaxReseeds
    BY <1>0, <1>4, StreamTypes DEF Reseed, TypeOK
  <2>3. TypeOK'
    BY <1>0, <1>4, <2>1, <2>2 DEF Reseed, TypeOK, LogTypeOK, logVars
  <2>4. QED
    BY <1>1, <1>4, <2>3 DEF Reseed
<1>5. ASSUME NEW c \in Clients, Connect(c) PROVE OrderInv'
  <2> DEFINE k == [Off EXCEPT !.at = "replay", !.last = LastEventId(c), !.pos = Len(sent)]
             n == LastEventId(c)
  <2>1. recv[c] \in Seq(Seqs) /\ Increasing(recv[c]) /\ Len(sent) \in Nat /\ 0 <= Wire
    BY <1>0, StreamTypes DEF FlowOK
  <2>2. n \in Seqs \cup {0} /\ Upto(recv[c], n)
    <3>1. CASE recv[c] = <<>>
      BY <3>1 DEF LastEventId, Upto
    <3>2. CASE recv[c] # <<>>
      <4>1. /\ Len(recv[c]) \in Nat /\ Len(recv[c]) > 0 /\ DOMAIN recv[c] = 1..Len(recv[c])
            /\ n = recv[c][Len(recv[c])] /\ n \in Seqs
        BY <2>1, <3>2 DEF LastEventId, Last
      <4>2. ASSUME NEW i \in DOMAIN recv[c] PROVE recv[c][i] <= n
        <5>1. i < Len(recv[c]) \/ i = Len(recv[c])
          BY <4>1
        <5>2. recv[c][i] \in Nat /\ n \in Nat
          BY <2>1, <4>1, SeqNumbers
        <5>3. QED
          BY <2>1, <4>1, <5>1, <5>2 DEF Increasing
      <4>3. QED
        BY <4>1, <4>2 DEF Upto
    <3>3. QED
      BY <3>1, <3>2
  <2> HIDE DEF n
  <2>3. /\ k \in Connection /\ k.at = "replay" /\ k.last = n /\ k.pos = Len(sent)
        /\ k.queue = <<>> /\ k.todo = <<>>
    <3> DEFINE m == Len(sent)
               k1 == [Off EXCEPT !.at = "replay"]
               k2 == [k1 EXCEPT !.last = n]
    <3>1. k1 = [at |-> "replay", last |-> 0, pos |-> 0, todo |-> <<>>, queue |-> <<>>]
      BY DEF Off
    <3>2. k = [k2 EXCEPT !.pos = m] /\ m \in Nat /\ <<>> \in Seq(Seqs)
      BY <2>1 DEF n
    <3> HIDE DEF k, m, k1
    <3>3. k2 = [at |-> "replay", last |-> n, pos |-> 0, todo |-> <<>>, queue |-> <<>>]
      BY <3>1
    <3> HIDE DEF k2
    <3>4. k = [at |-> "replay", last |-> n, pos |-> m, todo |-> <<>>, queue |-> <<>>]
      BY <3>2, <3>3
    <3>5. /\ k \in Connection /\ k.at = "replay" /\ k.last = n /\ k.pos = m
          /\ k.queue = <<>> /\ k.todo = <<>>
      <4>1. PICK e \in Seq(Seqs) : e = <<>>
        BY <3>2
      <4>2. k = [at |-> "replay", last |-> n, pos |-> m, todo |-> e, queue |-> e]
        BY <3>4, <4>1
      <4>3. m \in Nat /\ n \in Seqs \cup {0} /\ e \in Seq(Seqs)
        BY <2>2, <3>2
      <4>4. k \in Connection
        BY <4>2, <4>3 DEF Connection
      <4>5. QED
        BY <4>1, <4>2, <4>4
    <3>6. QED
      BY <3>5 DEF m
  <2>4. FlowOK(k, recv[c])
    BY <2>1, <2>2, <2>3 DEF FlowOK, Increasing, Below, Upto
  <2>5. /\ conn' = [conn EXCEPT ![c] = k]
        /\ UNCHANGED <<logVars, lastSeen, sent, recv, unread, drops, fails, reseeds>>
    BY <1>5 DEF Connect
  <2> HIDE DEF k
  <2>6. k.pos <= Len(sent) /\ Len(k.queue) <= Wire
    BY <2>1, <2>3
  <2>7. QED
    BY <1>0, <2>1, <2>3, <2>4, <2>5, <2>6, ConnStep
<1>6. ASSUME NEW c \in Clients, NEW j \in Connection, FlowOK(j, recv[c]), j.todo = <<>>,
             j.at \in {"replay", "live"}, j.pos <= Len(sent), j.queue = conn[c].queue,
             Replay(c, j), UNCHANGED <<logVars, lastSeen, sent, recv, drops, reseeds>>
      PROVE  OrderInv'
  <2>0. \A k \in Connection : k.pos = j.pos => Beyond(k) \in SUBSET Seqs
    <3>1. sent \in Seq(Seqs) /\ DOMAIN sent = 1..Len(sent) /\ Len(sent) \in Nat /\ j.pos \in Nat
      BY <1>0, StreamTypes DEF Connection
    <3>2. \A i \in 1..j.pos : i \in DOMAIN sent
      BY <1>6, <3>1
    <3>3. QED
      BY <3>1, <3>2, SeqNumbers DEF Beyond
  <2>1. recv[c] \in Seq(Seqs) /\ Len(conn[c].queue) <= Wire /\ MaxFails \in Nat
    BY <1>0, StreamTypes
  <2>2. CASE /\ conn' = [conn EXCEPT ![c] = Replayed(j)]
             /\ unread' = [unread EXCEPT ![c] = (@ \ After(j.last, ReplayBatch))
                                                \cup Beyond(Replayed(j))]
             /\ UNCHANGED fails
    <3> DEFINE k == Replayed(j)
    <3>1. k \in Connection /\ FlowOK(k, recv[c]) /\ k.pos = j.pos /\ k.queue = j.queue
      BY <1>0, <1>6, <2>1, ReplayedFlow
    <3>2. conn' = [conn EXCEPT ![c] = k] /\ drops' \in 0..MaxDrops /\ fails' \in 0..MaxFails
          /\ UNCHANGED <<logVars, lastSeen, sent, recv, reseeds>>
      BY <1>0, <1>6, <2>2
    <3>3. unread' \in [Clients -> SUBSET Seqs]
      BY <1>0, <2>0, <2>2, <3>1
    <3> HIDE DEF k
    <3>4. QED
      BY <1>0, <1>6, <2>1, <3>1, <3>2, <3>3, ConnStep
  <2>3. CASE /\ fails < MaxFails
             /\ conn' = [conn EXCEPT ![c] = [j EXCEPT !.at = "live"]]
             /\ unread' = [unread EXCEPT ![c] = @ \cup Beyond(j)]
             /\ fails' = fails + 1
    <3> DEFINE k == [j EXCEPT !.at = "live"]
    <3>1. /\ k \in Connection /\ k.pos = j.pos /\ k.queue = j.queue /\ k.todo = j.todo
          /\ k.last = j.last /\ k.at = "live"
      BY DEF Connection
    <3>2. FlowOK(k, recv[c])
      BY <1>6, <3>1 DEF FlowOK
    <3>3. conn' = [conn EXCEPT ![c] = k] /\ drops' \in 0..MaxDrops /\ fails' \in 0..MaxFails
          /\ UNCHANGED <<logVars, lastSeen, sent, recv, reseeds>>
      BY <1>0, <1>6, <2>1, <2>3
    <3>4. unread' \in [Clients -> SUBSET Seqs]
      BY <1>0, <2>0, <2>3
    <3> HIDE DEF k
    <3>5. QED
      BY <1>0, <1>6, <2>1, <3>1, <3>2, <3>3, <3>4, ConnStep
  <2>4. QED
    BY <1>6, <2>2, <2>3 DEF Replay
<1>7. ASSUME NEW c \in Clients, FirstReplay(c) \/ Backfill(c) PROVE OrderInv'
  <2>1. /\ conn[c] \in Connection /\ FlowOK(conn[c], recv[c]) /\ conn[c].pos <= Len(sent)
        /\ conn[c].at \in {"replay", "live"} /\ conn[c].todo = <<>>
    BY <1>0, <1>7, StreamTypes DEF FirstReplay, Backfill, Ready, FlowOK
  <2>2. QED
    BY <1>6, <1>7, <2>1 DEF FirstReplay, Backfill
<1>8. ASSUME NEW c \in Clients, Lagged(c) PROVE OrderInv'
  <2> DEFINE n == Len(sent) - Capacity
             j == [conn[c] EXCEPT !.pos = n]
  <2>1. /\ conn[c] \in Connection /\ FlowOK(conn[c], recv[c]) /\ conn[c].pos \in Nat
        /\ conn[c].at = "live" /\ conn[c].todo = <<>> /\ Len(sent) \in Nat /\ Capacity \in Nat
    BY <1>0, <1>8, StreamTypes DEF Lagged, Ready, Connection
  <2>2. n \in Nat /\ n <= Len(sent)
    BY <1>8, <2>1 DEF Lagged, Lagging
  <2>3. j = Overtaken(c)
    BY DEF Overtaken
  <2> HIDE DEF n
  <2>4. /\ j \in Connection /\ j.pos = n /\ j.queue = conn[c].queue /\ j.todo = <<>>
        /\ j.at = "live" /\ j.last = conn[c].last
    BY <2>1, <2>2 DEF Connection
  <2>5. FlowOK(j, recv[c])
    BY <2>1, <2>4 DEF FlowOK
  <2> HIDE DEF j
  <2>6. Replay(c, j) /\ UNCHANGED <<logVars, lastSeen, sent, recv, drops, reseeds>>
    BY <1>8, <2>3 DEF Lagged
  <2>7. QED
    BY <1>6, <2>2, <2>4, <2>5, <2>6
<1>9. ASSUME NEW c \in Clients, TakeLive(c) PROVE OrderInv'
  <2> DEFINE s == sent[conn[c].pos + 1]
             k == Taken(conn[c], s)
  <2>1. /\ conn[c] \in Connection /\ FlowOK(conn[c], recv[c]) /\ conn[c].pos \in Nat
        /\ conn[c].at = "live" /\ conn[c].todo = <<>> /\ Len(sent) \in Nat
        /\ recv[c] \in Seq(Seqs) /\ Len(conn[c].queue) <= Wire /\ sent \in Seq(Seqs)
        /\ conn[c].pos < Len(sent)
    BY <1>0, <1>9, StreamTypes DEF TakeLive, Ready, Connection
  <2>2. s \in Seqs
    BY <2>1
  <2> HIDE DEF s
  <2>3. k \in Connection /\ FlowOK(k, recv[c]) /\ k.pos = conn[c].pos + 1 /\ k.queue = conn[c].queue
    BY <2>1, <2>2, TakenFlow
  <2>4. conn' = [conn EXCEPT ![c] = k] /\ drops' \in 0..MaxDrops
        /\ UNCHANGED <<logVars, lastSeen, sent, recv, unread, fails, reseeds>>
    BY <1>0, <1>9 DEF TakeLive, s
  <2> HIDE DEF k
  <2>5. k.pos <= Len(sent)
    BY <2>1, <2>3
  <2>6. QED
    BY <1>0, <2>1, <2>3, <2>4, <2>5, ConnStep
<1>10. ASSUME NEW c \in Clients, Send(c) PROVE OrderInv'
  <2> DEFINE k == [conn[c] EXCEPT !.queue = Append(@, Head(conn[c].todo)), !.todo = Tail(@)]
  <2>1. /\ conn[c] \in Connection /\ FlowOK(conn[c], recv[c]) /\ recv[c] \in Seq(Seqs)
        /\ conn[c].pos <= Len(sent) /\ conn[c].todo # <<>> /\ Len(conn[c].queue) < Wire
        /\ Len(conn[c].queue) \in Nat /\ Wire \in Nat
    BY <1>0, <1>10, StreamTypes DEF Send, Room, Connection
  <2>2. k \in Connection /\ FlowOK(k, recv[c]) /\ k.pos = conn[c].pos
        /\ Len(k.queue) = Len(conn[c].queue) + 1
    BY <2>1, SentFlow
  <2>3. conn' = [conn EXCEPT ![c] = k] /\ drops' \in 0..MaxDrops
        /\ UNCHANGED <<logVars, lastSeen, sent, recv, unread, fails, reseeds>>
    BY <1>0, <1>10 DEF Send, OrderInv, TypeOK
  <2> HIDE DEF k
  <2>4. Len(k.queue) <= Wire
    BY <2>1, <2>2
  <2>5. QED
    BY <1>0, <2>1, <2>2, <2>3, <2>4, ConnStep
<1>11. ASSUME NEW c \in Clients, Receive(c) PROVE OrderInv'
  <2> DEFINE k == [conn[c] EXCEPT !.queue = Tail(@)]
             r == Append(recv[c], Head(conn[c].queue))
  <2>1. /\ conn[c] \in Connection /\ FlowOK(conn[c], recv[c]) /\ recv[c] \in Seq(Seqs)
        /\ conn[c].pos <= Len(sent) /\ conn[c].queue # <<>> /\ Len(conn[c].queue) <= Wire
        /\ Len(conn[c].queue) \in Nat /\ Wire \in Nat
    BY <1>0, <1>11, StreamTypes DEF Receive, Connection
  <2>2. k \in Connection /\ r \in Seq(Seqs) /\ FlowOK(k, r) /\ k.pos = conn[c].pos
        /\ Len(k.queue) = Len(conn[c].queue) - 1
    <3>1. k = [conn[c] EXCEPT !.queue = Tail(@)] /\ r = Append(recv[c], Head(conn[c].queue))
      OBVIOUS
    <3>2. r \in Seq(Seqs)
      <4>1. conn[c].queue \in Seq(Seqs)
        BY <2>1 DEF Connection
      <4>2. QED
        BY <2>1, <4>1
    <3> HIDE DEF k, r
    <3>3. QED
      BY <2>1, <3>1, <3>2, ReceivedFlow
  <2>3. conn' = [conn EXCEPT ![c] = k] /\ recv' = [recv EXCEPT ![c] = r] /\ drops' \in 0..MaxDrops
        /\ UNCHANGED <<logVars, lastSeen, sent, unread, fails, reseeds>>
    BY <1>0, <1>11 DEF Receive, OrderInv, TypeOK
  <2> HIDE DEF k, r
  <2>4. Len(k.queue) <= Wire
    BY <2>1, <2>2
  <2>5. QED
    BY <1>0, <2>1, <2>2, <2>3, <2>4, ConnStep
<1>12. ASSUME NEW c \in Clients, Drop(c) PROVE OrderInv'
  <2>1. /\ Off \in Connection /\ Off.queue = <<>> /\ Off.todo = <<>> /\ Off.at = "off" /\ Off.pos = 0
    BY DEF Off, Connection
  <2>2. recv[c] \in Seq(Seqs) /\ Len(sent) \in Nat /\ Wire \in Nat /\ MaxDrops \in Nat
    BY <1>0, StreamTypes
  <2>3. FlowOK(Off, recv[c])
    BY <1>0, <2>1 DEF FlowOK, Increasing, Below
  <2>4. Off.pos <= Len(sent) /\ Len(Off.queue) <= Wire
    BY <2>1, <2>2
  <2>5. drops' \in 0..MaxDrops
    BY <1>0, <1>12, <2>2 DEF Drop
  <2>6. QED
    BY <1>0, <1>12, <2>1, <2>2, <2>3, <2>4, <2>5, ConnStep DEF Drop
<1>13. CASE UNCHANGED vars
  BY <1>0, <1>1, <1>13 DEF vars, TypeOK, LogTypeOK, logVars
<1>14. QED
  BY <1>2, <1>3, <1>4, <1>5, <1>7, <1>8, <1>9, <1>10, <1>11, <1>12, <1>13 DEF Next, Task

\* What is received, queued and on its way is one increasing sequence in every state.
THEOREM StreamOrder == Spec => []OrderInv
BY OrderInit, OrderStep, PTL DEF Spec

\* Across replays, live events, overflows and reconnects, and whenever the listener
\* starts over, a client receives every event at most once and in the order of the
\* numbers (stream, replay).
THEOREM InOrderReceived == Spec => []ReceivedInOrder
<1>1. OrderInv => ReceivedInOrder
  BY DEF OrderInv, FlowOK, ReceivedInOrder
<1>2. QED
  BY <1>1, StreamOrder, PTL

-----------------------------------------------------------------------------
(* Completeness.  A connection's cursor vouches for every committed event up to it: the *)
(* client has received it, or it is in the queue or on its way, or a replay has left it *)
(* unread.  That what is taken from the channel may raise the cursor rests on the       *)
(* channel: it is increasing, holds all there is up to the pump's mark, and what a live *)
(* connection has taken of it is at or below its cursor, or unread.                     *)

Has(k, r) == ToSet(r) \cup ToSet(k.queue) \cup ToSet(k.todo)

SentInv ==
    /\ Increasing(sent) /\ Upto(sent, lastSeen)
    /\ ToSet(sent) \subseteq log /\ lastSeen \in log \cup {0}
    /\ reseeds = 0 => \A s \in log \ late : s <= lastSeen => s \in ToSet(sent)

\* u is what the client's replays have left unread.
Vouched(k, r, u) ==
    /\ Has(k, r) \subseteq log /\ k.last \in log \cup {0}
    /\ reseeds = 0 =>
           /\ \A s \in log \ late, x \in ToSet(r) : s <= x => s \in ToSet(r) \cup u
           /\ k.at # "off" => \A s \in log \ late : s <= k.last => s \in Has(k, r) \cup u

CompleteOK(k, r, u) ==
    /\ Vouched(k, r, u)
    /\ k.at = "live" => \A i \in 1..k.pos : sent[i] <= k.last \/ sent[i] \in u

MissInv == OrderInv /\ SentInv /\ \A c \in Clients : CompleteOK(conn[c], recv[c], unread[c])

\* The empty sequence has no elements.
LEMMA EmptySet == ToSet(<<>>) = {}
BY DEF ToSet

\* Append adds one element.
LEMMA AppendSet ==
    ASSUME NEW q \in Seq(Seqs), NEW s \in Seqs PROVE ToSet(Append(q, s)) = ToSet(q) \cup {s}
<1>1. /\ Len(q) \in Nat /\ DOMAIN q = 1..Len(q) /\ DOMAIN Append(q, s) = 1..(Len(q) + 1)
      /\ \A i \in 1..Len(q) : Append(q, s)[i] = q[i]
      /\ Append(q, s)[Len(q) + 1] = s
  OBVIOUS
<1>2. \A i \in 1..(Len(q) + 1) : i \in 1..Len(q) \/ i = Len(q) + 1
  BY <1>1
<1>3. Len(q) + 1 \in 1..(Len(q) + 1) /\ 1..Len(q) \subseteq 1..(Len(q) + 1)
  BY <1>1
<1>4. QED
  BY <1>1, <1>2, <1>3 DEF ToSet

\* A sequence has its head and the elements of its tail.
LEMMA TailSet ==
    ASSUME NEW q \in Seq(Seqs), q # <<>> PROVE ToSet(q) = {Head(q)} \cup ToSet(Tail(q))
<1>1. /\ Len(q) \in Nat /\ Len(q) > 0 /\ DOMAIN q = 1..Len(q)
      /\ DOMAIN Tail(q) = 1..(Len(q) - 1) /\ Head(q) = q[1]
      /\ \A i \in 1..(Len(q) - 1) : Tail(q)[i] = q[i + 1]
  OBVIOUS
<1>2. /\ \A i \in 1..Len(q) : i = 1 \/ (i - 1 \in 1..(Len(q) - 1) /\ (i - 1) + 1 = i)
      /\ \A i \in 1..(Len(q) - 1) : i + 1 \in 1..Len(q)
      /\ 1 \in 1..Len(q)
  BY <1>1
<1>3. \A i \in 1..Len(q) : q[i] = Head(q) \/ \E j \in 1..(Len(q) - 1) : q[i] = Tail(q)[j]
  BY <1>1, <1>2
<1>4. \A i \in 1..(Len(q) - 1) : \E j \in 1..Len(q) : Tail(q)[i] = q[j]
  BY <1>1, <1>2
<1>5. ASSUME NEW x PROVE x \in ToSet(q) <=> x = Head(q) \/ x \in ToSet(Tail(q))
  <2>1. x \in ToSet(q) <=> \E i \in 1..Len(q) : x = q[i]
    BY <1>1 DEF ToSet
  <2>2. x \in ToSet(Tail(q)) <=> \E i \in 1..(Len(q) - 1) : x = Tail(q)[i]
    BY <1>1 DEF ToSet
  <2>3. QED
    BY <1>1, <1>2, <1>3, <1>4, <2>1, <2>2
<1>6. QED
  BY <1>5

\* Two increasing sequences, one below the other, make one.
LEMMA ConcatSet ==
    ASSUME NEW p \in Seq(Seqs), NEW q \in Seq(Seqs), Increasing(p), Increasing(q), Below(p, q)
    PROVE  /\ p \o q \in Seq(Seqs) /\ ToSet(p \o q) = ToSet(p) \cup ToSet(q)
           /\ Increasing(p \o q)
           /\ \A i \in DOMAIN p : i \in DOMAIN (p \o q) /\ (p \o q)[i] = p[i]
<1> DEFINE m == Len(p)
           n == Len(q)
           c == p \o q
<1>1. /\ m \in Nat /\ n \in Nat /\ DOMAIN p = 1..m /\ DOMAIN q = 1..n
      /\ DOMAIN c = 1..(m + n) /\ c \in Seq(Seqs)
      /\ \A i \in 1..(m + n) : c[i] = IF i <= m THEN p[i] ELSE q[i - m]
  OBVIOUS
<1> HIDE DEF m, n, c
<1>2. \A i \in 1..(m + n) : i \in 1..m \/ (i - m \in 1..n /\ (i - m) + m = i /\ ~(i <= m))
  BY <1>1
<1>3. /\ \A i \in 1..m : i \in 1..(m + n) /\ c[i] = p[i]
      /\ \A i \in 1..n : i + m \in 1..(m + n) /\ c[i + m] = q[i]
  <2>1. \A i \in 1..m : i \in 1..(m + n) /\ i <= m
    BY <1>1
  <2>2. \A i \in 1..n : i + m \in 1..(m + n) /\ ~(i + m <= m) /\ (i + m) - m = i
    BY <1>1
  <2>3. QED
    BY <1>1, <2>1, <2>2
<1>4. \A i \in 1..(m + n) : \/ i \in 1..m /\ c[i] = p[i]
                            \/ ~(i <= m) /\ i - m \in 1..n /\ c[i] = q[i - m]
  BY <1>1, <1>2, <1>3
<1>5. ASSUME NEW i \in 1..(m + n), NEW j \in 1..(m + n), i < j PROVE c[i] < c[j]
  <2>1. CASE i \in 1..m /\ j \in 1..m
    BY <1>1, <1>3, <1>5, <2>1 DEF Increasing
  <2>2. CASE i \in 1..m /\ j \notin 1..m
    <3>1. c[i] = p[i] /\ j - m \in 1..n /\ c[j] = q[j - m]
      BY <1>3, <1>4, <2>2
    <3>2. QED
      BY <1>1, <2>2, <3>1 DEF Below
  <2>3. CASE i \notin 1..m
    <3>1. i - m \in 1..n /\ c[i] = q[i - m] /\ ~(i <= m)
      BY <1>4, <2>3
    <3>2. ~(j <= m) /\ i - m < j - m
      BY <1>1, <1>5, <3>1
    <3>3. j - m \in 1..n /\ c[j] = q[j - m]
      BY <1>1, <1>4, <3>2
    <3>4. QED
      BY <1>1, <3>1, <3>2, <3>3 DEF Increasing
  <2>4. QED
    BY <2>1, <2>2, <2>3
<1>6. ToSet(c) = ToSet(p) \cup ToSet(q)
  <2>1. ASSUME NEW x PROVE x \in ToSet(c) <=> x \in ToSet(p) \/ x \in ToSet(q)
    <3>1. /\ x \in ToSet(c) <=> \E i \in 1..(m + n) : x = c[i]
          /\ x \in ToSet(p) <=> \E i \in 1..m : x = p[i]
          /\ x \in ToSet(q) <=> \E i \in 1..n : x = q[i]
      BY <1>1 DEF ToSet
    <3>2. QED
      BY <1>3, <1>4, <3>1
  <2>2. QED
    BY <2>1
<1>7. QED
  BY <1>1, <1>3, <1>5, <1>6 DEF Increasing, c

\* No client has missed anything at first.
LEMMA MissInit == Init => MissInv
<1> SUFFICES ASSUME Init PROVE MissInv
  OBVIOUS
<1>1. OrderInv
  BY OrderInit
<1>2. SentInv
  BY EmptySet, LogInitially DEF Init, LogInit, SentInv, Increasing, Upto
<1>3. Off.queue = <<>> /\ Off.todo = <<>> /\ Off.at = "off" /\ Off.last = 0
  BY DEF Off
<1>4. CompleteOK(Off, <<>>, {})
  BY <1>3, EmptySet DEF CompleteOK, Vouched, Has
<1>5. QED
  BY <1>1, <1>2, <1>4 DEF MissInv, Init

\* What is committed in a step stands above all that was committed, or is late.
LEMMA CompleteLog ==
    ASSUME MissInv, OrderInv', Write \/ UNCHANGED logVars,
           UNCHANGED <<lastSeen, sent, conn, recv, unread, reseeds>>
    PROVE  MissInv'
<1>1. LogTypeOK /\ log \subseteq Seqs
  BY StreamTypes DEF MissInv, OrderInv
<1>2. /\ LogTypeOK' /\ log \subseteq log' /\ log' \subseteq Seqs
      /\ \A s \in log' \ late' : s \in log \ late \/ \A x \in log : x < s
  BY <1>1, LogStep
<1>3. ASSUME NEW s \in log' \ late', NEW t \in log \cup {0}, s <= t PROVE s \in log \ late
  <2>1. CASE \A x \in log : x < s
    <3>1. s \in Nat /\ t \in Nat /\ s > 0
      BY <1>1, <1>2, SeqsPositive
    <3>2. QED
      BY <1>3, <2>1, <3>1
  <2>2. QED
    BY <1>2, <2>1
<1>4. SentInv'
  BY <1>2, <1>3 DEF MissInv, SentInv
<1>5. \A c \in Clients : Vouched(conn[c], recv[c], unread[c])'
  <2>1. ASSUME NEW c \in Clients PROVE Vouched(conn[c], recv[c], unread[c])'
    <3>1. /\ Has(conn[c], recv[c]) \subseteq log /\ conn[c].last \in log \cup {0}
          /\ ToSet(recv[c]) \subseteq log
      BY DEF MissInv, CompleteOK, Vouched, Has
    <3>2. /\ conn'[c] = conn[c] /\ recv'[c] = recv[c] /\ unread'[c] = unread[c]
          /\ reseeds' = reseeds
      OBVIOUS
    <3>3. QED
      BY <1>2, <1>3, <3>1, <3>2 DEF MissInv, CompleteOK, Vouched
  <2>2. QED
    BY <2>1
<1>6. QED
  BY <1>4, <1>5 DEF MissInv, CompleteOK

\* The pump sends a page of all that is above its mark.
LEMMA CompletePump ==
    ASSUME MissInv, OrderInv', Pump PROVE MissInv'
<1> DEFINE rows == After(lastSeen, PumpLimit)
           q == InOrder(rows)
           m == Highest(rows, lastSeen)
<1>1. /\ LogTypeOK /\ log \subseteq Seqs /\ lastSeen \in Seqs \cup {0} /\ sent \in Seq(Seqs)
      /\ PumpLimit \in Nat /\ Len(sent) \in Nat /\ DOMAIN sent = 1..Len(sent)
      /\ lastSeen \in Nat /\ \A s \in log : s \in Nat
      /\ \A c \in Clients : conn[c] \in Connection /\ conn[c].pos <= Len(sent)
  BY StreamTypes, SeqsPositive DEF MissInv, OrderInv
<1>2. /\ rows \in SUBSET Seqs /\ rows \subseteq log
      /\ q \in Seq(Seqs) /\ Increasing(q) /\ ToSet(q) = rows
      /\ \A i \in DOMAIN q : lastSeen < q[i] /\ q[i] <= m
      /\ lastSeen <= m /\ m \in rows \cup {lastSeen}
  BY <1>1, PageAbove
<1>3. /\ sent' = sent \o q /\ lastSeen' = m /\ rows # {}
      /\ UNCHANGED <<logVars, conn, recv, unread, drops, fails, reseeds>>
  BY DEF Pump
<1>4. \A s \in log : lastSeen < s /\ s <= m => s \in rows
  <2>1. m \in Nat
    BY <1>1, <1>2
  <2>2. m \in rows \/ m = lastSeen
    BY <1>2
  <2>3. QED
    BY <1>1, <2>1, <2>2, PageIsPrefix
<1> HIDE DEF m, q, rows
<1>5. /\ \A i \in DOMAIN sent : sent[i] <= lastSeen /\ sent[i] \in Nat
      /\ \A i \in DOMAIN q : q[i] \in Nat
      /\ m \in Nat
  BY <1>1, <1>2, SeqNumbers DEF MissInv, SentInv, Upto
<1>6. Below(sent, q)
  BY <1>1, <1>2, <1>5 DEF Below
<1>7. /\ sent' \in Seq(Seqs) /\ ToSet(sent') = ToSet(sent) \cup rows /\ Increasing(sent')
      /\ \A i \in DOMAIN sent : i \in DOMAIN sent' /\ sent'[i] = sent[i]
  BY <1>1, <1>2, <1>3, <1>6, ConcatSet DEF MissInv, SentInv
<1>8. Upto(sent', m)
  <2>1. ASSUME NEW i \in DOMAIN sent' PROVE sent'[i] <= m
    <3>1. sent'[i] \in ToSet(sent) \cup rows
      BY <1>7 DEF ToSet
    <3>2. (\E j \in DOMAIN sent : sent'[i] = sent[j]) \/ (\E j \in DOMAIN q : sent'[i] = q[j])
      BY <1>2, <3>1 DEF ToSet
    <3>3. QED
      BY <1>1, <1>2, <1>5, <3>2
  <2>2. QED
    BY <2>1 DEF Upto
<1>9. /\ log' = log /\ late' = late /\ reseeds' = reseeds
      /\ \A c \in Clients : /\ conn'[c] = conn[c] /\ recv'[c] = recv[c]
                            /\ unread'[c] = unread[c]
  BY <1>3 DEF logVars
<1>10. SentInv'
  <2>1. m \in log \cup {0}
    BY <1>2 DEF MissInv, SentInv
  <2>2. reseeds = 0 => \A s \in log \ late : s <= m => s \in ToSet(sent) \cup rows
    <3>1. ASSUME reseeds = 0, NEW s \in log \ late, s <= m PROVE s \in ToSet(sent) \cup rows
      <4>1. s <= lastSeen \/ lastSeen < s
        <5>1. s \in Nat /\ lastSeen \in Nat
          BY <1>1
        <5>2. QED
          BY <5>1
      <4>2. QED
        BY <1>4, <3>1, <4>1 DEF MissInv, SentInv
    <3>2. QED
      BY <3>1
  <2>3. ToSet(sent') \subseteq log
    BY <1>2, <1>7 DEF MissInv, SentInv
  <2>4. QED
    BY <1>3, <1>7, <1>8, <1>9, <2>1, <2>2, <2>3 DEF SentInv
<1>11. ASSUME NEW c \in Clients PROVE CompleteOK(conn[c], recv[c], unread[c])'
  <2>1. conn[c].pos \in Nat /\ conn[c].pos <= Len(sent)
    BY <1>1 DEF Connection
  <2>2. \A i \in 1..conn[c].pos : i \in DOMAIN sent
    BY <1>1, <2>1
  <2>3. \A i \in 1..conn[c].pos : sent'[i] = sent[i]
    BY <1>7, <2>2
  <2>4. QED
    BY <1>9, <2>3 DEF MissInv, CompleteOK, Vouched
<1>12. QED
  BY <1>10, <1>11 DEF MissInv

\* A new LISTEN moves the mark up, and tells that it did.
LEMMA CompleteReseed ==
    ASSUME MissInv, OrderInv', Reseed PROVE MissInv'
<1> DEFINE m == Highest(log, 0)
<1>1. /\ log \subseteq Seqs /\ sent \in Seq(Seqs) /\ reseeds \in Nat
      /\ UNCHANGED <<logVars, sent, conn, recv, unread>> /\ lastSeen' = m /\ reseeds' = reseeds + 1
      /\ \A s \in log : s \in Nat
  <2>1. TypeOK
    BY DEF MissInv, OrderInv
  <2>2. log \subseteq Seqs /\ sent \in Seq(Seqs) /\ MaxReseeds \in Nat /\ reseeds \in 0..MaxReseeds
    BY <2>1, StreamTypes DEF TypeOK
  <2>3. QED
    BY <2>2, SeqsPositive DEF Reseed
<1>2. m \in log \cup {0} /\ \A s \in log : s <= m
  <2>1. CASE log = {}
    BY <2>1 DEF Highest
  <2>2. CASE log # {}
    BY <1>1, <2>2, HighestChosen
  <2>3. QED
    BY <2>1, <2>2
<1> HIDE DEF m
<1>3. Upto(sent, m)
  <2>1. \A i \in DOMAIN sent : sent[i] \in log
    BY DEF MissInv, SentInv, ToSet
  <2>2. QED
    BY <1>2, <2>1 DEF Upto
<1>4. log' = log /\ late' = late /\ reseeds' # 0
  BY <1>1 DEF logVars
<1>5. SentInv'
  BY <1>1, <1>2, <1>3, <1>4 DEF MissInv, SentInv
<1>6. \A c \in Clients : CompleteOK(conn[c], recv[c], unread[c])'
  BY <1>1, <1>4 DEF MissInv, CompleteOK, Vouched
<1>7. QED
  BY <1>5, <1>6 DEF MissInv

\* A step of one connection keeps the invariant if it keeps that connection complete.
LEMMA CompleteConn ==
    ASSUME MissInv, OrderInv', NEW c \in Clients, NEW k, NEW r, NEW u, CompleteOK(k, r, u),
           conn' = [conn EXCEPT ![c] = k], recv' = [recv EXCEPT ![c] = r],
           unread' = [unread EXCEPT ![c] = u],
           UNCHANGED <<logVars, lastSeen, sent, reseeds>>
    PROVE  MissInv'
<1>1. log' = log /\ late' = late /\ reseeds' = reseeds /\ sent' = sent /\ lastSeen' = lastSeen
  BY DEF logVars
<1>2. SentInv'
  BY <1>1 DEF MissInv, SentInv
<1>3. ASSUME NEW d \in Clients PROVE CompleteOK(conn[d], recv[d], unread[d])'
  <2>1. CompleteOK(conn'[d], recv'[d], unread'[d])
    BY DEF MissInv, OrderInv, TypeOK
  <2>2. QED
    BY <1>1, <2>1 DEF CompleteOK, Vouched
<1>4. QED
  BY <1>2, <1>3 DEF MissInv

\* A replay vouches for all up to its last row; what it left of the channel's past above
\* that is unread.
LEMMA ReplayedComplete ==
    ASSUME MissInv, NEW k \in Connection, NEW r \in Seq(Seqs), NEW u,
           FlowOK(k, r), Vouched(k, r, u), k.at \in {"replay", "live"}, k.todo = <<>>,
           k.pos <= Len(sent)
    PROVE  CompleteOK(Replayed(k), r,
                      (u \ After(k.last, ReplayBatch)) \cup Beyond(Replayed(k)))
<1> DEFINE rows == After(k.last, ReplayBatch)
           q == InOrder(rows)
           m == Highest(rows, k.last)
           new == Replayed(k)
           w == (u \ rows) \cup Beyond(new)
<1>1. /\ TypeOK /\ LogTypeOK /\ k.last \in log \cup {0} /\ k.last \in Seqs \cup {0}
      /\ sent \in Seq(Seqs) /\ Len(sent) \in Nat /\ DOMAIN sent = 1..Len(sent) /\ k.pos \in Nat
      /\ ReplayBatch \in Nat
  BY StreamTypes DEF MissInv, OrderInv, Vouched, Connection
<1>2. /\ new.pos = k.pos /\ new.queue = k.queue /\ new.at = "live" /\ new.todo = q /\ new.last = m
  BY <1>1, ReplayedFlow
<1>3. /\ rows \subseteq log /\ rows \in SUBSET Seqs /\ ToSet(q) = rows /\ m \in Seqs \cup {0}
      /\ m \in rows \cup {k.last}
  BY <1>1, PageAbove
<1>4. k.last \in Nat /\ m \in Nat /\ \A s \in log : s \in Nat
  BY <1>1, <1>3, LogNumbers, SeqsPositive
<1>5. \A s \in rows : k.last < s
  BY <1>1, PageOfLog
<1>6. \A s \in log : s <= m => s <= k.last \/ s \in rows
  <2>1. ASSUME NEW s \in log, s <= m, ~(s <= k.last) PROVE s \in rows
    <3>1. k.last < s /\ m \in rows
      BY <1>3, <1>4, <2>1
    <3>2. QED
      BY <1>1, <1>4, <2>1, <3>1, PageIsPrefix
  <2>2. QED
    BY <2>1
<1> HIDE DEF m, q, rows, new, w
<1>7. Has(new, r) = Has(k, r) \cup rows
  BY <1>2, <1>3, EmptySet DEF Has
<1>8. \A s \in u : s \in w \/ s \in rows
  BY DEF w
<1>9. \A x \in ToSet(r) : x \in Nat /\ x <= k.last
  BY SeqNumbers DEF FlowOK, Upto, ToSet
<1>10. ASSUME reseeds = 0, NEW s \in log \ late, NEW x \in ToSet(r), s <= x
       PROVE  s \in ToSet(r) \cup w
  <2>1. s \notin rows
    <3>1. s \in Nat /\ x \in Nat /\ x <= k.last
      BY <1>4, <1>9
    <3>2. s <= k.last
      BY <1>4, <1>10, <3>1
    <3>3. QED
      BY <1>4, <1>5, <3>1, <3>2
  <2>2. QED
    BY <1>8, <1>10, <2>1 DEF Vouched
<1>11. ASSUME reseeds = 0, NEW s \in log \ late, s <= m PROVE s \in Has(new, r) \cup w
  <2>1. CASE s \in rows
    BY <1>7, <2>1
  <2>2. CASE s \notin rows
    <3>1. s <= k.last
      BY <1>6, <1>11, <2>2
    <3>2. QED
      BY <1>7, <1>8, <1>11, <2>2, <3>1 DEF Vouched
  <2>3. QED
    BY <2>1, <2>2
<1>12. \A i \in 1..k.pos : sent[i] <= m \/ sent[i] \in w
  <2>1. ASSUME NEW i \in 1..k.pos, ~(sent[i] <= m) PROVE sent[i] \in w
    <3>1. sent[i] > m
      <4>1. i \in DOMAIN sent
        BY <1>1
      <4>2. QED
        BY <1>1, <1>4, <2>1, <4>1, SeqNumbers
    <3>2. QED
      BY <1>2, <2>1, <3>1 DEF Beyond, w
  <2>2. QED
    BY <2>1
<1>13. m \in log \cup {0} /\ Has(new, r) \subseteq log
  BY <1>1, <1>3, <1>7 DEF Vouched
<1>14. CompleteOK(new, r, w)
  BY <1>2, <1>10, <1>11, <1>12, <1>13 DEF CompleteOK, Vouched
<1>15. QED
  BY <1>14 DEF new, w, rows

\* A replay that fails leaves all of the channel's past above the cursor unread.
LEMMA FailedComplete ==
    ASSUME MissInv, NEW k \in Connection, NEW r, NEW u, k.pos <= Len(sent),
           Vouched(k, r, u), k.at \in {"replay", "live"}
    PROVE  CompleteOK([k EXCEPT !.at = "live"], r, u \cup Beyond(k))
<1> DEFINE new == [k EXCEPT !.at = "live"]
<1>1. /\ new.pos = k.pos /\ new.queue = k.queue /\ new.at = "live" /\ new.todo = k.todo
      /\ new.last = k.last /\ k.pos \in Nat /\ k.last \in Nat
      /\ sent \in Seq(Seqs) /\ Len(sent) \in Nat /\ DOMAIN sent = 1..Len(sent)
  BY StreamTypes, SeqsPositive DEF Connection, MissInv, OrderInv
<1> HIDE DEF new
<1>2. ASSUME NEW i \in 1..k.pos, ~(sent[i] <= k.last) PROVE sent[i] \in Beyond(k)
  <2>1. i \in DOMAIN sent
    BY <1>1
  <2>2. sent[i] > k.last
    BY <1>1, <1>2, <2>1, SeqNumbers
  <2>3. QED
    BY <1>2, <2>2 DEF Beyond
<1>3. Has(new, r) = Has(k, r)
  BY <1>1 DEF Has
<1>4. CompleteOK(new, r, u \cup Beyond(k))
  BY <1>1, <1>2, <1>3 DEF CompleteOK, Vouched
<1>5. QED
  BY <1>4 DEF new

\* Taking the next event off the broadcast leaves no gap.
LEMMA TakenComplete ==
    ASSUME MissInv, NEW k \in Connection, NEW r \in Seq(Seqs), NEW u, FlowOK(k, r), CompleteOK(k, r, u),
           k.at = "live", k.todo = <<>>, k.pos < Len(sent),
           NEW n \in Nat, n = k.pos + 1, NEW s, s = sent[n]
    PROVE  CompleteOK(Taken(k, s), r, u)
<1>1. /\ TypeOK /\ LogTypeOK /\ log \subseteq Seqs /\ k.last \in log \cup {0} /\ k.pos \in Nat
      /\ sent \in Seq(Seqs) /\ Len(sent) \in Nat /\ DOMAIN sent = 1..Len(sent)
      /\ lastSeen \in Seqs \cup {0}
  BY StreamTypes DEF MissInv, OrderInv, CompleteOK, Vouched, Connection
<1>2. n \in DOMAIN sent /\ \A i \in 1..n : i \in 1..k.pos \/ i = n
  BY <1>1
<1>3. s \in log /\ s <= lastSeen
  BY <1>2 DEF MissInv, SentInv, Upto, ToSet
<1>4. s \in Nat /\ k.last \in Nat /\ lastSeen \in Nat /\ \A x \in log : x \in Nat
  BY <1>1, <1>3, SeqsPositive
<1>5. CASE s <= k.last
  <2> DEFINE new == [k EXCEPT !.pos = n]
  <2>1. /\ new.pos = n /\ new.queue = k.queue /\ new.at = k.at
        /\ new.todo = k.todo /\ new.last = k.last
    BY DEF Connection
  <2>2. new = Taken(k, s)
    BY <1>5 DEF Taken
  <2> HIDE DEF new
  <2>3. CompleteOK(new, r, u)
    BY <1>2, <1>5, <2>1 DEF CompleteOK, Vouched, Has
  <2>4. QED
    BY <2>2, <2>3
<1>6. CASE ~(s <= k.last)
  <2> DEFINE one == <<s>>
             k1 == [k EXCEPT !.pos = n]
             k2 == [k1 EXCEPT !.last = s]
             new == [k2 EXCEPT !.todo = one]
  <2>1. new = Taken(k, s)
    BY <1>6 DEF Taken, Connection
  <2>2. ToSet(one) = {s}
    BY DEF ToSet
  <2> HIDE DEF one
  <2>3. /\ new.pos = n /\ new.queue = k.queue /\ new.at = k.at
        /\ new.todo = one /\ new.last = s
    BY DEF Connection
  <2> HIDE DEF new
  <2>4. Has(new, r) = Has(k, r) \cup {s}
    BY <2>2, <2>3, EmptySet DEF Has
  <2>5. \A i \in 1..n : sent[i] <= s \/ sent[i] \in u
    <3>1. ASSUME NEW i \in 1..k.pos, sent[i] \notin u PROVE sent[i] <= s
      <4>1. i \in DOMAIN sent /\ sent[i] \in Nat
        BY <1>1, SeqNumbers
      <4>2. sent[i] <= k.last
        BY <3>1 DEF CompleteOK
      <4>3. QED
        BY <1>4, <1>6, <4>1, <4>2
    <3>2. QED
      BY <1>2, <1>4, <3>1
  <2>6. ASSUME reseeds = 0, NEW x \in log \ late, x <= s PROVE x \in Has(k, r) \cup {s} \cup u
    <3>1. x \in Nat
      BY <1>4
    <3>2. CASE x <= k.last
      BY <2>6, <3>2 DEF CompleteOK, Vouched
    <3>3. CASE k.last < x
      <4>1. x \in ToSet(sent)
        BY <1>3, <1>4, <2>6, <3>1 DEF MissInv, SentInv
      <4>2. PICK i \in DOMAIN sent : x = sent[i]
        BY <4>1 DEF ToSet
      <4>3. i \in 1..k.pos => x \in u
        BY <1>4, <3>1, <3>3, <4>2 DEF CompleteOK
      <4>4. ~(n < i)
        <5>1. n < i => s < x
          BY <1>2, <4>2 DEF MissInv, SentInv, Increasing
        <5>2. QED
          BY <1>4, <2>6, <3>1, <5>1
      <4>5. i \in 1..k.pos \/ i = n
        BY <1>1, <4>4
      <4>6. QED
        BY <4>2, <4>3, <4>5
    <3>4. QED
      BY <1>4, <3>1, <3>2, <3>3
  <2>7. Vouched(new, r, u)
    BY <1>3, <2>3, <2>4, <2>6 DEF CompleteOK, Vouched
  <2>8. QED
    BY <2>1, <2>3, <2>5, <2>7 DEF CompleteOK
<1>7. QED
  BY <1>5, <1>6

\* Putting an event on the wire loses none.
LEMMA SentComplete ==
    ASSUME NEW k \in Connection, NEW r \in Seq(Seqs), NEW u, FlowOK(k, r), CompleteOK(k, r, u),
           k.todo # <<>>,
           NEW new, new = [k EXCEPT !.queue = Append(@, Head(k.todo)), !.todo = Tail(@)]
    PROVE  CompleteOK(new, r, u)
<1>1. k.queue \in Seq(Seqs) /\ k.todo \in Seq(Seqs) /\ Head(k.todo) \in Seqs
  <2>1. k.queue \in Seq(Seqs) /\ k.todo \in Seq(Seqs)
    BY DEF Connection
  <2>2. QED
    BY <2>1
<1>2. /\ new.pos = k.pos /\ new.last = k.last /\ new.at = k.at /\ new.todo = Tail(k.todo)
      /\ new.queue = Append(k.queue, Head(k.todo))
  BY SentFlow
<1>3. Has(new, r) = Has(k, r)
  BY <1>1, <1>2, AppendSet, TailSet DEF Has
<1>4. QED
  BY <1>2, <1>3 DEF CompleteOK, Vouched

\* The head of the queue is the least the client lacks.
LEMMA ReceivedComplete ==
    ASSUME LogTypeOK, NEW k \in Connection, NEW r \in Seq(Seqs), NEW u, FlowOK(k, r), CompleteOK(k, r, u),
           k.queue # <<>>,
           NEW r2 \in Seq(Seqs), r2 = Append(r, Head(k.queue)),
           NEW new, new = [k EXCEPT !.queue = Tail(@)]
    PROVE  CompleteOK(new, r2, u)
<1> DEFINE h == Head(k.queue)
<1>1. /\ k.queue \in Seq(Seqs) /\ k.todo \in Seq(Seqs) /\ h \in Seqs /\ h = k.queue[1]
      /\ 1 \in DOMAIN k.queue /\ \A i \in DOMAIN k.queue : i = 1 \/ 1 < i
  <2>1. k.queue \in Seq(Seqs) /\ k.todo \in Seq(Seqs)
    BY DEF Connection
  <2>2. QED
    BY <2>1
<1>2. /\ new.pos = k.pos /\ new.last = k.last /\ new.at = k.at /\ new.todo = k.todo
      /\ new.queue = Tail(k.queue)
  BY ReceivedFlow
<1>3. ToSet(r2) = ToSet(r) \cup {h} /\ ToSet(k.queue) = {h} \cup ToSet(new.queue)
  BY <1>1, <1>2, AppendSet, TailSet
<1>4. Has(new, r2) = Has(k, r)
  BY <1>2, <1>3 DEF Has
<1> HIDE DEF h
<1>5. k.at = "live" /\ h <= k.last
  BY <1>1 DEF FlowOK, Upto
<1>6. ASSUME NEW s \in ToSet(k.queue) \cup ToSet(k.todo) PROVE h = s \/ h < s
  <2>1. CASE s \in ToSet(k.queue)
    BY <1>1, <2>1 DEF ToSet, FlowOK, Increasing
  <2>2. CASE s \in ToSet(k.todo)
    BY <1>1, <2>2 DEF ToSet, FlowOK, Below
  <2>3. QED
    BY <2>1, <2>2
<1>7. ASSUME reseeds = 0, NEW s \in log \ late, s <= h PROVE s \in ToSet(r2) \cup u
  <2>1. s \in Nat /\ h \in Nat /\ k.last \in Nat
    <3>1. s \in Seqs /\ h \in Seqs /\ k.last \in Seqs \cup {0}
      BY <1>1, LogNumbers DEF Connection
    <3>2. QED
      BY <3>1, SeqsPositive
  <2>2. s <= k.last
    BY <1>5, <1>7, <2>1
  <2>3. s \in Has(k, r) \cup u
    BY <1>5, <1>7, <2>2 DEF CompleteOK, Vouched
  <2>4. ~(h < s)
    BY <1>7, <2>1
  <2>5. s \in ToSet(r) \cup u \/ s = h
    BY <1>6, <2>3, <2>4 DEF Has
  <2>6. QED
    BY <1>3, <2>5
<1>8. reseeds = 0 => \A s \in log \ late, x \in ToSet(r2) : s <= x => s \in ToSet(r2) \cup u
  BY <1>3, <1>7 DEF CompleteOK, Vouched
<1>9. QED
  BY <1>2, <1>4, <1>8 DEF CompleteOK, Vouched

\* Each step keeps what is vouched for complete.
LEMMA MissStep ==
    ASSUME MissInv, [Next]_vars PROVE MissInv'
<1>0. /\ OrderInv /\ OrderInv' /\ TypeOK /\ LogTypeOK
      /\ \A c \in Clients : /\ conn[c] \in Connection /\ recv[c] \in Seq(Seqs)
                            /\ FlowOK(conn[c], recv[c]) /\ CompleteOK(conn[c], recv[c], unread[c])
                            /\ conn[c].pos \in Nat /\ conn[c].pos <= Len(sent)
                            /\ recv = [recv EXCEPT ![c] = recv[c]]
                            /\ unread = [unread EXCEPT ![c] = unread[c]]
  BY OrderStep, StreamTypes DEF MissInv, OrderInv, TypeOK, Connection
<1>1. CASE Log \/ UNCHANGED vars
  BY <1>0, <1>1, CompleteLog DEF Log, vars
<1>2. ASSUME NEW c \in Clients, Connect(c) PROVE MissInv'
  <2> DEFINE n == LastEventId(c)
             m == Len(sent)
             k1 == [Off EXCEPT !.at = "replay"]
             k2 == [k1 EXCEPT !.last = n]
             k == [k2 EXCEPT !.pos = m]
  <2>1. conn' = [conn EXCEPT ![c] = k] /\ UNCHANGED <<logVars, lastSeen, sent, recv, unread, reseeds>>
    BY <1>2 DEF Connect
  <2>2. k1 = [at |-> "replay", last |-> 0, pos |-> 0, todo |-> <<>>, queue |-> <<>>]
    BY DEF Off
  <2>3. n = 0 \/ (n \in ToSet(recv[c]))
    <3>1. CASE recv[c] = <<>>
      BY <3>1 DEF LastEventId
    <3>2. CASE recv[c] # <<>>
      <4>1. Len(recv[c]) \in DOMAIN recv[c] /\ n = recv[c][Len(recv[c])]
        BY <1>0, <3>2 DEF LastEventId, Last
      <4>2. QED
        BY <4>1 DEF ToSet
    <3>3. QED
      BY <3>1, <3>2
  <2> HIDE DEF n, m, k1
  <2>4. k.queue = <<>> /\ k.todo = <<>> /\ k.at = "replay" /\ k.last = n
    BY <2>2
  <2> HIDE DEF k
  <2>5. Has(k, recv[c]) = ToSet(recv[c]) /\ ToSet(recv[c]) \subseteq log
    BY <1>0, <2>4, EmptySet DEF Has, CompleteOK, Vouched
  <2>6. \A s \in log : ~(s <= 0)
    BY <1>0, LogNumbers, SeqsPositive
  <2>7. CompleteOK(k, recv[c], unread[c])
    BY <1>0, <2>3, <2>4, <2>5, <2>6 DEF CompleteOK, Vouched
  <2>8. QED
    BY <1>0, <2>1, <2>7, CompleteConn
<1>3. ASSUME NEW c \in Clients, NEW j \in Connection, FlowOK(j, recv[c]), j.todo = <<>>,
             Vouched(j, recv[c], unread[c]), j.at \in {"replay", "live"}, j.pos <= Len(sent),
             Replay(c, j), UNCHANGED <<logVars, lastSeen, sent, recv, reseeds>>
      PROVE  MissInv'
  <2>1. CASE /\ conn' = [conn EXCEPT ![c] = Replayed(j)]
             /\ unread' = [unread EXCEPT ![c] = (@ \ After(j.last, ReplayBatch))
                                                \cup Beyond(Replayed(j))]
    <3> DEFINE k == Replayed(j)
               u == (unread[c] \ After(j.last, ReplayBatch)) \cup Beyond(Replayed(j))
    <3>1. CompleteOK(k, recv[c], u)
      BY <1>0, <1>3, ReplayedComplete
    <3>2. conn' = [conn EXCEPT ![c] = k] /\ unread' = [unread EXCEPT ![c] = u]
      BY <2>1
    <3> HIDE DEF k, u
    <3>3. QED
      BY <1>0, <1>3, <3>1, <3>2, CompleteConn
  <2>2. CASE /\ conn' = [conn EXCEPT ![c] = [j EXCEPT !.at = "live"]]
             /\ unread' = [unread EXCEPT ![c] = @ \cup Beyond(j)]
    <3> DEFINE k == [j EXCEPT !.at = "live"]
               u == unread[c] \cup Beyond(j)
    <3>1. CompleteOK(k, recv[c], u)
      BY <1>0, <1>3, FailedComplete
    <3>2. conn' = [conn EXCEPT ![c] = k] /\ unread' = [unread EXCEPT ![c] = u]
      BY <2>2
    <3> HIDE DEF k, u
    <3>3. QED
      BY <1>0, <1>3, <3>1, <3>2, CompleteConn
  <2>3. QED
    BY <1>3, <2>1, <2>2 DEF Replay
<1>4. ASSUME NEW c \in Clients, FirstReplay(c) \/ Backfill(c) PROVE MissInv'
  <2>1. /\ conn[c].at \in {"replay", "live"} /\ conn[c].todo = <<>>
        /\ Vouched(conn[c], recv[c], unread[c])
    BY <1>0, <1>4 DEF FirstReplay, Backfill, Ready, FlowOK, CompleteOK
  <2>2. QED
    BY <1>0, <1>3, <1>4, <2>1 DEF FirstReplay, Backfill
<1>5. ASSUME NEW c \in Clients, Lagged(c) PROVE MissInv'
  <2> DEFINE n == Len(sent) - Capacity
             j == [conn[c] EXCEPT !.pos = n]
  <2>1. conn[c].at = "live" /\ conn[c].todo = <<>> /\ Len(sent) \in Nat /\ Capacity \in Nat
    BY <1>0, <1>5, StreamTypes DEF Lagged, Ready
  <2>2. n \in Nat /\ n <= Len(sent)
    BY <1>0, <1>5, <2>1 DEF Lagged, Lagging
  <2>3. j = Overtaken(c)
    BY DEF Overtaken
  <2> HIDE DEF n
  <2>4. /\ j \in Connection /\ j.pos = n /\ j.queue = conn[c].queue /\ j.todo = <<>>
        /\ j.at = "live" /\ j.last = conn[c].last /\ conn[c].todo = j.todo
    BY <1>0, <2>1, <2>2 DEF Connection
  <2> HIDE DEF j
  <2>5. FlowOK(j, recv[c]) /\ Vouched(j, recv[c], unread[c])
    BY <1>0, <2>1, <2>4 DEF FlowOK, CompleteOK, Vouched, Has
  <2>6. Replay(c, j) /\ UNCHANGED <<logVars, lastSeen, sent, recv, reseeds>>
    BY <1>5, <2>3 DEF Lagged
  <2>7. QED
    BY <1>3, <2>2, <2>4, <2>5, <2>6
<1>6. ASSUME NEW c \in Clients, TakeLive(c) PROVE MissInv'
  <2> DEFINE n == conn[c].pos + 1
             s == sent[n]
  <2>1. conn[c].at = "live" /\ conn[c].todo = <<>> /\ conn[c].pos < Len(sent) /\ n \in Nat
    BY <1>0, <1>6 DEF TakeLive, Ready
  <2>2. conn' = [conn EXCEPT ![c] = Taken(conn[c], s)]
        /\ UNCHANGED <<logVars, lastSeen, sent, recv, unread, reseeds>>
    BY <1>6 DEF TakeLive
  <2>3. PICK x, y : x = n /\ y = sent[x] /\ x \in Nat
    BY <2>1
  <2>4. CompleteOK(Taken(conn[c], y), recv[c], unread[c])
    BY <1>0, <2>1, <2>3, TakenComplete
  <2>5. QED
    BY <1>0, <2>2, <2>3, <2>4, CompleteConn
<1>7. ASSUME NEW c \in Clients, Send(c) PROVE MissInv'
  <2> DEFINE k == [conn[c] EXCEPT !.queue = Append(@, Head(conn[c].todo)), !.todo = Tail(@)]
  <2>1. CompleteOK(k, recv[c], unread[c])
    BY <1>0, <1>7, SentComplete DEF Send
  <2>2. conn' = [conn EXCEPT ![c] = k] /\ UNCHANGED <<logVars, lastSeen, sent, recv, unread, reseeds>>
    BY <1>0, <1>7 DEF Send, OrderInv, TypeOK
  <2> HIDE DEF k
  <2>3. QED
    BY <1>0, <2>1, <2>2, CompleteConn
<1>8. ASSUME NEW c \in Clients, Receive(c) PROVE MissInv'
  <2> DEFINE k == [conn[c] EXCEPT !.queue = Tail(@)]
             r == Append(recv[c], Head(conn[c].queue))
  <2>1. conn' = [conn EXCEPT ![c] = k] /\ recv' = [recv EXCEPT ![c] = r]
        /\ UNCHANGED <<logVars, lastSeen, sent, unread, reseeds>> /\ conn[c].queue # <<>>
    BY <1>0, <1>8 DEF Receive, OrderInv, TypeOK
  <2>2. k = [conn[c] EXCEPT !.queue = Tail(@)] /\ r = Append(recv[c], Head(conn[c].queue))
    OBVIOUS
  <2>3. r \in Seq(Seqs)
    <3>1. conn[c].queue \in Seq(Seqs)
      BY <1>0 DEF Connection
    <3>2. QED
      BY <1>0, <2>1, <3>1
  <2> HIDE DEF k, r
  <2>4. CompleteOK(k, r, unread[c])
    BY <1>0, <2>1, <2>2, <2>3, ReceivedComplete
  <2>5. QED
    BY <1>0, <2>1, <2>4, CompleteConn
<1>9. ASSUME NEW c \in Clients, Drop(c) PROVE MissInv'
  <2>1. Off.queue = <<>> /\ Off.todo = <<>> /\ Off.at = "off" /\ Off.last = 0
    BY DEF Off
  <2>2. CompleteOK(Off, recv[c], unread[c])
    BY <1>0, <2>1, EmptySet DEF CompleteOK, Vouched, Has
  <2>3. QED
    BY <1>0, <1>9, <2>2, CompleteConn DEF Drop
<1>10. QED
  BY <1>0, <1>1, <1>2, <1>4, <1>5, <1>6, <1>7, <1>8, <1>9, CompletePump, CompleteReseed
     DEF Next, Task

\* A client that has received an event has received every committed one below it that was
\* not committed late and that no failed or short replay left unread, across overflows,
\* lost connections and reconnects, as long as the listener stayed connected (stream,
\* replay).
THEOREM NoneIsMissed == Spec => []NothingMissed
<1>1. MissInv => NothingMissed
  <2> SUFFICES ASSUME MissInv, reseeds = 0, NEW c \in Clients,
                      NEW s \in log \ (late \cup unread[c]), s < LastEventId(c)
               PROVE  s \in ToSet(recv[c])
    BY DEF NothingMissed
  <2>1. recv[c] \in Seq(Seqs) /\ s \in Nat /\ s \in Seqs
    BY StreamTypes, SeqsPositive DEF MissInv, OrderInv
  <2>2. recv[c] # <<>>
    BY <2>1 DEF LastEventId
  <2>3. Len(recv[c]) \in DOMAIN recv[c] /\ LastEventId(c) = recv[c][Len(recv[c])]
    BY <2>1, <2>2 DEF LastEventId, Last
  <2>4. LastEventId(c) \in ToSet(recv[c]) /\ LastEventId(c) \in Nat
    BY <2>1, <2>3, SeqNumbers DEF ToSet
  <2>5. s <= LastEventId(c)
    BY <2>1, <2>4
  <2>6. QED
    BY <2>4, <2>5 DEF MissInv, CompleteOK, Vouched
<1>2. MissInv /\ [Next]_vars => MissInv'
  BY MissStep
<1>3. QED
  BY <1>1, <1>2, MissInit, PTL DEF Spec
=============================================================================

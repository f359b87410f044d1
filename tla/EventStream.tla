------------------------------ MODULE EventStream ------------------------------
(***************************************************************************)
(* Server-sent events (mda-api/src/events.rs).  In each server process one *)
(* worker pumps new rows of sys_event_log into a bounded broadcast channel;*)
(* a connected client first gets a replay of what it missed, then the live *)
(* events, and a replay again when it lagged or was idle.  A client that   *)
(* loses the connection comes back with the last id it has received.       *)
(*                                                                         *)
(* One process, whose clients may read every event of the log.             *)
(***************************************************************************)
EXTENDS EventLog, SequencesExt

CONSTANTS Clients,
          PumpLimit,    \* LIMIT of the pump (500)
          ReplayBatch,  \* REPLAY_BATCH (500)
          Capacity,     \* BROADCAST_CAPACITY (1024)
          Wire,         \* room in the queue to the response body (64)
          MaxDrops,     \* bound: connections of clients lost
          MaxFails,     \* bound: replays whose query fails
          MaxReseeds    \* bound: times the listener loses its connection

ASSUME StreamAssumption ==
    /\ {PumpLimit, ReplayBatch, Capacity, Wire} \subseteq Nat \ {0}
    /\ {MaxDrops, MaxFails, MaxReseeds} \subseteq Nat

VARIABLES
    lastSeen,  \* the pump's high-water mark
    sent,      \* all that was sent into the channel; it keeps the last Capacity of it
    conn,      \* each client's connection: what its task knows, and the queue to the body
    recv,      \* what each client has received, over all its connections
    unread,    \* history: events of the channel's past that a replay of each client
               \* should have brought, but that failed or ended short of them, and no
               \* later one has read
    drops, fails, reseeds

vars == <<logVars, lastSeen, sent, conn, recv, unread, drops, fails, reseeds>>

\* pos: how much of the channel the receiver has taken; todo: events on their way
\* into the queue; last: the task's cursor.
Off == [at |-> "off", last |-> 0, pos |-> 0, todo |-> <<>>, queue |-> <<>>]

Increasing(q) == \A i, j \in DOMAIN q : i < j => q[i] < q[j]

\* The rows of a query in the order it gives them.
InOrder(S) == CHOOSE q \in [1..Cardinality(S) -> S] : Increasing(q)

LastEventId(c) == IF recv[c] = <<>> THEN 0 ELSE Last(recv[c])

-----------------------------------------------------------------------------
Init ==
    /\ LogInit
    /\ lastSeen = 0 /\ sent = <<>>
    /\ conn = [c \in Clients |-> Off]
    /\ recv = [c \in Clients |-> <<>>]
    /\ unread = [c \in Clients |-> {}]
    /\ drops = 0 /\ fails = 0 /\ reseeds = 0

Log == Write /\ UNCHANGED <<lastSeen, sent, conn, recv, unread, drops, fails, reseeds>>

-----------------------------------------------------------------------------
(* spawn_listen *)

\* pump, on a notification or a tick.
Pump ==
    LET rows == After(lastSeen, PumpLimit) IN
    /\ rows # {}
    /\ sent' = sent \o InOrder(rows)
    /\ lastSeen' = Highest(rows, lastSeen)
    /\ UNCHANGED <<logVars, conn, recv, unread, drops, fails, reseeds>>

\* A new LISTEN starts from the present tail.
Reseed ==
    /\ reseeds < MaxReseeds
    /\ lastSeen' = Highest(log, 0)
    /\ reseeds' = reseeds + 1
    /\ UNCHANGED <<logVars, sent, conn, recv, unread, drops, fails>>

-----------------------------------------------------------------------------
(* stream: the task behind one connection *)

\* GET /api/events: subscribe at the channel's end, then replay from Last-Event-ID.
Connect(c) ==
    /\ conn[c].at = "off"
    /\ conn' = [conn EXCEPT ![c] = [Off EXCEPT !.at = "replay", !.last = LastEventId(c),
                                               !.pos = Len(sent)]]
    /\ UNCHANGED <<logVars, lastSeen, sent, recv, unread, drops, fails, reseeds>>

\* replay: the rows above the cursor, to be sent one by one.
Replayed(k) ==
    LET rows == After(k.last, ReplayBatch)
    IN [k EXCEPT !.at = "live", !.todo = InOrder(rows), !.last = Highest(rows, k.last)]

\* What is above the cursor and will not come by the channel any more.
Beyond(k) == {s \in {sent[i] : i \in 1..k.pos} : s > k.last}

\* A replay reads at most REPLAY_BATCH rows; when its query fails, the task goes on as
\* if there had been none.
Replay(c, k) ==
    \/ /\ conn' = [conn EXCEPT ![c] = Replayed(k)]
       /\ unread' = [unread EXCEPT ![c] = (@ \ After(k.last, ReplayBatch)) \cup Beyond(Replayed(k))]
       /\ UNCHANGED fails
    \/ /\ fails < MaxFails
       /\ conn' = [conn EXCEPT ![c] = [k EXCEPT !.at = "live"]]
       /\ unread' = [unread EXCEPT ![c] = @ \cup Beyond(k)]
       /\ fails' = fails + 1

FirstReplay(c) ==
    /\ conn[c].at = "replay"
    /\ Replay(c, conn[c])
    /\ UNCHANGED <<logVars, lastSeen, sent, recv, drops, reseeds>>

Ready(c)   == conn[c].at = "live" /\ conn[c].todo = <<>>
Lagging(c) == Len(sent) - conn[c].pos > Capacity

\* Mutant: a live event is sent whether or not the replay had it.
TakenAgain(k, s) == [k EXCEPT !.pos = @ + 1, !.last = s, !.todo = <<s>>]

\* A live event at or below the cursor was in a replay.
Taken(k, s) ==
    IF s <= k.last THEN [k EXCEPT !.pos = @ + 1]
    ELSE [k EXCEPT !.pos = @ + 1, !.last = s, !.todo = <<s>>]

TakeLive(c) ==
    /\ Ready(c) /\ ~Lagging(c) /\ conn[c].pos < Len(sent)
    /\ conn' = [conn EXCEPT ![c] = Taken(conn[c], sent[conn[c].pos + 1])]
    /\ UNCHANGED <<logVars, lastSeen, sent, recv, unread, drops, fails, reseeds>>

Overtaken(c) == [conn[c] EXCEPT !.pos = Len(sent) - Capacity]

\* Mutant: the overflow is skipped without a replay.
SkipsOverflow(c) ==
    /\ Ready(c) /\ Lagging(c)
    /\ conn' = [conn EXCEPT ![c] = Overtaken(c)]
    /\ UNCHANGED <<logVars, lastSeen, sent, recv, unread, drops, fails, reseeds>>

\* After an overflow the receiver goes on with the oldest event kept, and the task
\* resyncs by a replay.
Lagged(c) ==
    /\ Ready(c) /\ Lagging(c)
    /\ Replay(c, Overtaken(c))
    /\ UNCHANGED <<logVars, lastSeen, sent, recv, drops, reseeds>>

\* Five seconds without a live event.
Backfill(c) ==
    /\ Ready(c) /\ conn[c].pos = Len(sent)
    /\ Replay(c, conn[c])
    /\ UNCHANGED <<logVars, lastSeen, sent, recv, drops, reseeds>>

\* The queue to the body is bounded: the task waits while it is full.
Room(c) == Len(conn[c].queue) < Wire

Send(c) ==
    /\ conn[c].todo # <<>> /\ Room(c)
    /\ conn' = [conn EXCEPT ![c].queue = Append(@, Head(conn[c].todo)), ![c].todo = Tail(@)]
    /\ UNCHANGED <<logVars, lastSeen, sent, recv, unread, drops, fails, reseeds>>

Receive(c) ==
    /\ conn[c].queue # <<>>
    /\ recv' = [recv EXCEPT ![c] = Append(@, Head(conn[c].queue))]
    /\ conn' = [conn EXCEPT ![c].queue = Tail(@)]
    /\ UNCHANGED <<logVars, lastSeen, sent, unread, drops, fails, reseeds>>

\* The connection is lost with all that was under way.
Drop(c) ==
    /\ conn[c].at # "off" /\ drops < MaxDrops
    /\ conn' = [conn EXCEPT ![c] = Off]
    /\ drops' = drops + 1
    /\ UNCHANGED <<logVars, lastSeen, sent, recv, unread, fails, reseeds>>

Task(c) == FirstReplay(c) \/ TakeLive(c) \/ Lagged(c) \/ Backfill(c) \/ Send(c)

Next == \/ Log \/ Pump \/ Reseed
        \/ \E c \in Clients : Connect(c) \/ Task(c) \/ Receive(c) \/ Drop(c)

Spec == Init /\ [][Next]_vars

\* The pump's tick and the client's task keep running; the browser reconnects and
\* reads.
FairSpec ==
    /\ Spec
    /\ WF_vars(Pump)
    /\ \A c \in Clients : WF_vars(Connect(c)) /\ WF_vars(Task(c)) /\ WF_vars(Receive(c))

-----------------------------------------------------------------------------
(* Properties *)

Connection == [at: {"off", "replay", "live"}, last: Seqs \cup {0}, pos: Nat,
               todo: Seq(Seqs), queue: Seq(Seqs)]

TypeOK ==
    /\ LogTypeOK
    /\ lastSeen \in Seqs \cup {0} /\ sent \in Seq(Seqs)
    /\ conn \in [Clients -> Connection]
    /\ recv \in [Clients -> Seq(Seqs)]
    /\ \A c \in Clients : conn[c].pos <= Len(sent) /\ Len(conn[c].queue) <= Wire
    /\ unread \in [Clients -> SUBSET Seqs]
    /\ drops \in 0..MaxDrops /\ fails \in 0..MaxFails /\ reseeds \in 0..MaxReseeds

\* A client sees each event at most once and in the order of the numbers, whatever
\* comes by replay, live, after an overflow or after a reconnect (stream, replay).
ReceivedInOrder == \A c \in Clients : Increasing(recv[c])

\* A client that has received an event has received the committed ones below it,
\* across overflows and reconnects, as long as the listener has stayed connected:
\* those aside that were committed after a higher one, and those that only a replay
\* could have brought whose query failed or returned REPLAY_BATCH rows (stream, replay).
NothingMissed ==
    reseeds = 0 =>
        \A c \in Clients : \A s \in log \ (late \cup unread[c]) :
            s < LastEventId(c) => s \in ToSet(recv[c])

\* With these exceptions every event reaches every client that keeps coming back: a
\* failed replay is made good by the next, unless a live event came first.
Arrives ==
    \A c \in Clients, s \in Seqs :
        <>[](s \in log => s \in ToSet(recv[c]) \cup late \cup unread[c] \/ reseeds > 0)

\* "`Last-Event-ID` gives at-least-once delivery": a client that has received an
\* event has received all the committed ones below it.  A backlog longer than one
\* replay refutes it.
AtLeastOnce ==
    \A c \in Clients, s \in log : s < LastEventId(c) => s \in ToSet(recv[c])
=============================================================================

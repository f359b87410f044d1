----------------------------- MODULE WebhookRelay -----------------------------
(***************************************************************************)
(* The webhook relay (relay_once): events of sys_event_log above a stored  *)
(* cursor become webhook.deliver rows of the outbox.  Each enqueue commits *)
(* by itself and the cursor is written last; every server process runs a   *)
(* relay and all of them share the cursor.                                 *)
(***************************************************************************)
EXTENDS EventLog

CONSTANTS Relays,    \* relay loops
          Limit,     \* LIMIT of a pass (500)
          MaxDeaths,  \* bound: passes that die half-way
          MaxReplays  \* bound: replays an operator asks for

ASSUME RelayAssumption == Limit \in Nat \ {0} /\ MaxDeaths \in Nat /\ MaxReplays \in Nat

VARIABLES cursor,   \* sys_webhook_relay_cursor
          pass,     \* each relay's pass
          queued,   \* webhook.deliver rows enqueued for each event (one subscription)
          deaths,
          replays   \* replays an operator may still ask for

vars == <<logVars, cursor, pass, queued, deaths, replays>>

\* mark: the high-water mark so far; todo: events read and not yet enqueued.
Idle == [at |-> "idle", mark |-> 0, todo |-> {}]

Init ==
    /\ LogInit
    /\ cursor = 0
    /\ pass = [r \in Relays |-> Idle]
    /\ queued = [s \in Seqs |-> 0]
    /\ deaths = 0
    /\ replays = MaxReplays

Log == Write /\ UNCHANGED <<cursor, pass, queued, deaths, replays>>

ReadCursor(r) ==
    /\ pass[r] = Idle
    /\ pass' = [pass EXCEPT ![r] = [Idle EXCEPT !.at = "read", !.mark = cursor]]
    /\ UNCHANGED <<logVars, cursor, queued, deaths, replays>>

\* Mutant: LIMIT without ORDER BY returns other events above the mark than the lowest.
SomeEvents(mark) ==
    CHOOSE S \in SUBSET {s \in log : s > mark} :
        /\ Cardinality(S) <= Limit
        /\ \A s \in log : s > mark => s \in S \/ Cardinality(S) = Limit
        /\ S # After(mark, Limit) \/ \A s \in log : s > mark => s \in S

NewEvents(mark) == After(mark, Limit)

\* An empty answer ends the pass.
ReadEvents(r) ==
    /\ pass[r].at = "read"
    /\ pass' = [pass EXCEPT ![r] =
           IF NewEvents(pass[r].mark) = {} THEN Idle
           ELSE [at |-> "enqueue", mark |-> pass[r].mark, todo |-> NewEvents(pass[r].mark)]]
    /\ UNCHANGED <<logVars, cursor, queued, deaths, replays>>

\* The next event in order: one INSERT into the outbox, committed on its own.
EnqueueNext(r) ==
    /\ pass[r].at = "enqueue" /\ pass[r].todo # {}
    /\ LET s == CHOOSE x \in pass[r].todo : \A y \in pass[r].todo : x <= y IN
       /\ queued' = [queued EXCEPT ![s] = @ + 1]
       /\ pass' = [pass EXCEPT ![r].todo = @ \ {s}, ![r].mark = Highest({@, s}, 0)]
    /\ UNCHANGED <<logVars, cursor, deaths, replays>>

AdvanceCursor(r) ==
    /\ pass[r].at = "enqueue" /\ pass[r].todo = {}
    /\ cursor' = pass[r].mark
    /\ pass' = [pass EXCEPT ![r] = Idle]
    /\ UNCHANGED <<logVars, queued, deaths, replays>>

\* A database error or the end of the process: the rows enqueued so far stay.
Die(r) ==
    /\ pass[r] # Idle /\ deaths < MaxDeaths
    /\ pass' = [pass EXCEPT ![r] = Idle]
    /\ deaths' = deaths + 1
    /\ UNCHANGED <<logVars, cursor, queued, replays>>

\* POST /api/webhooks/:id/replay enqueues events again, and stops at an error.
Replay(from, limit) ==
    /\ replays > 0
    /\ \E last \in After(from, limit) :
           queued' = [s \in Seqs |-> IF s \in After(from, limit) /\ s <= last
                                     THEN queued[s] + 1 ELSE queued[s]]
    /\ replays' = replays - 1
    /\ UNCHANGED <<logVars, cursor, pass, deaths>>

Relay(r) == ReadCursor(r) \/ ReadEvents(r) \/ EnqueueNext(r) \/ AdvanceCursor(r)

Next == \/ Log
        \/ \E r \in Relays : Relay(r) \/ Die(r)
        \/ \E from \in Seqs \cup {0}, limit \in 1..MaxSeq : Replay(from, limit)

Spec == Init /\ [][Next]_vars

\* Every relay's interval keeps ticking; no writer is assumed to act.
FairSpec ==
    /\ Spec
    /\ \A r \in Relays : WF_vars(Relay(r))

-----------------------------------------------------------------------------
(* Properties *)

TypeOK ==
    /\ LogTypeOK
    /\ cursor \in Seqs \cup {0}
    /\ pass \in [Relays -> [at: {"idle", "read", "enqueue"}, mark: Seqs \cup {0}, todo: SUBSET Seqs]]
    /\ \A r \in Relays : \A s \in pass[r].todo : s \in log /\ s > pass[r].mark
    /\ queued \in [Seqs -> Nat]
    /\ deaths \in 0..MaxDeaths /\ replays \in 0..MaxReplays

\* The cursor stands above an event that was not enqueued only if the event was
\* committed after a higher one - whatever relays die, race each other or set the
\* cursor back (relay_once).
NothingSkipped == \A s \in log \ late : s <= cursor => queued[s] > 0

\* Every event is enqueued at last, those aside that were committed after a higher one.
Relayed == \A s \in Seqs : s \in log ~> queued[s] > 0 \/ s \in late

\* "delivery is at-least-once by contract": no event at all is passed over.  The code
\* passes over one that is committed after a higher one was relayed.
AtLeastOnce == \A s \in log : s <= cursor => queued[s] > 0
=============================================================================

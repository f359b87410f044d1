-------------------------------- MODULE Outbox --------------------------------
(***************************************************************************)
(* The outbox drain (mda-server/src/outbox.rs) and the handlers it calls:  *)
(* the notification fan-out over the in-app and email channels and the     *)
(* signed webhook delivery.                                                *)
(*                                                                         *)
(* A pass claims a batch under row locks, runs the handlers - whose writes *)
(* commit one by one, outside the pass's transaction - and commits all the *)
(* new statuses at the end.  A pass that dies before that commit leaves    *)
(* what its handlers did, and its rows are claimed again.                  *)
(***************************************************************************)
EXTENDS Naturals, FiniteSets

CONSTANTS
    Rows,        \* sys_outbox ids, numbered by created_at
    Target,      \* of the rows of kind webhook.deliver: the subscription and the event; the
                 \* relay's repeats and replay make several rows of one target
    Effective,   \* for each recipient its channels: type defaults minus opt-outs
    Workers,     \* drain loops, one per server process
    Batch,       \* LIMIT of a claim (50)
    MaxRetries,  \* MAX_RETRIES (10)
    MaxInserted, \* bound: outbox rows ever inserted
    MaxAborts,   \* bound: passes that die before their commit
    Faulty       \* what may fail: channels, "fanout" (its lookups), "endpoint" (of a webhook)

Users    == DOMAIN Effective
Webhooks == DOMAIN Target                     \* the other rows are fan-outs
Targets  == {Target[r] : r \in Webhooks}      \* UNIQUE (webhook_id, event_id)
Hooks    == {k[1] : k \in Targets}

ASSUME RowsAssumption  == Rows \subseteq Nat \ {0} /\ Webhooks \subseteq Rows
ASSUME LimitAssumption == Batch \in Nat \ {0} /\ MaxRetries \in Nat \ {0} /\ MaxAborts \in Nat
ASSUME ChannelAssumption ==
    /\ Effective \in [Users -> SUBSET {"in_app", "email"}]
    /\ Faulty \subseteq {"in_app", "email", "fanout", "endpoint"}

VARIABLES
    row,     \* sys_outbox: status, attempts, and whether the backoff has elapsed
    pass,    \* each drain loop: the rows it holds, the one in hand, the outcomes so far
    note,    \* sys_notification: id, and the outbox row and user it is about
    event,   \* notification.created rows of sys_event_log, counted
    msg,     \* sys_message: one per (outbox_id, user_id)
    mail,    \* mails handed to the transport, counted
    sub,       \* int.webhook: each subscription is active, inactive or gone
    delivery,  \* sys_webhook_delivery, by target; "hit" (a request has reached the
               \* endpoint) and "by" (the outbox row whose attempt it shows) are history
    skipped,   \* history: webhook rows that found their subscription inactive
    cut,       \* history: <<row, delivery>>s inserted by a pass that died before it sent
    aborts

hooked == <<sub, delivery, skipped>>
vars   == <<row, pass, note, event, msg, mail, hooked, cut, aborts>>

Fanouts == Rows \ Webhooks
Pairs   == Fanouts \X Users


\* A drain loop between two passes.  In a pass: the rows it holds, those still to
\* come, the row in hand with the deliveries left to make and the point its handler
\* has reached ("for" is the delivery in hand), and the rows that have failed.
Idle == [held |-> {}, todo |-> {}, cur |-> 0, left |-> {}, at |-> "none",
         for |-> <<>>, failed |-> {}]

Held(w) == pass[w].held

-----------------------------------------------------------------------------
(* Claiming and settling *)

Claimable(r) ==
    \/ row[r].status = "pending"
    \/ row[r].status = "failed" /\ row[r].attempts < MaxRetries /\ row[r].due

\* Mutant: FOR UPDATE is missing.
NeverLocked(r) == FALSE

\* FOR UPDATE ... SKIP LOCKED: the row is in some pass's hands.
Locked(r) == \E w \in Workers : r \in Held(w)

\* ORDER BY created_at LIMIT Batch over the rows that are free.
Claimed ==
    LET free == {r \in Rows : Claimable(r) /\ ~Locked(r)}
    IN {r \in free : Cardinality({x \in free : x <= r}) <= Batch}

\* Mutant: off by one, the last attempt parks the row as failed.
SettledLate(r, err) ==
    IF ~err THEN [row[r] EXCEPT !.status = "done"]
    ELSE [status |-> IF row[r].attempts >= MaxRetries THEN "dead" ELSE "failed",
          attempts |-> row[r].attempts + 1, due |-> FALSE]

\* What the status UPDATE makes of a row.
Settled(r, err) ==
    IF ~err THEN [row[r] EXCEPT !.status = "done"]
    ELSE [status |-> IF row[r].attempts + 1 >= MaxRetries THEN "dead" ELSE "failed",
          attempts |-> row[r].attempts + 1, due |-> FALSE]

-----------------------------------------------------------------------------
(* Deliveries *)

\* Mutant: a fresh id for every attempt.
FreshRowId(r, u) == <<r, u, Cardinality(note)>>

\* delivery_row_id
DeliveryRowId(r, u) == <<r, u>>

-----------------------------------------------------------------------------
Init ==
    /\ row = [r \in Rows |-> [status |-> "absent", attempts |-> 0, due |-> TRUE]]
    /\ pass = [w \in Workers |-> Idle]
    /\ note = {}
    /\ event = [p \in Pairs |-> 0]
    /\ msg = {}
    /\ mail = [p \in Pairs |-> 0]
    /\ sub = [h \in Hooks |-> "active"]
    /\ delivery = [k \in Targets |-> [hit |-> FALSE, status |-> "none", at |-> FALSE, by |-> 0]]
    /\ skipped = {}
    /\ cut = {}
    /\ aborts = 0

Room == Cardinality({r \in Rows : row[r].status # "absent"}) < MaxInserted

\* dispatch: a request commits an outbox row together with its own data.
Enqueue(r) ==
    /\ Room /\ r \in Fanouts /\ row[r].status = "absent"
    /\ row' = [row EXCEPT ![r].status = "pending"]
    /\ UNCHANGED <<pass, note, event, msg, mail, hooked, cut, aborts>>

\* replay, and relay_once in the same way: a row for an event and a subscription that
\* was active when it was looked up, whether or not there has been one before.
EnqueueDelivery(r) ==
    /\ Room /\ row[r].status = "absent"
    /\ row' = [row EXCEPT ![r].status = "pending"]
    /\ UNCHANGED <<pass, note, event, msg, mail, hooked, cut, aborts>>

\* delete_webhook: its rows stay in the outbox.
DeleteWebhook(h) ==
    /\ sub[h] # "gone"
    /\ sub' = [sub EXCEPT ![h] = "gone"]
    /\ UNCHANGED <<row, pass, note, event, msg, mail, delivery, skipped, cut, aborts>>

\* No handler updates "active": an operator switches it off in the table.
SwitchOff(h) ==
    /\ sub[h] = "active"
    /\ sub' = [sub EXCEPT ![h] = "inactive"]
    /\ UNCHANGED <<row, pass, note, event, msg, mail, delivery, skipped, cut, aborts>>

BackoffElapses(r) ==
    /\ row[r].status = "failed" /\ ~row[r].due
    /\ row' = [row EXCEPT ![r].due = TRUE]
    /\ UNCHANGED <<pass, note, event, msg, mail, hooked, cut, aborts>>

-----------------------------------------------------------------------------
(* A pass: drain_once *)

Claim(w) ==
    /\ pass[w] = Idle /\ Claimed # {}
    /\ pass' = [pass EXCEPT ![w] = [Idle EXCEPT !.held = Claimed, !.todo = Claimed]]
    /\ UNCHANGED <<row, note, event, msg, mail, hooked, cut, aborts>>

\* process: the handler a row's kind calls for, at its first step.
Dispatched(r) ==
    IF r \in Webhooks
    THEN [at |-> "look", left |-> {}]
    ELSE [at |-> "channel", left |-> UNION {{u} \X Effective[u] : u \in Users}]

\* The next row in order.
TakeRow(w) ==
    /\ pass[w].cur = 0 /\ pass[w].todo # {}
    /\ LET r == CHOOSE x \in pass[w].todo : \A y \in pass[w].todo : x <= y IN
       pass' = [pass EXCEPT
           ![w].cur = r, ![w].todo = @ \ {r},
           ![w].at = Dispatched(r).at, ![w].left = Dispatched(r).left]
    /\ UNCHANGED <<row, note, event, msg, mail, hooked, cut, aborts>>

\* The handler of the row in hand returns.
Return(w, err) ==
    pass' = [pass EXCEPT ![w].cur = 0, ![w].left = {}, ![w].at = "none", ![w].for = <<>>,
                         ![w].failed = IF err THEN @ \cup {pass[w].cur} ELSE @]

\* The statuses are committed and the locks go.
Commit(w) ==
    /\ pass[w].held # {} /\ pass[w].cur = 0 /\ pass[w].todo = {}
    /\ row' = [r \in Rows |-> IF r \in Held(w) THEN Settled(r, r \in pass[w].failed)
                                               ELSE row[r]]
    /\ pass' = [pass EXCEPT ![w] = Idle]
    /\ UNCHANGED <<note, event, msg, mail, hooked, cut, aborts>>

\* The delivery whose second statement a dying pass does not get to.
CutOff(p) == IF p.at \in {"event", "mail"} THEN {<<p.cur, p.for>>} ELSE {}

\* The process dies, or a status UPDATE fails: the transaction rolls back.
Abort(w) ==
    /\ pass[w] # Idle /\ aborts < MaxAborts
    /\ pass' = [pass EXCEPT ![w] = Idle]
    /\ aborts' = aborts + 1
    /\ cut' = cut \cup CutOff(pass[w])
    /\ UNCHANGED <<row, note, event, msg, mail, hooked>>

-----------------------------------------------------------------------------
(* fanout: deliver to each effective channel of each recipient *)

Start(w, d, at) == pass' = [pass EXCEPT ![w].at = at, ![w].for = d]
NextDelivery(w, d) == pass' = [pass EXCEPT ![w].at = "channel", ![w].for = <<>>, ![w].left = @ \ {d}]

\* InAppChannel inserts the notification; on a conflict it is done.
InsertNote(w, u) ==
    /\ pass[w].at = "channel" /\ <<u, "in_app">> \in pass[w].left
    /\ LET r  == pass[w].cur
           id == DeliveryRowId(r, u)
       IN \/ /\ \A n \in note : n.id # id
             /\ note' = note \cup {[id |-> id, row |-> r, user |-> u]}
             /\ Start(w, <<u, "in_app">>, "event")
          \/ /\ \E n \in note : n.id = id
             /\ NextDelivery(w, <<u, "in_app">>)
             /\ UNCHANGED note
    /\ UNCHANGED <<row, event, msg, mail, hooked, cut, aborts>>

\* ... then, in a statement of its own, the event for the real-time relay.
EmitEvent(w) ==
    /\ pass[w].at = "event"
    /\ event' = [event EXCEPT ![<<pass[w].cur, pass[w].for[1]>>] = @ + 1]
    /\ NextDelivery(w, pass[w].for)
    /\ UNCHANGED <<row, note, msg, mail, hooked, cut, aborts>>

\* EmailChannel records the message; on a conflict it is done.
InsertMessage(w, u) ==
    /\ pass[w].at = "channel" /\ <<u, "email">> \in pass[w].left
    /\ LET p == <<pass[w].cur, u>> IN
          \/ p \notin msg /\ msg' = msg \cup {p} /\ Start(w, <<u, "email">>, "mail")
          \/ p \in msg /\ NextDelivery(w, <<u, "email">>) /\ UNCHANGED msg
    /\ UNCHANGED <<row, note, event, mail, hooked, cut, aborts>>

\* ... then sends it (the users here are active and have an address).
SendMail(w) ==
    /\ pass[w].at = "mail"
    /\ mail' = [mail EXCEPT ![<<pass[w].cur, pass[w].for[1]>>] = @ + 1]
    /\ NextDelivery(w, pass[w].for)
    /\ UNCHANGED <<row, note, event, msg, hooked, cut, aborts>>

\* A channel's error, at its first statement or its second, is only logged.
ChannelFails(w) ==
    /\ \/ \E d \in pass[w].left :
              d[2] \in Faulty /\ pass[w].at = "channel" /\ NextDelivery(w, d)
       \/ /\ pass[w].at \in {"event", "mail"} /\ pass[w].for[2] \in Faulty
          /\ NextDelivery(w, pass[w].for)
    /\ UNCHANGED <<row, note, event, msg, mail, hooked, cut, aborts>>

\* An error of load_type or load_prefs fails the row.
FanoutFails(w) ==
    /\ "fanout" \in Faulty /\ pass[w].at = "channel" /\ pass[w].left # {}
    /\ Return(w, TRUE)
    /\ UNCHANGED <<row, note, event, msg, mail, hooked, cut, aborts>>

FanoutReturns(w) ==
    /\ pass[w].at = "channel" /\ pass[w].left = {}
    /\ Return(w, FALSE)
    /\ UNCHANGED <<row, note, event, msg, mail, hooked, cut, aborts>>

-----------------------------------------------------------------------------
(* deliver: POST to the subscriber, then record the attempt *)

\* A missing subscription is an error; an inactive one "counts as done".
LookUp(w) ==
    /\ pass[w].at = "look"
    /\ LET s == sub[Target[pass[w].cur][1]] IN
       \/ s = "gone" /\ Return(w, TRUE) /\ UNCHANGED skipped
       \/ s = "inactive" /\ Return(w, FALSE) /\ skipped' = skipped \cup {pass[w].cur}
       \/ s = "active" /\ Start(w, <<>>, "post") /\ UNCHANGED skipped
    /\ UNCHANGED <<row, note, event, msg, mail, sub, delivery, cut, aborts>>

Post(w) ==
    /\ pass[w].at = "post"
    /\ \/ /\ delivery' = [delivery EXCEPT ![Target[pass[w].cur]].hit = TRUE]
          /\ \/ Start(w, <<>>, "accepted")
             \/ "endpoint" \in Faulty /\ Start(w, <<>>, "refused")  \* the answer got lost
       \/ "endpoint" \in Faulty /\ Start(w, <<>>, "refused") /\ UNCHANGED delivery
    /\ UNCHANGED <<row, note, event, msg, mail, sub, skipped, cut, aborts>>

\* Mutant: a failed repeat clears delivered_at.
AttemptClears(d, r, ok) ==
    [d EXCEPT !.status = IF ok THEN "delivered" ELSE "failed", !.at = ok, !.by = r]

\* The upsert on (webhook_id, event_id): the latest attempt's status stands, whichever
\* outbox row it was for, and delivered_at stays once set.
Attempt(d, r, ok) ==
    [d EXCEPT !.status = IF ok THEN "delivered" ELSE "failed", !.at = @ \/ ok, !.by = r]

RecordAttempt(w) ==
    /\ pass[w].at \in {"accepted", "refused"}
    /\ LET ok == pass[w].at = "accepted"
           r  == pass[w].cur
       IN /\ delivery' = [delivery EXCEPT ![Target[r]] = Attempt(@, r, ok)]
          /\ Return(w, ~ok)
    /\ UNCHANGED <<row, note, event, msg, mail, sub, skipped, cut, aborts>>

\* The look-up, the secret, the check of the address or the record of the attempt fails.
DeliverFails(w) ==
    /\ "endpoint" \in Faulty /\ pass[w].at \in {"look", "post", "accepted", "refused"}
    /\ Return(w, TRUE)
    /\ UNCHANGED <<row, note, event, msg, mail, hooked, cut, aborts>>

-----------------------------------------------------------------------------
\* One pass goes on; what a drain loop does of itself, every two seconds.
Drain(w) ==
    \/ Claim(w) \/ TakeRow(w) \/ Commit(w)
    \/ \E u \in Users : InsertNote(w, u) \/ InsertMessage(w, u)
    \/ EmitEvent(w) \/ SendMail(w) \/ ChannelFails(w) \/ FanoutFails(w) \/ FanoutReturns(w)
    \/ LookUp(w) \/ Post(w) \/ RecordAttempt(w) \/ DeliverFails(w)

Next ==
    \/ \E r \in Rows : Enqueue(r) \/ BackoffElapses(r)
    \/ \E r \in Webhooks : EnqueueDelivery(r)
    \/ \E h \in Hooks : DeleteWebhook(h) \/ SwitchOff(h)
    \/ \E w \in Workers : Drain(w) \/ Abort(w)

Spec == Init /\ [][Next]_vars

\* The loops of live processes keep running, and time passes.
FairSpec ==
    /\ Spec
    /\ \A w \in Workers : WF_vars(Drain(w))
    /\ \A r \in Rows : WF_vars(BackoffElapses(r))

-----------------------------------------------------------------------------
(* Properties *)

RowState == [status: {"absent", "pending", "failed", "done", "dead"},
             attempts: 0..MaxRetries, due: BOOLEAN]

PassState == [held: SUBSET Rows, todo: SUBSET Rows, cur: Rows \cup {0},
              left: SUBSET (Users \X {"in_app", "email"}),
              at: {"none", "channel", "event", "mail", "look", "post", "accepted", "refused"},
              for: (Users \X {"in_app", "email"}) \cup {<<>>}, failed: SUBSET Rows]

DeliveryRow == [hit: BOOLEAN, status: {"none", "delivered", "failed"}, at: BOOLEAN,
                by: Webhooks \cup {0}]

TypeOK ==
    /\ row \in [Rows -> RowState]
    /\ pass \in [Workers -> PassState]
    /\ \A n \in note : n.row \in Fanouts /\ n.user \in Users
    /\ event \in [Pairs -> Nat]
    /\ msg \subseteq Pairs
    /\ mail \in [Pairs -> Nat]
    /\ sub \in [Hooks -> {"active", "inactive", "gone"}]
    /\ delivery \in [Targets -> DeliveryRow]
    /\ skipped \subseteq Webhooks
    /\ cut \subseteq Fanouts \X (Users \X {"in_app", "email"})
    /\ aborts \in 0..MaxAborts

\* Two passes never have the same row in hand (FOR UPDATE SKIP LOCKED), and what a
\* pass holds is not settled by another.
OnePassPerRow ==
    /\ \A v, w \in Workers : v # w => Held(v) \cap Held(w) = {}
    /\ \A w \in Workers : \A r \in Held(w) : row[r].status \in {"pending", "failed"}

\* However often a row is replayed, a user gets one notification, one event, one
\* message and one mail for it (delivery_row_id, the index on sys_message).
NoDuplicates ==
    \A p \in Pairs :
        /\ Cardinality({n \in note : n.row = p[1] /\ n.user = p[2]}) <= 1
        /\ event[p] <= 1
        /\ mail[p] <= 1

\* A row that is done has put what every effective channel of every recipient keeps
\* into its table, unless that channel failed, and what it sends, unless a pass died
\* between the two (the replay finds the row and sends nothing, although
\* notifications.rs says that "the companion event was emitted too"); a webhook row
\* that is done found its subscription inactive, or has reached the subscriber, whose
\* delivery has its delivered_at and reads "delivered" until an attempt for another
\* row of the event is recorded (drain_once, fanout, deliver).
DoneIsDelivered ==
    \A r \in Rows : row[r].status = "done" =>
        /\ r \in Fanouts => \A u \in Users : \A c \in Effective[u] \ Faulty :
              \/ /\ c = "in_app" /\ \E n \in note : n.row = r /\ n.user = u
                 /\ event[<<r, u>>] > 0 \/ <<r, <<u, c>>>> \in cut
              \/ /\ c = "email" /\ <<r, u>> \in msg
                 /\ mail[<<r, u>>] > 0 \/ <<r, <<u, c>>>> \in cut
        /\ r \in Webhooks \ skipped =>
              LET d == delivery[Target[r]] IN
              d.hit /\ d.at /\ (d.by = r => d.status = "delivered")

\* "done" and "dead" are final, and a row is never dead before MAX_RETRIES failed
\* passes nor waiting after them (drain_once).
SettledIsFinal ==
    [][\A r \in Rows :
        /\ row[r].status \in {"done", "dead"} => row'[r] = row[r]
        /\ row'[r].status = "dead" => row'[r].attempts = MaxRetries
        /\ row'[r].status = "failed" => row'[r].attempts < MaxRetries]_vars

\* No side-effect is stranded: every row ends up done or dead, as passes die only
\* so often ("a failure must never strand a side-effect", drain_once).
Settles == \A r \in Rows : row[r].status = "pending" ~> row[r].status \in {"done", "dead"}

\* What the drain promises to the rest of the system.
Promise == INSTANCE AtLeastOnce WITH
    Effects <- Users \X {"in_app", "email"},
    status  <- [r \in Rows |-> row[r].status],
    effects <- {<<n.row, <<n.user, "in_app">>>> : n \in note} \cup {<<p[1], <<p[2], "email">>>> : p \in msg}

PromiseKept == Promise!Spec
=============================================================================

---------------------------- MODULE Outbox_proofs ----------------------------
(***************************************************************************)
(* Proofs about Outbox, for every number of rows, recipients and drain     *)
(* loops and whatever fails: no row in two passes, no delivery twice, a    *)
(* row that is done was delivered, and the promise of AtLeastOnce is kept. *)
(***************************************************************************)
EXTENDS Outbox, FiniteSetTheorems, WellFoundedInduction, TLAPS

(* The inductive invariant: how far a pass has got with the rows it holds, and what *)
(* the tables of the deliveries say about it.                                       *)

\* A row is dead with its last attempt, and not before.
RowInv ==
    \A r \in Rows : IF row[r].status = "dead" THEN row[r].attempts = MaxRetries
                                              ELSE row[r].attempts < MaxRetries

\* A pass has the row in hand neither before it nor behind it, in the handler of its
\* kind, and an empty pass is none.
PassOK(p) ==
    /\ p.todo \subseteq p.held /\ p.failed \subseteq p.held /\ p.failed \cap p.todo = {}
    /\ p.cur = 0 <=> p.at = "none"
    /\ p.cur # 0 => p.cur \in p.held \ (p.todo \cup p.failed)
    /\ p.cur = 0 => p.left = {} /\ p.for = <<>>
    /\ p.at \in {"channel", "event", "mail"} => p.cur \in Fanouts
    /\ p.at \in {"look", "post", "accepted", "refused"} => p.cur \in Webhooks
    /\ p.at = "event" => p.for \in Users \X {"in_app"}
    /\ p.at = "mail"  => p.for \in Users \X {"email"}
    /\ p.held = {} => p = Idle
PassInv == \A w \in Workers : PassOK(pass[w])

NoteOf(p) == [id |-> DeliveryRowId(p[1], p[2]), row |-> p[1], user |-> p[2]]

\* The pass that has inserted the notification, or the message, of p and not yet sent
\* what goes with it.
InHand(w, p, at) == pass[w].at = at /\ pass[w].cur = p[1] /\ pass[w].for[1] = p[2]

\* A pass died between the two.
Cut(p, c) == <<p[1], <<p[2], c>>>> \in cut

\* What is sent is behind what is inserted: at most once, never without the row, and
\* not at all only while a pass is between the two, after a death there, or after a
\* failure of the channel.
EffectInv ==
    /\ note \subseteq {NoteOf(p) : p \in Pairs}
    /\ \A p \in Pairs :
           /\ event[p] <= 1 /\ (event[p] > 0 => NoteOf(p) \in note)
           /\ mail[p] <= 1  /\ (mail[p] > 0 => p \in msg)
           /\ \A w \in Workers :
                  /\ InHand(w, p, "event") => NoteOf(p) \in note /\ event[p] = 0
                  /\ InHand(w, p, "mail")  => p \in msg /\ mail[p] = 0
           /\ NoteOf(p) \in note =>
                  \/ event[p] > 0 \/ Cut(p, "in_app") \/ "in_app" \in Faulty
                  \/ \E w \in Workers : InHand(w, p, "event")
           /\ p \in msg =>
                  \/ mail[p] > 0 \/ Cut(p, "email") \/ "email" \in Faulty
                  \/ \E w \in Workers : InHand(w, p, "mail")

\* What DoneIsDelivered says of one channel of one recipient, and of one row.
Kept(r, u, c) ==
    \/ /\ c = "in_app" /\ \E n \in note : n.row = r /\ n.user = u
       /\ event[<<r, u>>] > 0 \/ Cut(<<r, u>>, c)
    \/ /\ c = "email" /\ <<r, u>> \in msg
       /\ mail[<<r, u>>] > 0 \/ Cut(<<r, u>>, c)

Delivered(r) ==
    /\ r \in Fanouts => \A u \in Users : \A c \in Effective[u] \ Faulty : Kept(r, u, c)
    /\ r \in Webhooks \ skipped =>
          LET d == delivery[Target[r]] IN
          d.hit /\ d.at /\ (d.by = r => d.status = "delivered")

\* A delivery is struck off the list when it is kept, a row is left when it is delivered
\* or has failed, and a row that is done was.
LoopInv(w) ==
    /\ pass[w].cur \in Fanouts =>
           \A u \in Users : \A c \in Effective[u] \ Faulty :
               <<u, c>> \in pass[w].left \/ Kept(pass[w].cur, u, c)
    /\ pass[w].at = "accepted" => delivery[Target[pass[w].cur]].hit
    /\ \A r \in pass[w].held \ (pass[w].todo \cup pass[w].failed) :
           r = pass[w].cur \/ Delivered(r)

DeliveryInv ==
    /\ \A w \in Workers : LoopInv(w)
    /\ \A r \in Rows : row[r].status = "done" => Delivered(r)

DrainInv == TypeOK /\ RowInv /\ PassInv /\ OnePassPerRow /\ EffectInv /\ DeliveryInv

-----------------------------------------------------------------------------
(* What the parts of an action do to a pass *)

\* Rows are numbered from one, so that zero is no row.
LEMMA RowsArePositive == 0 \notin Rows /\ Rows \subseteq Nat /\ Webhooks \subseteq Rows
BY RowsAssumption

\* The lowest of a non-empty set of rows is one of them.
LEMMA FirstRow ==
    ASSUME NEW S \in SUBSET Rows, S # {}
    PROVE  (CHOOSE x \in S : \A y \in S : x <= y) \in S
<1> DEFINE R == OpToRel(<, Nat)
<1>1. S \subseteq Nat
  BY RowsArePositive
<1>2. IsWellFoundedOn(R, Nat)
  BY NatLessThanWellFounded
<1>3. \A x, y \in Nat : x < y => <<x, y>> \in R
  BY DEF OpToRel
<1> HIDE DEF R
<1>4. PICK x \in S : \A y \in S : ~(<<y, x>> \in R)
  BY <1>1, <1>2, WFMin
<1>5. ASSUME NEW y \in S PROVE x <= y
  <2>1. x \in Nat /\ y \in Nat
    BY <1>1
  <2>2. ~(y < x)
    BY <1>3, <1>4, <2>1
  <2>3. QED
    BY <2>1, <2>2
<1>6. QED
  BY <1>5

\* An idle pass is a pass.
LEMMA IdleType == Idle \in PassState
BY DEF Idle, PassState

\* The fields of a pass after Start, NextDelivery and Return, and the other passes.
LEMMA StartFields ==
    ASSUME TypeOK, NEW w \in Workers, NEW d, NEW at, Start(w, d, at)
    PROVE  /\ pass'[w].held = pass[w].held /\ pass'[w].todo = pass[w].todo
           /\ pass'[w].cur = pass[w].cur   /\ pass'[w].left = pass[w].left
           /\ pass'[w].at = at             /\ pass'[w].for = d
           /\ pass'[w].failed = pass[w].failed
           /\ \A v \in Workers \ {w} : pass'[v] = pass[v]
           /\ d \in (Users \X {"in_app", "email"}) \cup {<<>>}
              /\ at \in {"none", "channel", "event", "mail", "look", "post", "accepted", "refused"}
              => pass' \in [Workers -> PassState]
<1>1. pass \in [Workers -> PassState] /\ pass[w] \in PassState
  BY DEF TypeOK
<1>2. pass' = [pass EXCEPT ![w] = [pass[w] EXCEPT !.at = at, !.for = d]]
  BY <1>1 DEF Start
<1>3. QED
  BY <1>1, <1>2 DEF PassState

\* What going on to the next delivery changes of a pass.
LEMMA NextFields ==
    ASSUME TypeOK, NEW w \in Workers, NEW d, NextDelivery(w, d)
    PROVE  /\ pass'[w].held = pass[w].held /\ pass'[w].todo = pass[w].todo
           /\ pass'[w].cur = pass[w].cur   /\ pass'[w].left = pass[w].left \ {d}
           /\ pass'[w].at = "channel"      /\ pass'[w].for = <<>>
           /\ pass'[w].failed = pass[w].failed
           /\ \A v \in Workers \ {w} : pass'[v] = pass[v]
           /\ pass' \in [Workers -> PassState]
<1>1. pass \in [Workers -> PassState] /\ pass[w] \in PassState
  BY DEF TypeOK
<1>2. pass' = [pass EXCEPT ![w] =
          [pass[w] EXCEPT !.at = "channel", !.for = <<>>, !.left = pass[w].left \ {d}]]
  BY <1>1 DEF NextDelivery
<1>3. QED
  BY <1>1, <1>2 DEF PassState

\* What the end of a dispatch changes of a pass.
LEMMA ReturnFields ==
    ASSUME TypeOK, NEW w \in Workers, NEW failed,
           \/ Return(w, TRUE)  /\ failed = pass[w].failed \cup {pass[w].cur}
           \/ Return(w, FALSE) /\ failed = pass[w].failed
    PROVE  /\ pass'[w].held = pass[w].held /\ pass'[w].todo = pass[w].todo
           /\ pass'[w].cur = 0             /\ pass'[w].left = {}
           /\ pass'[w].at = "none"         /\ pass'[w].for = <<>>
           /\ pass'[w].failed = failed
           /\ \A v \in Workers \ {w} : pass'[v] = pass[v]
           /\ pass[w].cur # 0 => pass' \in [Workers -> PassState]
<1>1. pass \in [Workers -> PassState] /\ pass[w] \in PassState
  BY DEF TypeOK
<1>2. pass' = [pass EXCEPT ![w] =
          [pass[w] EXCEPT !.cur = 0, !.left = {}, !.at = "none", !.for = <<>>,
                          !.failed = failed]]
  BY <1>1 DEF Return
<1>3. pass[w].cur # 0 => failed \in SUBSET Rows
  BY <1>1 DEF PassState
<1>4. QED
  BY <1>1, <1>2, <1>3 DEF PassState

\* What taking the next claimed row changes of a pass.
LEMMA TakeFields ==
    ASSUME TypeOK, PassInv, NEW w \in Workers, TakeRow(w)
    PROVE  \E r \in pass[w].todo :
           /\ pass'[w].held = pass[w].held /\ pass'[w].todo = pass[w].todo \ {r}
           /\ pass'[w].cur = r             /\ pass'[w].left = Dispatched(r).left
           /\ pass'[w].at = Dispatched(r).at /\ pass'[w].for = <<>>
           /\ pass'[w].failed = pass[w].failed
           /\ \A v \in Workers \ {w} : pass'[v] = pass[v]
           /\ pass' \in [Workers -> PassState]
<1> DEFINE r == CHOOSE x \in pass[w].todo : \A y \in pass[w].todo : x <= y
<1>1. r \in pass[w].todo /\ r \in Rows
  BY FirstRow DEF TakeRow, TypeOK, PassState
<1>2. Dispatched(r).left \subseteq Users \X {"in_app", "email"}
  BY ChannelAssumption DEF Dispatched
<1>3. Dispatched(r).at \in {"channel", "look"}
  BY DEF Dispatched
<1>4. /\ pass' = [pass EXCEPT ![w].cur = r, ![w].todo = @ \ {r},
                      ![w].at = Dispatched(r).at, ![w].left = Dispatched(r).left]
      /\ pass[w].for = <<>>
  BY DEF TakeRow, PassInv, PassOK
<1> HIDE DEF r
<1>5. QED
  BY <1>1, <1>2, <1>3, <1>4 DEF TypeOK, PassState

-----------------------------------------------------------------------------
(* Types and rows *)

\* Settling a row leaves it done, failed or, with its retries spent, dead.
LEMMA SettledRow ==
    ASSUME TypeOK, RowInv, NEW r \in Rows, row[r].status \in {"pending", "failed"},
           NEW new, new = Settled(r, TRUE) \/ new = Settled(r, FALSE)
    PROVE  /\ new \in RowState
           /\ new.status \in {"failed", "done", "dead"}
           /\ IF new.status = "dead" THEN new.attempts = MaxRetries
                                     ELSE new.attempts < MaxRetries
<1>1. /\ row[r] \in RowState /\ row[r].attempts \in Nat
      /\ row[r].attempts < MaxRetries /\ MaxRetries \in Nat
  BY LimitAssumption DEF TypeOK, RowInv, RowState
<1>2. CASE new = Settled(r, FALSE)
  BY <1>1, <1>2 DEF RowState, Settled
<1>3. CASE new = Settled(r, TRUE)
  BY <1>1, <1>3 DEF RowState, Settled
<1>4. QED
  BY <1>2, <1>3

\* What a pass takes into its hands is free and waiting.
LEMMA ClaimedRows ==
    /\ Claimed \subseteq Rows
    /\ \A r \in Claimed : /\ row[r].status \in {"pending", "failed"}
                          /\ \A w \in Workers : r \notin Held(w)
BY DEF Claimed, Claimable, Locked

\* Init is well typed.
LEMMA TypeInit == Init => TypeOK /\ RowInv
BY IdleType, LimitAssumption DEF Init, TypeOK, RowInv, RowState, DeliveryRow

\* Each step keeps the rows well formed.
LEMMA RowStep == TypeOK /\ RowInv /\ PassInv /\ OnePassPerRow /\ [Next]_vars => 
                 row' \in [Rows -> RowState] /\ RowInv'
<1> SUFFICES ASSUME TypeOK, RowInv, PassInv, OnePassPerRow, [Next]_vars
             PROVE  row' \in [Rows -> RowState] /\ RowInv'
  OBVIOUS
<1>1. ASSUME NEW r \in Rows, Enqueue(r) \/ EnqueueDelivery(r) \/ BackoffElapses(r)
      PROVE  row' \in [Rows -> RowState] /\ RowInv'
  <2>1. /\ row[r] \in RowState /\ row[r].status # "dead" /\ row[r].attempts < MaxRetries
        /\ row' = [row EXCEPT ![r] = [row[r] EXCEPT !.status = "pending"]]
           \/ row' = [row EXCEPT ![r] = [row[r] EXCEPT !.due = TRUE]]
    BY <1>1 DEF Enqueue, EnqueueDelivery, BackoffElapses, TypeOK, RowInv
  <2>2. PICK new \in RowState : /\ row' = [row EXCEPT ![r] = new]
                                /\ new.status # "dead" /\ new.attempts < MaxRetries
    BY <2>1 DEF RowState
  <2>3. QED
    BY <2>2 DEF TypeOK, RowInv
<1>2. ASSUME NEW w \in Workers, Commit(w)
      PROVE  row' \in [Rows -> RowState] /\ RowInv'
  <2>1. row' = [r \in Rows |-> IF r \in Held(w) THEN Settled(r, r \in pass[w].failed) ELSE row[r]]
    BY <1>2 DEF Commit
  <2>2. ASSUME NEW r \in Rows
        PROVE  /\ row'[r] \in RowState
               /\ IF row'[r].status = "dead" THEN row'[r].attempts = MaxRetries
                                             ELSE row'[r].attempts < MaxRetries
    <3>1. CASE r \in Held(w)
      <4>1. row'[r] = Settled(r, TRUE) \/ row'[r] = Settled(r, FALSE)
        BY <2>1, <3>1 DEF Settled
      <4>2. QED
        BY <3>1, <4>1, SettledRow DEF OnePassPerRow
    <3>2. CASE r \notin Held(w)
      BY <2>1, <3>2 DEF TypeOK, RowInv
    <3>3. QED
      BY <3>1, <3>2
  <2>3. QED
    BY <2>1, <2>2 DEF RowInv
<1>3. CASE row' = row
  BY <1>3 DEF TypeOK, RowInv
<1>4. \/ row' = row \/ \E w \in Workers : Commit(w)
      \/ \E r \in Rows : Enqueue(r) \/ EnqueueDelivery(r) \/ BackoffElapses(r)
  BY RowsArePositive DEF Next, Drain, DeleteWebhook, SwitchOff, Claim, TakeRow, Abort, InsertNote, EmitEvent,
         InsertMessage, SendMail, ChannelFails, FanoutFails, FanoutReturns, LookUp, Post,
         RecordAttempt, DeliverFails, vars
<1>5. QED
  BY <1>1, <1>2, <1>3, <1>4

-----------------------------------------------------------------------------
(* The shape of the passes *)

\* A drain loop that goes on with the rows it holds disturbs no other.
LEMMA OneLoop ==
    ASSUME PassInv, OnePassPerRow, NEW w \in Workers, row' = row,
           pass'[w].held = pass[w].held \/ pass'[w].held = {}, PassOK(pass'[w]),
           \A v \in Workers \ {w} : pass'[v] = pass[v]
    PROVE  PassInv' /\ OnePassPerRow'
<1>1. PassInv'
  BY DEF PassInv, PassOK
<1>2. \A v \in Workers : Held(v)' = Held(v) \/ Held(v)' = {}
  BY DEF Held
<1>3. OnePassPerRow'
  BY <1>2 DEF OnePassPerRow
<1>4. QED
  BY <1>1, <1>3

\* Each step keeps the passes well formed and exclusive.
LEMMA PassStep ==
    TypeOK /\ PassInv /\ OnePassPerRow /\ [Next]_vars =>
        pass' \in [Workers -> PassState] /\ PassInv' /\ OnePassPerRow'
<1> DEFINE Goal == pass' \in [Workers -> PassState] /\ PassInv' /\ OnePassPerRow'
<1> SUFFICES ASSUME TypeOK, PassInv, OnePassPerRow, [Next]_vars PROVE Goal
  OBVIOUS
<1>0. \A w \in Workers : pass[w] \in PassState /\ PassOK(pass[w])
  BY DEF TypeOK, PassInv
<1>1. CASE /\ pass' = pass
           /\ \A r \in Rows : \/ row'[r] = row[r]
                             \/ row[r].status = "absent"
                             \/ row'[r].status \in {"pending", "failed"}
  <2>1. \A w \in Workers : Held(w)' = Held(w) /\ Held(w) \subseteq Rows
    BY <1>0, <1>1 DEF Held, PassState
  <2>2. OnePassPerRow'
    BY <1>1, <2>1 DEF OnePassPerRow
  <2>3. QED
    BY <1>1, <2>2 DEF TypeOK, PassInv, PassOK
<1>2. ASSUME NEW w \in Workers, Claim(w)
      PROVE  Goal
  <2> DEFINE new == [Idle EXCEPT !.held = Claimed, !.todo = Claimed]
  <2>1. new \in PassState /\ PassOK(new) /\ new.held = Claimed
    BY <1>2, ClaimedRows DEF Claim, PassOK, PassState, Idle
  <2>2. pass' = [pass EXCEPT ![w] = new] /\ row' = row /\ pass[w].held = {}
    BY <1>2 DEF Claim, Idle
  <2>3. \A v \in Workers \ {w} : Held(v)' = Held(v) /\ Claimed \cap Held(v) = {}
    BY <1>0, <2>2, ClaimedRows DEF Held, TypeOK
  <2>4. Held(w)' = Claimed
    BY <1>0, <2>1, <2>2 DEF Held, TypeOK
  <2>5. OnePassPerRow'
    BY <2>2, <2>3, <2>4, ClaimedRows DEF OnePassPerRow
  <2>6. PassInv' /\ pass' \in [Workers -> PassState]
    BY <1>0, <2>1, <2>2 DEF TypeOK, PassInv, PassOK
  <2>7. QED
    BY <2>5, <2>6
<1>3. ASSUME NEW w \in Workers, TakeRow(w)
      PROVE  Goal
  <2>1. PICK r \in pass[w].todo :
           /\ pass'[w].held = pass[w].held /\ pass'[w].todo = pass[w].todo \ {r}
           /\ pass'[w].cur = r             /\ pass'[w].left = Dispatched(r).left
           /\ pass'[w].at = Dispatched(r).at /\ pass'[w].for = <<>>
           /\ pass'[w].failed = pass[w].failed
           /\ \A v \in Workers \ {w} : pass'[v] = pass[v]
           /\ pass' \in [Workers -> PassState]
    BY <1>3, TakeFields
  <2>2. r \in Rows /\ r # 0 /\ pass[w].held # {}
    BY <1>0, RowsArePositive DEF PassState, PassOK
  <2>3. Dispatched(r).at = IF r \in Webhooks THEN "look" ELSE "channel"
    BY DEF Dispatched
  <2>4. PassOK(pass'[w])
    BY <1>0, <2>1, <2>2, <2>3 DEF PassOK, Fanouts
  <2>5. row' = row
    BY <1>3 DEF TakeRow
  <2>6. QED
    BY <2>1, <2>4, <2>5, OneLoop
<1>4. ASSUME NEW w \in Workers, Commit(w) \/ Abort(w)
      PROVE  Goal
  <2>1. pass' = [pass EXCEPT ![w] = Idle]
    BY <1>4 DEF Commit, Abort
  <2>2. PassOK(Idle) /\ Idle.held = {}
    BY DEF PassOK, Idle
  <2>3. PassInv' /\ pass' \in [Workers -> PassState]
    BY <1>0, <2>1, <2>2, IdleType DEF PassInv, PassOK, TypeOK
  <2>4. Held(w)' = {} /\ \A v \in Workers \ {w} : Held(v)' = Held(v)
    BY <1>0, <2>1, <2>2 DEF Held, TypeOK
  <2>5. ASSUME NEW v \in Workers, NEW r \in Held(v)'
        PROVE  row'[r].status \in {"pending", "failed"}
    <3>1. v # w /\ r \in Held(v) /\ r \notin Held(w) /\ r \in Rows
      BY <1>0, <2>4, <2>5 DEF OnePassPerRow, Held, PassState
    <3>2. row'[r] = row[r]
      BY <1>4, <3>1 DEF Commit, Abort
    <3>3. QED
      BY <3>1, <3>2 DEF OnePassPerRow
  <2>6. OnePassPerRow'
    BY <2>4, <2>5 DEF OnePassPerRow
  <2>7. QED
    BY <2>3, <2>6
\* The steps of the handlers.
<1>5. ASSUME NEW w \in Workers, NEW d, NEW at, Start(w, d, at), row' = row,
             d \in (Users \X {"in_app", "email"}) \cup {<<>>},
             \/ at = "event" /\ d \in Users \X {"in_app"} /\ pass[w].at = "channel"
             \/ at = "mail" /\ d \in Users \X {"email"} /\ pass[w].at = "channel"
             \/ at = "post" /\ pass[w].at = "look"
             \/ at \in {"accepted", "refused"} /\ pass[w].at = "post"
      PROVE  Goal
  <2>1. PassOK(pass'[w]) /\ pass' \in [Workers -> PassState]
    BY <1>0, <1>5, StartFields DEF PassOK, Idle
  <2>2. QED
    BY <1>5, <2>1, StartFields, OneLoop
<1>6. ASSUME NEW w \in Workers, NEW d, NextDelivery(w, d), row' = row,
             pass[w].at \in {"channel", "event", "mail"}
      PROVE  Goal
  <2>1. PassOK(pass'[w])
    BY <1>0, <1>6, NextFields DEF PassOK, Idle
  <2>2. QED
    BY <1>6, <2>1, NextFields, OneLoop
<1>7. ASSUME NEW w \in Workers, Return(w, TRUE) \/ Return(w, FALSE), row' = row,
             pass[w].at # "none"
      PROVE  Goal
  <2>1. PICK failed :
            \/ Return(w, TRUE)  /\ failed = pass[w].failed \cup {pass[w].cur}
            \/ Return(w, FALSE) /\ failed = pass[w].failed
    BY <1>7
  <2>2. pass[w].cur # 0 /\ pass[w].cur \in pass[w].held \ pass[w].todo
    BY <1>0, <1>7 DEF PassOK
  <2>3. failed \subseteq pass[w].held /\ failed \cap pass[w].todo = {}
    BY <1>0, <2>1, <2>2 DEF PassOK
  <2>4. /\ pass'[w].held = pass[w].held /\ pass'[w].todo = pass[w].todo
        /\ pass'[w].cur = 0 /\ pass'[w].left = {} /\ pass'[w].at = "none"
        /\ pass'[w].for = <<>> /\ pass'[w].failed = failed
        /\ pass' \in [Workers -> PassState]
        /\ \A v \in Workers \ {w} : pass'[v] = pass[v]
    BY <2>1, <2>2, ReturnFields
  <2>5. PassOK(pass'[w])
    BY <1>0, <2>2, <2>3, <2>4 DEF PassOK
  <2>6. QED
    BY <1>7, <2>4, <2>5, OneLoop
<1>8. ASSUME NEW w \in Workers,
             \/ \E u \in Users : InsertNote(w, u) \/ InsertMessage(w, u)
             \/ EmitEvent(w) \/ SendMail(w) \/ ChannelFails(w)
      PROVE  Goal
  <2>1. ASSUME NEW u \in Users, InsertNote(w, u)
        PROVE  /\ row' = row /\ pass[w].at = "channel"
               /\ Start(w, <<u, "in_app">>, "event") \/ NextDelivery(w, <<u, "in_app">>)
    BY <2>1 DEF InsertNote
  <2>2. ASSUME NEW u \in Users, InsertMessage(w, u)
        PROVE  /\ row' = row /\ pass[w].at = "channel"
               /\ Start(w, <<u, "email">>, "mail") \/ NextDelivery(w, <<u, "email">>)
    BY <2>2 DEF InsertMessage
  <2>3. EmitEvent(w) \/ SendMail(w) \/ ChannelFails(w) =>
            /\ row' = row /\ pass[w].at \in {"channel", "event", "mail"}
            /\ \E d : NextDelivery(w, d)
    BY DEF EmitEvent, SendMail, ChannelFails
  <2>4. \A u \in Users : <<u, "in_app">> \in Users \X {"in_app"}
                         /\ <<u, "email">> \in Users \X {"email"}
    OBVIOUS
  <2>5. \A S : Users \X {S} \subseteq Users \X {"in_app", "email"} \/ S \notin {"in_app", "email"}
    OBVIOUS
  <2>6. QED
    BY <1>5, <1>6, <1>8, <2>1, <2>2, <2>3, <2>4, <2>5
<1>9. ASSUME NEW w \in Workers,
             \/ FanoutFails(w) \/ FanoutReturns(w) \/ LookUp(w) \/ Post(w)
             \/ RecordAttempt(w) \/ DeliverFails(w)
      PROVE  Goal
  <2>1. /\ row' = row
        /\ \/ pass[w].at # "none" /\ (Return(w, TRUE) \/ Return(w, FALSE))
           \/ pass[w].at = "look" /\ Start(w, <<>>, "post")
           \/ pass[w].at = "post" /\ (Start(w, <<>>, "accepted") \/ Start(w, <<>>, "refused"))
    BY <1>9 DEF FanoutFails, FanoutReturns, LookUp, Post, RecordAttempt, DeliverFails, Return
  <2>2. QED
    BY <1>5, <1>7, <2>1
<1>10. QED
  <2>1. CASE \E r \in Rows : Enqueue(r) \/ EnqueueDelivery(r) \/ BackoffElapses(r)
    <3>1. PICK r \in Rows : Enqueue(r) \/ EnqueueDelivery(r) \/ BackoffElapses(r)
      BY <2>1
    <3>2. /\ pass' = pass /\ \A x \in Rows \ {r} : row'[x] = row[x]
          /\ row[r].status = "absent" \/ row'[r].status = row[r].status
          /\ row[r].status \in {"absent", "failed"}
      BY <3>1 DEF Enqueue, EnqueueDelivery, BackoffElapses, TypeOK, RowState
    <3>3. QED
      BY <1>1, <3>2
  <2>2. CASE \E h \in Hooks : DeleteWebhook(h) \/ SwitchOff(h)
    BY <1>1, <2>2 DEF DeleteWebhook, SwitchOff
  <2>3. CASE UNCHANGED vars
    BY <1>1, <2>3 DEF vars
  <2>4. QED
    BY <1>2, <1>3, <1>4, <1>8, <1>9, <2>1, <2>2, <2>3, RowsArePositive DEF Next, Drain

-----------------------------------------------------------------------------
(* Deliveries happen once *)

EffectType ==
    /\ \A n \in note : n.row \in Fanouts /\ n.user \in Users
    /\ event \in [Pairs -> Nat] /\ msg \subseteq Pairs /\ mail \in [Pairs -> Nat]

\* Two loops are never at the same delivery.
LEMMA OneInHand ==
    ASSUME TypeOK, PassInv, OnePassPerRow, NEW v \in Workers, NEW w \in Workers, NEW p \in Pairs,
           NEW a \in {"event", "mail"}, NEW b \in {"event", "mail"},
           InHand(v, p, a), InHand(w, p, b)
    PROVE  v = w
<1>1. pass[v].cur \in Held(v) /\ pass[w].cur \in Held(w)
  BY DEF PassInv, PassOK, InHand, Held
<1>2. QED
  BY <1>1 DEF OnePassPerRow, InHand

\* The steps that insert and send nothing.
LEMMA QuietEffect ==
    ASSUME TypeOK, EffectInv, cut \subseteq cut',
           note' = note, event' = event, msg' = msg, mail' = mail,
           \A w \in Workers, p \in Pairs, at \in {"event", "mail"} :
               InHand(w, p, at)' => InHand(w, p, at),
           \A w \in Workers, p \in Pairs :
               /\ InHand(w, p, "event") =>
                      InHand(w, p, "event")' \/ Cut(p, "in_app")' \/ "in_app" \in Faulty
               /\ InHand(w, p, "mail") =>
                      InHand(w, p, "mail")' \/ Cut(p, "email")' \/ "email" \in Faulty
    PROVE  EffectInv' /\ EffectType'
<1>1. EffectType'
  BY DEF TypeOK, EffectType
<1>2. \A p, c : Cut(p, c) => Cut(p, c)'
  BY DEF Cut
<1>3. note' \subseteq {NoteOf(p) : p \in Pairs}
  BY DEF EffectInv
<1>4. ASSUME NEW p \in Pairs
      PROVE  /\ event'[p] <= 1 /\ (event'[p] > 0 => NoteOf(p) \in note')
             /\ mail'[p] <= 1  /\ (mail'[p] > 0 => p \in msg')
             /\ \A w \in Workers :
                    /\ InHand(w, p, "event")' => NoteOf(p) \in note' /\ event'[p] = 0
                    /\ InHand(w, p, "mail")'  => p \in msg' /\ mail'[p] = 0
             /\ NoteOf(p) \in note' =>
                    \/ event'[p] > 0 \/ Cut(p, "in_app")' \/ "in_app" \in Faulty
                    \/ \E w \in Workers : InHand(w, p, "event")'
             /\ p \in msg' =>
                    \/ mail'[p] > 0 \/ Cut(p, "email")' \/ "email" \in Faulty
                    \/ \E w \in Workers : InHand(w, p, "mail")'
  BY <1>2 DEF EffectInv
<1>5. \A p \in Pairs : NoteOf(p)' = NoteOf(p)
  BY DEF NoteOf, DeliveryRowId
<1>6. EffectInv'
  BY <1>3, <1>4, <1>5 DEF EffectInv
<1>7. QED
  BY <1>1, <1>6

\* A step that writes no effect keeps what the effects account for.
LEMMA QuietLoop ==
    ASSUME TypeOK, EffectInv, cut \subseteq cut', NEW w \in Workers,
           note' = note, event' = event, msg' = msg, mail' = mail,
           \A v \in Workers \ {w} : pass'[v] = pass[v],
           pass'[w].at \notin {"event", "mail"},
           pass[w].at = "event" => \/ "in_app" \in Faulty
                                   \/ \A p \in Pairs : InHand(w, p, "event") => Cut(p, "in_app")',
           pass[w].at = "mail"  => \/ "email" \in Faulty
                                   \/ \A p \in Pairs : InHand(w, p, "mail") => Cut(p, "email")'
    PROVE  EffectInv' /\ EffectType'
<1>1. \A v \in Workers \ {w}, p \in Pairs, at \in {"event", "mail"} :
          InHand(v, p, at)' <=> InHand(v, p, at)
  BY DEF InHand
<1>2. \A p \in Pairs, at \in {"event", "mail"} : ~InHand(w, p, at)'
  BY DEF InHand
<1>3. \A v \in Workers, p \in Pairs, at \in {"event", "mail"} :
          InHand(v, p, at)' => InHand(v, p, at)
  BY <1>1, <1>2
<1>4. \A p \in Pairs :
          /\ InHand(w, p, "event") => Cut(p, "in_app")' \/ "in_app" \in Faulty
          /\ InHand(w, p, "mail") => Cut(p, "email")' \/ "email" \in Faulty
  BY DEF InHand
<1>5. QED
  BY <1>1, <1>3, <1>4, QuietEffect

\* InsertNote and InsertMessage: the row is new, and nothing was sent for it.
LEMMA NoteStep ==
    ASSUME TypeOK, PassInv, OnePassPerRow, EffectInv, NEW w \in Workers, NEW u \in Users,
           InsertNote(w, u)
    PROVE  EffectInv' /\ EffectType'
<1> DEFINE r == pass[w].cur
           q == <<r, u>>
<1>1. /\ pass[w].at = "channel" /\ r \in Fanouts /\ q \in Pairs
      /\ event' = event /\ msg' = msg /\ mail' = mail /\ cut' = cut
  BY DEF InsertNote, PassInv, PassOK, Pairs, TypeOK
<1>2. CASE NextDelivery(w, <<u, "in_app">>) /\ note' = note
  <2>1. pass'[w].at = "channel" /\ \A v \in Workers \ {w} : pass'[v] = pass[v]
    BY <1>2, NextFields
  <2>2. QED
    BY <1>1, <1>2, <2>1, QuietLoop
<1>3. CASE /\ \A n \in note : n.id # DeliveryRowId(r, u)
           /\ note' = note \cup {NoteOf(q)}
           /\ Start(w, <<u, "in_app">>, "event")
  <2>1. NoteOf(q) \notin note /\ event[q] = 0
    BY <1>1, <1>3 DEF EffectInv, NoteOf, TypeOK
  <2>2. /\ pass'[w].at = "event" /\ pass'[w].cur = r /\ pass'[w].for = <<u, "in_app">>
        /\ \A v \in Workers \ {w} : pass'[v] = pass[v]
    BY <1>3, StartFields
  <2>3. \A p \in Pairs : /\ InHand(w, p, "event")' <=> p = q
                         /\ ~InHand(w, p, "mail")' /\ ~InHand(w, p, "event")
                         /\ ~InHand(w, p, "mail")
    BY <1>1, <2>2 DEF InHand, Pairs
  <2>4. \A v \in Workers \ {w}, p \in Pairs, at \in {"event", "mail"} :
            InHand(v, p, at)' <=> InHand(v, p, at)
    BY <2>2 DEF InHand
  <2>5. \A p \in Pairs : NoteOf(p)' = NoteOf(p) /\ (p # q => NoteOf(p) # NoteOf(q))
    BY <1>1 DEF NoteOf, DeliveryRowId, Pairs
  <2>6. EffectType'
    BY <1>1, <1>3 DEF TypeOK, EffectType, NoteOf, Pairs
  <2>7. note' \subseteq {NoteOf(p) : p \in Pairs}
    BY <1>1, <1>3 DEF EffectInv
  <2>8. ASSUME NEW p \in Pairs
        PROVE  /\ event'[p] <= 1 /\ (event'[p] > 0 => NoteOf(p) \in note')
               /\ mail'[p] <= 1  /\ (mail'[p] > 0 => p \in msg')
               /\ \A v \in Workers :
                      /\ InHand(v, p, "event")' => NoteOf(p) \in note' /\ event'[p] = 0
                      /\ InHand(v, p, "mail")'  => p \in msg' /\ mail'[p] = 0
               /\ NoteOf(p) \in note' =>
                      \/ event'[p] > 0 \/ Cut(p, "in_app")' \/ "in_app" \in Faulty
                      \/ \E v \in Workers : InHand(v, p, "event")'
               /\ p \in msg' =>
                      \/ mail'[p] > 0 \/ Cut(p, "email")' \/ "email" \in Faulty
                      \/ \E v \in Workers : InHand(v, p, "mail")'
    BY <1>1, <1>3, <2>1, <2>3, <2>4, <2>5 DEF EffectInv, Cut
  <2>9. EffectInv'
    BY <2>5, <2>7, <2>8 DEF EffectInv
  <2>10. QED
    BY <2>6, <2>9
<1>4. QED
  BY <1>2, <1>3 DEF InsertNote, NoteOf

\* The in-app row is written once, under its derived id.
LEMMA MessageStep ==
    ASSUME TypeOK, PassInv, OnePassPerRow, EffectInv, NEW w \in Workers, NEW u \in Users,
           InsertMessage(w, u)
    PROVE  EffectInv' /\ EffectType'
<1> DEFINE r == pass[w].cur
           q == <<r, u>>
<1>1. /\ pass[w].at = "channel" /\ r \in Fanouts /\ q \in Pairs
      /\ event' = event /\ note' = note /\ mail' = mail /\ cut' = cut
  BY DEF InsertMessage, PassInv, PassOK, Pairs, TypeOK
<1>2. CASE NextDelivery(w, <<u, "email">>) /\ msg' = msg
  <2>1. pass'[w].at = "channel" /\ \A v \in Workers \ {w} : pass'[v] = pass[v]
    BY <1>2, NextFields
  <2>2. QED
    BY <1>1, <1>2, <2>1, QuietLoop
<1>3. CASE q \notin msg /\ msg' = msg \cup {q} /\ Start(w, <<u, "email">>, "mail")
  <2>1. mail[q] = 0
    BY <1>1, <1>3 DEF EffectInv, TypeOK
  <2>2. /\ pass'[w].at = "mail" /\ pass'[w].cur = r /\ pass'[w].for = <<u, "email">>
        /\ \A v \in Workers \ {w} : pass'[v] = pass[v]
    BY <1>3, StartFields
  <2>3. \A p \in Pairs : /\ InHand(w, p, "mail")' <=> p = q
                         /\ ~InHand(w, p, "event")' /\ ~InHand(w, p, "event")
                         /\ ~InHand(w, p, "mail")
    BY <1>1, <2>2 DEF InHand, Pairs
  <2>4. \A v \in Workers \ {w}, p \in Pairs, at \in {"event", "mail"} :
            InHand(v, p, at)' <=> InHand(v, p, at)
    BY <2>2 DEF InHand
  <2>5. \A p \in Pairs : NoteOf(p)' = NoteOf(p)
    BY DEF NoteOf, DeliveryRowId
  <2>6. EffectType'
    BY <1>1, <1>3 DEF TypeOK, EffectType
  <2>7. ASSUME NEW p \in Pairs
        PROVE  /\ event'[p] <= 1 /\ (event'[p] > 0 => NoteOf(p) \in note')
               /\ mail'[p] <= 1  /\ (mail'[p] > 0 => p \in msg')
               /\ \A v \in Workers :
                      /\ InHand(v, p, "event")' => NoteOf(p) \in note' /\ event'[p] = 0
                      /\ InHand(v, p, "mail")'  => p \in msg' /\ mail'[p] = 0
               /\ NoteOf(p) \in note' =>
                      \/ event'[p] > 0 \/ Cut(p, "in_app")' \/ "in_app" \in Faulty
                      \/ \E v \in Workers : InHand(v, p, "event")'
               /\ p \in msg' =>
                      \/ mail'[p] > 0 \/ Cut(p, "email")' \/ "email" \in Faulty
                      \/ \E v \in Workers : InHand(v, p, "mail")'
    BY <1>1, <1>3, <2>1, <2>3, <2>4 DEF EffectInv, Cut
  <2>8. EffectInv'
    BY <1>1, <2>5, <2>7 DEF EffectInv
  <2>9. QED
    BY <2>6, <2>8
<1>4. QED
  BY <1>2, <1>3 DEF InsertMessage

\* EmitEvent and SendMail: no other loop is at the same delivery.
LEMMA SendStep ==
    ASSUME TypeOK, PassInv, OnePassPerRow, EffectInv, NEW w \in Workers,
           EmitEvent(w) \/ SendMail(w)
    PROVE  EffectInv' /\ EffectType'
<1> DEFINE q == <<pass[w].cur, pass[w].for[1]>>
<1>1. /\ q \in Pairs /\ NextDelivery(w, pass[w].for)
      /\ note' = note /\ msg' = msg /\ cut' = cut
  BY DEF EmitEvent, SendMail, PassInv, PassOK, Pairs, TypeOK
<1>2. pass'[w].at = "channel" /\ \A v \in Workers \ {w} : pass'[v] = pass[v]
  BY <1>1, NextFields
<1>3. \A p \in Pairs, at \in {"event", "mail"} :
          /\ ~InHand(w, p, at)'
          /\ InHand(w, p, at) => p = q
          /\ \A v \in Workers \ {w} : InHand(v, p, at)' <=> InHand(v, p, at)
  BY <1>1, <1>2 DEF InHand, Pairs
<1>4. \A p \in Pairs : NoteOf(p)' = NoteOf(p)
  BY DEF NoteOf, DeliveryRowId
<1>5. CASE EmitEvent(w)
  <2>1. InHand(w, q, "event") /\ ~InHand(w, q, "mail") /\ mail' = mail
        /\ event' = [event EXCEPT ![q] = @ + 1]
    BY <1>5 DEF EmitEvent, InHand
  <2>2. event[q] = 0 /\ NoteOf(q) \in note
    BY <1>1, <2>1 DEF EffectInv
  <2>3. \A v \in Workers \ {w} : ~InHand(v, q, "event")
    BY <1>1, <2>1, OneInHand
  <2>4. event'[q] = 1 /\ \A p \in Pairs \ {q} : event'[p] = event[p]
    BY <1>1, <2>1, <2>2 DEF TypeOK
  <2>5. ASSUME NEW p \in Pairs
        PROVE  /\ event'[p] <= 1 /\ (event'[p] > 0 => NoteOf(p) \in note')
               /\ mail'[p] <= 1  /\ (mail'[p] > 0 => p \in msg')
               /\ \A v \in Workers :
                      /\ InHand(v, p, "event")' => NoteOf(p) \in note' /\ event'[p] = 0
                      /\ InHand(v, p, "mail")'  => p \in msg' /\ mail'[p] = 0
               /\ NoteOf(p) \in note' =>
                      \/ event'[p] > 0 \/ Cut(p, "in_app")' \/ "in_app" \in Faulty
                      \/ \E v \in Workers : InHand(v, p, "event")'
               /\ p \in msg' =>
                      \/ mail'[p] > 0 \/ Cut(p, "email")' \/ "email" \in Faulty
                      \/ \E v \in Workers : InHand(v, p, "mail")'
    <3>1. CASE p = q
      BY <1>1, <1>3, <2>1, <2>2, <2>3, <2>4, <3>1 DEF EffectInv, Cut
    <3>2. CASE p # q
      BY <1>1, <1>3, <2>1, <2>4, <3>2 DEF EffectInv, Cut
    <3>3. QED
      BY <3>1, <3>2
  <2>6. EffectType' /\ note' \subseteq {NoteOf(p) : p \in Pairs}
    BY <1>1, <2>1 DEF TypeOK, EffectType, EffectInv
  <2>7. QED
    BY <1>4, <2>5, <2>6 DEF EffectInv
<1>6. CASE SendMail(w)
  <2>1. InHand(w, q, "mail") /\ ~InHand(w, q, "event") /\ event' = event
        /\ mail' = [mail EXCEPT ![q] = @ + 1]
    BY <1>6 DEF SendMail, InHand
  <2>2. mail[q] = 0 /\ q \in msg
    BY <1>1, <2>1 DEF EffectInv
  <2>3. \A v \in Workers \ {w} : ~InHand(v, q, "mail")
    BY <1>1, <2>1, OneInHand
  <2>4. mail'[q] = 1 /\ \A p \in Pairs \ {q} : mail'[p] = mail[p]
    BY <1>1, <2>1, <2>2 DEF TypeOK
  <2>5. ASSUME NEW p \in Pairs
        PROVE  /\ event'[p] <= 1 /\ (event'[p] > 0 => NoteOf(p) \in note')
               /\ mail'[p] <= 1  /\ (mail'[p] > 0 => p \in msg')
               /\ \A v \in Workers :
                      /\ InHand(v, p, "event")' => NoteOf(p) \in note' /\ event'[p] = 0
                      /\ InHand(v, p, "mail")'  => p \in msg' /\ mail'[p] = 0
               /\ NoteOf(p) \in note' =>
                      \/ event'[p] > 0 \/ Cut(p, "in_app")' \/ "in_app" \in Faulty
                      \/ \E v \in Workers : InHand(v, p, "event")'
               /\ p \in msg' =>
                      \/ mail'[p] > 0 \/ Cut(p, "email")' \/ "email" \in Faulty
                      \/ \E v \in Workers : InHand(v, p, "mail")'
    <3>1. CASE p = q
      BY <1>1, <1>3, <2>1, <2>2, <2>3, <2>4, <3>1 DEF EffectInv, Cut
    <3>2. CASE p # q
      BY <1>1, <1>3, <2>1, <2>4, <3>2 DEF EffectInv, Cut
    <3>3. QED
      BY <3>1, <3>2
  <2>6. EffectType' /\ note' \subseteq {NoteOf(p) : p \in Pairs}
    BY <1>1, <2>1 DEF TypeOK, EffectType, EffectInv
  <2>7. QED
    BY <1>4, <2>5, <2>6 DEF EffectInv
<1>7. QED
  BY <1>5, <1>6

\* Each step keeps what the effects account for.
LEMMA EffectStep ==
    TypeOK /\ PassInv /\ OnePassPerRow /\ EffectInv /\ [Next]_vars =>
        EffectInv' /\ EffectType' /\ aborts' \in 0..MaxAborts
<1> DEFINE Goal == EffectInv' /\ EffectType' /\ aborts' \in 0..MaxAborts
<1> SUFFICES ASSUME TypeOK, PassInv, OnePassPerRow, EffectInv, [Next]_vars PROVE Goal
  OBVIOUS
<1>0. aborts \in Nat /\ aborts \in 0..MaxAborts /\ MaxAborts \in Nat
  BY LimitAssumption DEF TypeOK
<1>1. CASE UNCHANGED <<pass, note, event, msg, mail, cut, aborts>>
  <2>1. \A w \in Workers, p \in Pairs, at \in {"event", "mail"} :
            InHand(w, p, at)' <=> InHand(w, p, at)
    BY <1>1 DEF InHand
  <2>2. QED
    BY <1>0, <1>1, <2>1, QuietEffect
<1>2. ASSUME NEW w \in Workers, Claim(w)
      PROVE  Goal
  <2>1. /\ pass'[w].at = "none" /\ pass[w].at = "none"
        /\ \A v \in Workers \ {w} : pass'[v] = pass[v]
        /\ UNCHANGED <<note, event, msg, mail, cut, aborts>>
    BY <1>2 DEF Claim, Idle, TypeOK
  <2>2. QED
    BY <1>0, <2>1, QuietLoop
<1>3. ASSUME NEW w \in Workers, TakeRow(w)
      PROVE  Goal
  <2>1. PICK r \in pass[w].todo : pass'[w].at = Dispatched(r).at
                                  /\ \A v \in Workers \ {w} : pass'[v] = pass[v]
    BY <1>3, TakeFields
  <2>2. pass[w].at = "none" /\ pass'[w].at \in {"look", "channel"}
        /\ UNCHANGED <<note, event, msg, mail, cut, aborts>>
    BY <1>3, <2>1 DEF TakeRow, PassInv, PassOK, Dispatched
  <2>3. QED
    BY <1>0, <2>1, <2>2, QuietLoop
<1>4. ASSUME NEW w \in Workers, Commit(w) \/ Abort(w)
      PROVE  Goal
  <2>1. /\ pass'[w].at = "none" /\ \A v \in Workers \ {w} : pass'[v] = pass[v]
        /\ UNCHANGED <<note, event, msg, mail>>
    BY <1>4 DEF Commit, Abort, Idle, TypeOK
  <2>2. aborts' \in 0..MaxAborts /\ cut \subseteq cut'
    BY <1>0, <1>4 DEF Commit, Abort
  <2>3. ASSUME pass[w].at \in {"event", "mail"}, NEW p \in Pairs,
               NEW c \in {"in_app", "email"}, pass[w].for[2] = c,
               pass[w].cur = p[1], pass[w].for[1] = p[2]
        PROVE  Cut(p, c)'
    <3>1. Abort(w) /\ pass[w].for = <<p[2], c>>
      BY <1>4, <2>3 DEF Commit, PassInv, PassOK
    <3>2. QED
      BY <2>3, <3>1 DEF Abort, CutOff, Cut
  <2>4. /\ pass[w].at = "event" => pass[w].for[2] = "in_app"
        /\ pass[w].at = "mail"  => pass[w].for[2] = "email"
    BY DEF PassInv, PassOK
  <2>5. /\ pass[w].at = "event" => \A p \in Pairs : InHand(w, p, "event") => Cut(p, "in_app")'
        /\ pass[w].at = "mail"  => \A p \in Pairs : InHand(w, p, "mail") => Cut(p, "email")'
    BY <2>3, <2>4 DEF InHand
  <2>6. QED
    BY <1>0, <2>1, <2>2, <2>5, QuietLoop
<1>5. ASSUME NEW w \in Workers, ChannelFails(w)
      PROVE  Goal
  <2>1. PICK d : NextDelivery(w, d)
    BY <1>5 DEF ChannelFails
  <2>2. /\ pass'[w].at = "channel" /\ \A v \in Workers \ {w} : pass'[v] = pass[v]
    BY <2>1, NextFields
  <2>3. /\ pass[w].at = "event" => "in_app" \in Faulty
        /\ pass[w].at = "mail" => "email" \in Faulty
        /\ UNCHANGED <<note, event, msg, mail, cut, aborts>>
    BY <1>5 DEF ChannelFails, PassInv, PassOK
  <2>4. QED
    BY <1>0, <2>2, <2>3, QuietLoop
<1>6. ASSUME NEW w \in Workers,
             \/ FanoutFails(w) \/ FanoutReturns(w) \/ LookUp(w) \/ Post(w)
             \/ RecordAttempt(w) \/ DeliverFails(w)
      PROVE  Goal
  <2>1. /\ \/ Return(w, TRUE) \/ Return(w, FALSE)
           \/ \E at \in {"post", "accepted", "refused"} : Start(w, <<>>, at)
        /\ pass[w].at \notin {"event", "mail"}
        /\ UNCHANGED <<note, event, msg, mail, cut, aborts>>
    BY <1>6 DEF FanoutFails, FanoutReturns, LookUp, Post, RecordAttempt, DeliverFails, Return
  <2>2. pass'[w].at \notin {"event", "mail"} /\ \A v \in Workers \ {w} : pass'[v] = pass[v]
    <3>1. CASE Return(w, TRUE) \/ Return(w, FALSE)
      BY <3>1, ReturnFields
    <3>2. CASE \E at \in {"post", "accepted", "refused"} : Start(w, <<>>, at)
      BY <3>2, StartFields
    <3>3. QED
      BY <2>1, <3>1, <3>2
  <2>3. QED
    BY <1>0, <2>1, <2>2, QuietLoop
<1>7. ASSUME NEW w \in Workers,
             \/ \E u \in Users : InsertNote(w, u) \/ InsertMessage(w, u)
             \/ EmitEvent(w) \/ SendMail(w)
      PROVE  Goal
  <2>1. aborts' = aborts
    BY <1>7 DEF InsertNote, InsertMessage, EmitEvent, SendMail
  <2>2. QED
    BY <1>0, <1>7, <2>1, NoteStep, MessageStep, SendStep
<1>8. QED
  <2>1. \/ \E r \in Rows : Enqueue(r) \/ BackoffElapses(r)
        \/ \E r \in Webhooks : EnqueueDelivery(r)
        \/ \E h \in Hooks : DeleteWebhook(h) \/ SwitchOff(h)
        \/ UNCHANGED vars
        => UNCHANGED <<pass, note, event, msg, mail, cut, aborts>>
    BY DEF Enqueue, EnqueueDelivery, BackoffElapses, DeleteWebhook, SwitchOff, vars
  <2>2. QED
    BY <1>1, <1>2, <1>3, <1>4, <1>5, <1>6, <1>7, <2>1 DEF Next, Drain

-----------------------------------------------------------------------------
(* What is done was delivered *)

HookType ==
    /\ sub \in [Hooks -> {"active", "inactive", "gone"}]
    /\ delivery \in [Targets -> DeliveryRow]
    /\ skipped \subseteq Webhooks
    /\ cut \subseteq Fanouts \X (Users \X {"in_app", "email"})

\* The tables of the deliveries only grow, and only the loop that has a webhook row in
\* hand records an attempt for it.
Grows ==
    /\ note \subseteq note' /\ msg \subseteq msg' /\ cut \subseteq cut' /\ skipped \subseteq skipped'
    /\ \A p \in Pairs : /\ event'[p] >= event[p] /\ event'[p] \in Nat
                        /\ mail'[p] >= mail[p]   /\ mail'[p] \in Nat
    /\ \A k \in Targets : /\ delivery[k].hit => delivery'[k].hit
                          /\ delivery[k].at => delivery'[k].at

\* An attempt for the row is recorded, and it is not the one that stood there.
Recorded(r) ==
    LET d == delivery[Target[r]]
        e == delivery'[Target[r]]
    IN e.by = r /\ (d.by # r \/ e.status # d.status)

\* Posting or recording an attempt changes one row of sys_webhook_delivery.
LEMMA OneDelivery ==
    ASSUME TypeOK, NEW k \in Targets, NEW new \in DeliveryRow,
           delivery' = [delivery EXCEPT ![k] = new],
           delivery[k].hit => new.hit, delivery[k].at => new.at
    PROVE  /\ delivery' \in [Targets -> DeliveryRow]
           /\ \A x \in Targets : /\ delivery[x].hit => delivery'[x].hit
                                 /\ delivery[x].at => delivery'[x].at
BY DEF TypeOK

\* Recording makes a row of the table of what is in hand.
LEMMA AttemptRow ==
    ASSUME TypeOK, NEW k \in Targets, NEW r \in Webhooks, NEW ok \in BOOLEAN
    PROVE  LET d == Attempt(delivery[k], r, ok) IN
           /\ d \in DeliveryRow /\ d.hit = delivery[k].hit /\ d.by = r
           /\ delivery[k].at => d.at
           /\ ok => d.at /\ d.status = "delivered"
<1>1. delivery[k] \in DeliveryRow
  BY DEF TypeOK
<1>2. QED
  BY <1>1 DEF Attempt, DeliveryRow

\* Effects are only added to, and an attempt is recorded by the pass that made it.
LEMMA GrowStep ==
    ASSUME TypeOK, PassInv, [Next]_vars
    PROVE  /\ Grows /\ HookType'
           /\ \A r \in Webhooks : Recorded(r) => \E w \in Workers : RecordAttempt(w) /\ pass[w].cur = r
<1> DEFINE Goal == /\ Grows /\ HookType'
                   /\ \A r \in Webhooks : Recorded(r) =>
                          \E w \in Workers : RecordAttempt(w) /\ pass[w].cur = r
<1>0. /\ event \in [Pairs -> Nat] /\ mail \in [Pairs -> Nat] /\ HookType
      /\ \A n \in Nat : n >= n /\ n + 1 >= n
      /\ \A r \in Webhooks : Target[r] \in Targets
  BY DEF TypeOK, HookType, Targets
<1>1. ASSUME NEW h \in Hooks, DeleteWebhook(h) \/ SwitchOff(h) PROVE Goal
  <2>1. /\ UNCHANGED <<note, event, msg, mail, delivery, skipped, cut>>
        /\ sub' \in [Hooks -> {"active", "inactive", "gone"}]
    BY <1>0, <1>1 DEF DeleteWebhook, SwitchOff, HookType
  <2>2. QED
    BY <1>0, <2>1 DEF Grows, Recorded, HookType
<1>2. ASSUME NEW w \in Workers, LookUp(w) PROVE Goal
  <2>1. pass[w].cur \in Webhooks /\ UNCHANGED <<note, event, msg, mail, sub, delivery, cut>>
    BY <1>2 DEF LookUp, PassInv, PassOK
  <2>2. skipped' = skipped \/ skipped' = skipped \cup {pass[w].cur}
    BY <1>2 DEF LookUp
  <2>3. QED
    BY <1>0, <2>1, <2>2 DEF Grows, Recorded, HookType
<1>3. ASSUME NEW w \in Workers, Post(w) PROVE Goal
  <2> DEFINE k   == Target[pass[w].cur]
             new == [delivery[k] EXCEPT !.hit = TRUE]
  <2>1. k \in Targets /\ UNCHANGED <<note, event, msg, mail, sub, skipped, cut>>
    BY <1>0, <1>3 DEF Post, PassInv, PassOK
  <2>2. CASE delivery' = delivery
    BY <1>0, <2>1, <2>2 DEF Grows, Recorded, HookType
  <2>3. CASE delivery' # delivery
    <3>1. delivery' = [delivery EXCEPT ![k] = new]
      BY <1>3, <2>3 DEF Post
    <3>2. /\ new \in DeliveryRow /\ new.hit = TRUE /\ new.at = delivery[k].at
          /\ new.by = delivery[k].by /\ new.status = delivery[k].status
      <4>1. delivery[k] \in DeliveryRow
        BY <1>0, <2>1 DEF HookType
      <4>2. QED
        BY <4>1 DEF DeliveryRow
    <3> HIDE DEF k, new
    <3>3. /\ delivery' \in [Targets -> DeliveryRow]
          /\ \A x \in Targets : /\ delivery[x].hit => delivery'[x].hit
                                /\ delivery[x].at => delivery'[x].at
      BY <2>1, <3>1, <3>2, OneDelivery
    <3>4. \A x \in Targets : delivery'[x].by = delivery[x].by /\ delivery'[x].status = delivery[x].status
      BY <1>0, <2>1, <3>1, <3>2 DEF HookType
    <3>5. QED
      BY <1>0, <2>1, <3>3, <3>4 DEF Grows, Recorded, HookType
  <2>4. QED
    BY <2>2, <2>3
<1>4. ASSUME NEW w \in Workers, RecordAttempt(w) PROVE Goal
  <2> DEFINE r   == pass[w].cur
             k   == Target[r]
             new == Attempt(delivery[k], r, pass[w].at = "accepted")
  <2>1. /\ r \in Webhooks /\ k \in Targets
        /\ UNCHANGED <<note, event, msg, mail, sub, skipped, cut>>
    BY <1>0, <1>4 DEF RecordAttempt, PassInv, PassOK
  <2>2. delivery' = [delivery EXCEPT ![k] = new]
    BY <1>4 DEF RecordAttempt
  <2>3. /\ new \in DeliveryRow /\ new.hit = delivery[k].hit /\ new.by = r
        /\ delivery[k].at => new.at
    BY <2>1, AttemptRow
  <2> HIDE DEF new
  <2>4. /\ delivery' \in [Targets -> DeliveryRow]
        /\ \A x \in Targets : /\ delivery[x].hit => delivery'[x].hit
                              /\ delivery[x].at => delivery'[x].at
    BY <2>1, <2>2, <2>3, OneDelivery
  <2>5. ASSUME NEW x \in Webhooks, Recorded(x) PROVE x = r
    <3>1. CASE Target[x] = k
      BY <1>0, <2>1, <2>2, <2>3, <2>5, <3>1 DEF Recorded, HookType
    <3>2. CASE Target[x] # k
      BY <1>0, <2>1, <2>2, <2>5, <3>2 DEF Recorded, HookType
    <3>3. QED
      BY <3>1, <3>2
  <2>6. QED
    BY <1>0, <1>4, <2>1, <2>4, <2>5 DEF Grows, HookType
<1>5. ASSUME NEW w \in Workers, NEW u \in Users, InsertNote(w, u) \/ InsertMessage(w, u)
      PROVE  Goal
  <2>1. /\ note \subseteq note' /\ msg \subseteq msg' /\ event' = event /\ mail' = mail
        /\ UNCHANGED <<sub, delivery, skipped, cut>>
    BY <1>5 DEF InsertNote, InsertMessage, hooked
  <2>2. QED
    BY <1>0, <2>1 DEF Grows, Recorded, HookType
<1>6. ASSUME NEW w \in Workers, EmitEvent(w) \/ SendMail(w) PROVE Goal
  <2>1. <<pass[w].cur, pass[w].for[1]>> \in Pairs
    BY <1>6 DEF EmitEvent, SendMail, PassInv, PassOK, Pairs
  <2>2. /\ UNCHANGED <<note, msg, sub, delivery, skipped, cut>>
        /\ \/ event' = [event EXCEPT ![<<pass[w].cur, pass[w].for[1]>>] = @ + 1] /\ mail' = mail
           \/ mail' = [mail EXCEPT ![<<pass[w].cur, pass[w].for[1]>>] = @ + 1] /\ event' = event
    BY <1>6 DEF EmitEvent, SendMail, hooked
  <2>3. QED
    BY <1>0, <2>1, <2>2 DEF Grows, Recorded, HookType
<1>7. ASSUME NEW w \in Workers, Abort(w) PROVE Goal
  <2>1. UNCHANGED <<note, event, msg, mail, sub, delivery, skipped>>
        /\ cut' = cut \cup CutOff(pass[w])
    BY <1>7 DEF Abort, hooked
  <2>2. CutOff(pass[w]) \subseteq Fanouts \X (Users \X {"in_app", "email"})
    BY DEF CutOff, PassInv, PassOK
  <2>3. QED
    BY <1>0, <2>1, <2>2 DEF Grows, Recorded, HookType
<1>8. CASE UNCHANGED <<note, event, msg, mail, hooked, cut>>
  BY <1>0, <1>8 DEF Grows, Recorded, HookType, hooked
<1>9. ASSUME NEW w \in Workers, Drain(w)
      PROVE  \/ \E u \in Users : InsertNote(w, u) \/ InsertMessage(w, u)
             \/ EmitEvent(w) \/ SendMail(w) \/ LookUp(w) \/ Post(w) \/ RecordAttempt(w)
             \/ UNCHANGED <<note, event, msg, mail, hooked, cut>>
  BY <1>9 DEF Drain, Claim, TakeRow, Commit, ChannelFails, FanoutFails, FanoutReturns,
              DeliverFails
<1>10. QED
  <2>1. \/ \E r \in Rows : Enqueue(r) \/ BackoffElapses(r)
        \/ \E r \in Webhooks : EnqueueDelivery(r)
        \/ UNCHANGED vars
        => UNCHANGED <<note, event, msg, mail, hooked, cut>>
    BY DEF Enqueue, EnqueueDelivery, BackoffElapses, vars
  <2>2. QED
    BY <1>1, <1>2, <1>3, <1>4, <1>5, <1>6, <1>7, <1>8, <1>9, <2>1 DEF Next

\* What is delivered stays delivered.
LEMMA DeliveredStays ==
    ASSUME TypeOK, Grows, NEW r \in Rows, Delivered(r), r \in Webhooks => ~Recorded(r)
    PROVE  Delivered(r)'
<1>1. \A p \in Pairs : /\ event[p] \in Nat /\ mail[p] \in Nat
                       /\ event[p] > 0 => event'[p] > 0
                       /\ mail[p] > 0 => mail'[p] > 0
  BY DEF TypeOK, Grows
<1>2. \A p, c : Cut(p, c) => Cut(p, c)'
  BY DEF Grows, Cut
<1>3. ASSUME NEW u \in Users, NEW c, Kept(r, u, c), r \in Fanouts PROVE Kept(r, u, c)'
  <2>1. <<r, u>> \in Pairs
    BY <1>3 DEF Pairs
  <2>2. QED
    BY <1>1, <1>2, <1>3, <2>1 DEF Kept, Grows
<1>4. ASSUME r \in Webhooks \ skipped'
      PROVE  LET e == delivery'[Target[r]] IN
             e.hit /\ e.at /\ (e.by = r => e.status = "delivered")
  <2>1. r \in Webhooks \ skipped /\ Target[r] \in Targets
    BY <1>4 DEF Grows, Targets
  <2>2. QED
    BY <2>1 DEF Delivered, Grows, Recorded
<1>5. QED
  BY <1>3, <1>4 DEF Delivered, Fanouts

\* A promise that is kept stays kept.
LEMMA KeptStays ==
    ASSUME TypeOK, Grows, NEW r \in Fanouts, NEW u \in Users, NEW c, Kept(r, u, c)
    PROVE  Kept(r, u, c)'
<1>1. <<r, u>> \in Pairs
  BY DEF Pairs
<1>2. /\ event[<<r, u>>] > 0 => event'[<<r, u>>] > 0
      /\ mail[<<r, u>>] > 0 => mail'[<<r, u>>] > 0
  BY <1>1 DEF TypeOK, Grows
<1>3. QED
  BY <1>2 DEF Kept, Grows, Cut

\* A step of loop w leaves what the others have delivered, and every row that is done.
LEMMA OthersDelivered ==
    ASSUME TypeOK, PassInv, OnePassPerRow, DeliveryInv, Grows, NEW w \in Workers,
           \A r \in Webhooks : Recorded(r) => pass[w].cur = r,
           \A v \in Workers \ {w} : pass'[v] = pass[v],
           LoopInv(w)',
           \A r \in Rows : row'[r].status = "done" => row[r].status = "done" \/ Delivered(r)'
    PROVE  DeliveryInv'
<1>0. \A v \in Workers : pass[v] \in PassState /\ PassOK(pass[v]) /\ Held(v) \subseteq Rows
  BY DEF TypeOK, PassInv, Held, PassState
<1>1. pass[w].cur # 0 => pass[w].cur \in Held(w)
  BY <1>0 DEF PassOK, Held
<1>2. \A r \in Webhooks : r # 0
  BY RowsArePositive
<1>3. ASSUME NEW v \in Workers \ {w} PROVE LoopInv(v)'
  <2>1. LoopInv(v) /\ pass'[v] = pass[v]
    BY DEF DeliveryInv
  <2>2. ASSUME NEW r \in pass[v].held \ (pass[v].todo \cup pass[v].failed), r # pass[v].cur
        PROVE  Delivered(r)'
    <3>1. Delivered(r) /\ r \in Held(v) /\ r \in Rows
      BY <1>0, <2>1, <2>2 DEF LoopInv, Held
    <3>2. r \in Webhooks => ~Recorded(r)
      BY <1>1, <1>2, <3>1 DEF OnePassPerRow
    <3>3. QED
      BY <3>1, <3>2, DeliveredStays
  <2>3. pass[v].at = "accepted" => delivery'[Target[pass[v].cur]].hit
    BY <1>0, <2>1 DEF LoopInv, Grows, PassOK, Targets
  <2>4. ASSUME pass[v].cur \in Fanouts, NEW u \in Users, NEW c \in Effective[u] \ Faulty
        PROVE  <<u, c>> \in pass[v].left \/ Kept(pass[v].cur, u, c)'
    BY <2>1, <2>4, KeptStays DEF LoopInv
  <2>5. QED
    BY <2>1, <2>2, <2>3, <2>4 DEF LoopInv
<1>4. ASSUME NEW r \in Rows, row'[r].status = "done" PROVE Delivered(r)'
  <2>1. CASE row[r].status = "done"
    <3>1. Delivered(r) /\ r \notin Held(w)
      BY <2>1 DEF DeliveryInv, OnePassPerRow
    <3>2. r \in Webhooks => ~Recorded(r)
      BY <1>1, <1>2, <3>1
    <3>3. QED
      BY <3>1, <3>2, DeliveredStays
  <2>2. QED
    BY <1>4, <2>1
<1>5. QED
  BY <1>3, <1>4 DEF DeliveryInv

\* The steps of a handler that strike off no delivery or one that is kept.
LEMMA HandlerDelivered ==
    ASSUME TypeOK, PassInv, OnePassPerRow, DeliveryInv, Grows, NEW w \in Workers,
           delivery' = delivery, row' = row, NEW d,
           \/ /\ NextDelivery(w, d) /\ pass[w].cur \in Fanouts
              /\ \A u \in Users, c \in {"in_app", "email"} :
                    d = <<u, c>> => c \in Faulty \/ Kept(pass[w].cur, u, c)'
           \/ \E at \in {"event", "mail"} : Start(w, d, at) /\ pass[w].cur \in Fanouts
    PROVE  DeliveryInv'
<1>1. /\ pass'[w].held = pass[w].held /\ pass'[w].todo = pass[w].todo
      /\ pass'[w].cur = pass[w].cur   /\ pass'[w].failed = pass[w].failed
      /\ pass'[w].at # "accepted"     /\ pass[w].left \ {d} \subseteq pass'[w].left
      /\ pass'[w].left = pass[w].left \/ NextDelivery(w, d)
      /\ \A v \in Workers \ {w} : pass'[v] = pass[v]
  BY StartFields, NextFields
<1>2. /\ LoopInv(w) /\ pass[w].cur \in Fanouts /\ pass[w].held \subseteq Rows
      /\ \A r \in Webhooks : ~Recorded(r)
  BY DEF DeliveryInv, Recorded, TypeOK, PassState
<1>3. ASSUME NEW u \in Users, NEW c \in Effective[u] \ Faulty
      PROVE  <<u, c>> \in pass'[w].left \/ Kept(pass[w].cur, u, c)'
  <2>1. c \in {"in_app", "email"}
    BY ChannelAssumption
  <2>2. CASE <<u, c>> \in pass[w].left
    BY <1>1, <1>3, <2>1, <2>2, NextFields, StartFields
  <2>3. CASE Kept(pass[w].cur, u, c)
    <3>1. PICK r \in Fanouts : r = pass[w].cur
      BY <1>2
    <3>2. Kept(r, u, c)'
      BY <2>3, <3>1, KeptStays
    <3>3. QED
      BY <1>1, <3>1, <3>2
  <2>4. QED
    BY <1>2, <2>2, <2>3 DEF LoopInv
<1>4. ASSUME NEW r \in pass[w].held \ (pass[w].todo \cup pass[w].failed), r # pass[w].cur
      PROVE  Delivered(r)'
  BY <1>2, <1>4, DeliveredStays DEF LoopInv
<1>5. LoopInv(w)'
  BY <1>1, <1>3, <1>4 DEF LoopInv
<1>6. QED
  BY <1>1, <1>2, <1>5, OthersDelivered

\* The handler of the row in hand returns without an error only when it is delivered.
LEMMA ReturnDelivered ==
    ASSUME TypeOK, PassInv, OnePassPerRow, DeliveryInv, Grows, NEW w \in Workers, row' = row,
           \A r \in Webhooks : Recorded(r) => pass[w].cur = r, pass[w].at # "none",
           NEW x, x = pass[w].cur, Return(w, TRUE) \/ (Return(w, FALSE) /\ Delivered(x)')
    PROVE  DeliveryInv'
<1>0. /\ pass[w] \in PassState /\ PassOK(pass[w]) /\ LoopInv(w)
      /\ pass[w].cur # 0 /\ pass[w].cur \in Rows
  BY DEF TypeOK, PassInv, PassOK, PassState, DeliveryInv
<1>1. PICK failed :
          \/ Return(w, TRUE)  /\ failed = pass[w].failed \cup {pass[w].cur}
          \/ Return(w, FALSE) /\ failed = pass[w].failed /\ Delivered(x)'
  OBVIOUS
<1>2. /\ pass'[w].held = pass[w].held /\ pass'[w].todo = pass[w].todo
      /\ pass'[w].cur = 0 /\ pass'[w].at = "none" /\ pass'[w].failed = failed
      /\ \A v \in Workers \ {w} : pass'[v] = pass[v]
  BY <1>1, ReturnFields
<1>3. ASSUME NEW r \in pass[w].held \ (pass[w].todo \cup failed)
      PROVE  Delivered(r)'
  <2>1. CASE r = pass[w].cur
    BY <1>1, <1>3, <2>1
  <2>2. CASE r # pass[w].cur
    <3>1. Delivered(r) /\ r \in Rows
      BY <1>0, <1>1, <1>3, <2>2 DEF LoopInv, PassState
    <3>2. QED
      BY <2>2, <3>1, DeliveredStays
  <2>3. QED
    BY <2>1, <2>2
<1>4. LoopInv(w)'
  BY <1>2, <1>3, RowsArePositive DEF LoopInv, Fanouts
<1>5. QED
  BY <1>2, <1>4, OthersDelivered

\* Each step keeps: what is done, or past in a pass, is delivered.
LEMMA DeliveryStep ==
    TypeOK /\ PassInv /\ OnePassPerRow /\ EffectInv /\ DeliveryInv /\ [Next]_vars => DeliveryInv'
<1> SUFFICES ASSUME TypeOK, PassInv, OnePassPerRow, EffectInv, DeliveryInv, [Next]_vars
             PROVE  DeliveryInv'
  OBVIOUS
<1>0. /\ Grows /\ 0 \notin Fanouts
      /\ \A r \in Webhooks : Recorded(r) => \E w \in Workers : RecordAttempt(w) /\ pass[w].cur = r
      /\ \A w \in Workers : pass[w] \in PassState /\ PassOK(pass[w]) /\ LoopInv(w)
  BY GrowStep, RowsArePositive DEF TypeOK, PassInv, DeliveryInv, Fanouts
<1>1. CASE /\ pass' = pass /\ \A r \in Webhooks : ~Recorded(r)
           /\ \A r \in Rows : row'[r].status = "done" => row[r].status = "done"
  <2>1. ASSUME NEW w \in Workers PROVE LoopInv(w)'
    <3>1. \A r \in pass[w].held : r \in Rows
      BY <1>0 DEF PassState
    <3>2. pass[w].at = "accepted" => delivery'[Target[pass[w].cur]].hit
      BY <1>0 DEF LoopInv, PassOK, Grows, Targets
    <3>3. ASSUME pass[w].cur \in Fanouts, NEW u \in Users, NEW c \in Effective[u] \ Faulty
          PROVE  <<u, c>> \in pass[w].left \/ Kept(pass[w].cur, u, c)'
      <4>1. PICK r \in Fanouts : r = pass[w].cur
        BY <3>3
      <4>2. Kept(r, u, c) => Kept(r, u, c)'
        BY <1>0, KeptStays
      <4>3. QED
        BY <1>0, <1>1, <4>1, <4>2 DEF LoopInv
    <3>4. QED
      BY <1>0, <1>1, <3>1, <3>2, <3>3, DeliveredStays DEF LoopInv
  <2>2. QED
    BY <1>0, <1>1, <2>1, DeliveredStays DEF DeliveryInv
<1>2. ASSUME NEW w \in Workers, Claim(w) PROVE DeliveryInv'
  <2>1. /\ pass'[w] = [Idle EXCEPT !.held = Claimed, !.todo = Claimed]
        /\ \A v \in Workers \ {w} : pass'[v] = pass[v]
        /\ row' = row /\ delivery' = delivery
    BY <1>2 DEF Claim, TypeOK, hooked
  <2>2. LoopInv(w)'
    BY <1>0, <2>1 DEF LoopInv, Idle
  <2>3. QED
    BY <1>0, <2>1, <2>2, OthersDelivered DEF Recorded
<1>3. ASSUME NEW w \in Workers, TakeRow(w) PROVE DeliveryInv'
  <2>1. PICK r \in pass[w].todo :
           /\ pass'[w].held = pass[w].held /\ pass'[w].todo = pass[w].todo \ {r}
           /\ pass'[w].cur = r             /\ pass'[w].left = Dispatched(r).left
           /\ pass'[w].at = Dispatched(r).at /\ pass'[w].failed = pass[w].failed
           /\ \A v \in Workers \ {w} : pass'[v] = pass[v]
    BY <1>3, TakeFields
  <2>2. row' = row /\ delivery' = delivery /\ pass[w].cur = 0 /\ pass[w].held \subseteq Rows
    BY <1>0, <1>3 DEF TakeRow, PassState, hooked
  <2>3. /\ pass'[w].at # "accepted"
        /\ r \in Fanouts => \A u \in Users : \A c \in Effective[u] : <<u, c>> \in pass'[w].left
    BY <2>1 DEF Dispatched, Fanouts
  <2>4. ASSUME NEW x \in pass[w].held \ (pass'[w].todo \cup pass[w].failed), x # r
        PROVE  Delivered(x)'
    <3>1. Delivered(x) /\ x \in Rows
      BY <1>0, <2>1, <2>2, <2>4, RowsArePositive DEF LoopInv
    <3>2. QED
      BY <1>0, <2>2, <3>1, DeliveredStays DEF Recorded
  <2>5. LoopInv(w)'
    BY <2>1, <2>3, <2>4 DEF LoopInv
  <2>6. QED
    BY <1>0, <2>1, <2>2, <2>5, OthersDelivered DEF Recorded
<1>4. ASSUME NEW w \in Workers, Commit(w) PROVE DeliveryInv'
  <2>1. /\ pass'[w] = Idle /\ \A v \in Workers \ {w} : pass'[v] = pass[v]
        /\ delivery' = delivery /\ pass[w].cur = 0 /\ pass[w].todo = {}
        /\ row' = [r \in Rows |-> IF r \in Held(w) THEN Settled(r, r \in pass[w].failed) ELSE row[r]]
    BY <1>4 DEF Commit, TypeOK, hooked
  <2>2. LoopInv(w)'
    BY <1>0, <2>1 DEF LoopInv, Idle
  <2>3. ASSUME NEW r \in Rows, row'[r].status = "done", row[r].status # "done"
        PROVE  Delivered(r)'
    <3>1. r \in Held(w) /\ r \notin pass[w].failed
      BY <2>1, <2>3 DEF Settled
    <3>2. Delivered(r)
      BY <1>0, <2>1, <3>1, RowsArePositive DEF LoopInv, Held
    <3>3. QED
      BY <1>0, <2>1, <3>2, DeliveredStays DEF Recorded
  <2>4. QED
    BY <1>0, <2>1, <2>2, <2>3, OthersDelivered DEF Recorded
<1>5. ASSUME NEW w \in Workers, Abort(w) PROVE DeliveryInv'
  <2>1. /\ pass'[w] = Idle /\ \A v \in Workers \ {w} : pass'[v] = pass[v]
        /\ row' = row /\ delivery' = delivery
    BY <1>5 DEF Abort, TypeOK, hooked
  <2>2. LoopInv(w)'
    BY <1>0, <2>1 DEF LoopInv, Idle
  <2>3. QED
    BY <1>0, <2>1, <2>2, OthersDelivered DEF Recorded
<1>6. ASSUME NEW w \in Workers, NEW u \in Users, InsertNote(w, u) PROVE DeliveryInv'
  <2> DEFINE r == pass[w].cur
  <2>1. row' = row /\ delivery' = delivery /\ r \in Fanouts /\ pass[w].at = "channel"
    BY <1>0, <1>6 DEF InsertNote, PassOK, hooked
  <2>2. CASE Start(w, <<u, "in_app">>, "event")
    BY <1>0, <2>1, <2>2, HandlerDelivered
  <2>3. CASE NextDelivery(w, <<u, "in_app">>) /\ note' = note /\ \E n \in note : n.id = DeliveryRowId(r, u)
    <3>1. PICK p \in Pairs : NoteOf(p) \in note /\ NoteOf(p).id = <<r, u>>
      BY <2>3 DEF EffectInv, DeliveryRowId
    <3>2. p = <<r, u>> /\ NoteOf(p).row = r /\ NoteOf(p).user = u
      BY <3>1 DEF NoteOf, DeliveryRowId, Pairs
    <3>3. \A v \in Workers : ~InHand(v, p, "event")
      <4>1. ASSUME NEW v \in Workers, InHand(v, p, "event") PROVE FALSE
        <5>1. v # w /\ r \in Held(v) /\ r \in Held(w)
          BY <1>0, <2>1, <3>2, <4>1, RowsArePositive DEF InHand, PassOK, Held, Fanouts
        <5>2. QED
          BY <5>1 DEF OnePassPerRow
      <4>2. QED
        BY <4>1
    <3>4. "in_app" \in Faulty \/ event[p] > 0 \/ Cut(p, "in_app")
      BY <3>1, <3>3 DEF EffectInv
    <3>5. "in_app" \in Faulty \/ Kept(r, u, "in_app")
      BY <3>1, <3>2, <3>4 DEF Kept
    <3>6. "in_app" \in Faulty \/ Kept(r, u, "in_app")'
      <4>1. PICK x \in Fanouts : x = r
        BY <2>1
      <4>2. Kept(x, u, "in_app") => Kept(x, u, "in_app")'
        BY <1>0, KeptStays
      <4>3. pass'[w].cur = x
        BY <2>3, <4>1, NextFields
      <4>4. QED
        BY <3>5, <4>1, <4>2, <4>3
    <3>7. QED
      BY <1>0, <2>1, <2>3, <3>6, HandlerDelivered
  <2>4. QED
    BY <1>6, <2>2, <2>3 DEF InsertNote
<1>7. ASSUME NEW w \in Workers, NEW u \in Users, InsertMessage(w, u) PROVE DeliveryInv'
  <2> DEFINE r == pass[w].cur
             p == <<r, u>>
  <2>1. row' = row /\ delivery' = delivery /\ r \in Fanouts /\ pass[w].at = "channel"
    BY <1>0, <1>7 DEF InsertMessage, PassOK, hooked
  <2>2. CASE Start(w, <<u, "email">>, "mail")
    BY <1>0, <2>1, <2>2, HandlerDelivered
  <2>3. CASE NextDelivery(w, <<u, "email">>) /\ p \in msg
    <3>1. \A v \in Workers : ~InHand(v, p, "mail")
      <4>1. ASSUME NEW v \in Workers, InHand(v, p, "mail") PROVE FALSE
        <5>1. v # w /\ r \in Held(v) /\ r \in Held(w)
          BY <1>0, <2>1, <4>1, RowsArePositive DEF InHand, PassOK, Held, Fanouts
        <5>2. QED
          BY <5>1 DEF OnePassPerRow
      <4>2. QED
        BY <4>1
    <3>2. p \in Pairs
      BY <2>1 DEF Pairs
    <3>3. "email" \in Faulty \/ mail[p] > 0 \/ Cut(p, "email")
      BY <2>3, <3>1, <3>2 DEF EffectInv
    <3>4. "email" \in Faulty \/ Kept(r, u, "email")
      BY <2>3, <3>3 DEF Kept
    <3>5. "email" \in Faulty \/ Kept(r, u, "email")'
      <4>1. PICK x \in Fanouts : x = r
        BY <2>1
      <4>2. Kept(x, u, "email") => Kept(x, u, "email")'
        BY <1>0, KeptStays
      <4>3. pass'[w].cur = x
        BY <2>3, <4>1, NextFields
      <4>4. QED
        BY <3>4, <4>1, <4>2, <4>3
    <3>6. QED
      BY <1>0, <2>1, <2>3, <3>5, HandlerDelivered
  <2>4. QED
    BY <1>7, <2>2, <2>3 DEF InsertMessage
<1>8. ASSUME NEW w \in Workers, EmitEvent(w) \/ SendMail(w) PROVE DeliveryInv'
  <2> DEFINE r == pass[w].cur
             p == <<r, pass[w].for[1]>>
  <2>1. /\ row' = row /\ delivery' = delivery /\ r \in Fanouts /\ p \in Pairs
        /\ NextDelivery(w, pass[w].for)
    BY <1>0, <1>8 DEF EmitEvent, SendMail, PassOK, Pairs, hooked
  <2>2. ASSUME NEW u \in Users, NEW c \in {"in_app", "email"}, pass[w].for = <<u, c>>
        PROVE  Kept(pass[w].cur, u, c)'
    <3>0. p = <<r, u>> /\ pass'[w].cur = r
      BY <2>1, <2>2, NextFields
    <3>1. CASE EmitEvent(w)
      <4>1. c = "in_app" /\ InHand(w, p, "event") /\ note' = note /\ event'[p] = event[p] + 1
        BY <1>0, <2>1, <2>2, <3>0, <3>1 DEF EmitEvent, PassOK, InHand, TypeOK
      <4>2. NoteOf(p) \in note /\ event[p] = 0 /\ NoteOf(p).row = r /\ NoteOf(p).user = u
        BY <2>1, <3>0, <4>1 DEF EffectInv, NoteOf
      <4>3. QED
        BY <3>0, <4>1, <4>2 DEF Kept
    <3>2. CASE SendMail(w)
      <4>1. c = "email" /\ InHand(w, p, "mail") /\ msg' = msg /\ mail'[p] = mail[p] + 1
        BY <1>0, <2>1, <2>2, <3>0, <3>2 DEF SendMail, PassOK, InHand, TypeOK
      <4>2. p \in msg /\ mail[p] = 0
        BY <2>1, <4>1 DEF EffectInv
      <4>3. QED
        BY <3>0, <4>1, <4>2 DEF Kept
    <3>3. QED
      BY <1>8, <3>1, <3>2
  <2>3. QED
    BY <1>0, <2>1, <2>2, HandlerDelivered
<1>9. ASSUME NEW w \in Workers, ChannelFails(w) PROVE DeliveryInv'
  <2>1. PICK d : /\ NextDelivery(w, d) /\ d[2] \in Faulty
                 /\ pass[w].at \in {"channel", "event", "mail"}
    BY <1>9 DEF ChannelFails
  <2>2. row' = row /\ delivery' = delivery /\ pass[w].cur \in Fanouts
    BY <1>0, <1>9, <2>1 DEF ChannelFails, PassOK, hooked
  <2>3. \A u \in Users, c \in {"in_app", "email"} : d = <<u, c>> => c \in Faulty
    BY <2>1
  <2>4. QED
    BY <1>0, <2>1, <2>2, <2>3, HandlerDelivered
<1>10. ASSUME NEW w \in Workers, FanoutFails(w) \/ DeliverFails(w)
       PROVE  DeliveryInv'
  <2>1. row' = row /\ delivery' = delivery /\ pass[w].at # "none" /\ Return(w, TRUE)
    BY <1>10 DEF FanoutFails, DeliverFails, hooked
  <2>2. QED
    BY <1>0, <2>1, ReturnDelivered DEF Recorded
<1>11. ASSUME NEW w \in Workers, FanoutReturns(w) PROVE DeliveryInv'
  <2>1. /\ row' = row /\ delivery' = delivery /\ pass[w].at = "channel" /\ Return(w, FALSE)
        /\ pass[w].left = {} /\ pass[w].cur \in Fanouts
    BY <1>0, <1>11 DEF FanoutReturns, PassOK, hooked
  <2>2. PICK r \in Fanouts : r = pass[w].cur
    BY <2>1
  <2>3. Delivered(r)
    BY <1>0, <2>1, <2>2 DEF LoopInv, Delivered, Fanouts
  <2>4. Delivered(r)'
    BY <1>0, <2>1, <2>3, DeliveredStays DEF Recorded, Fanouts
  <2>5. QED
    BY <1>0, <2>1, <2>2, <2>4, ReturnDelivered DEF Recorded
<1>12. ASSUME NEW w \in Workers, LookUp(w) PROVE DeliveryInv'
  <2>1. row' = row /\ delivery' = delivery /\ pass[w].cur \in Webhooks /\ pass[w].at = "look"
    BY <1>0, <1>12 DEF LookUp, PassOK
  <2>2. CASE Return(w, TRUE)
    BY <1>0, <2>1, <2>2, ReturnDelivered DEF Recorded
  <2>3. CASE Return(w, FALSE) /\ skipped' = skipped \cup {pass[w].cur}
    <3>1. PICK x \in Webhooks : x = pass[w].cur
      BY <2>1
    <3>2. Delivered(x)'
      BY <2>3, <3>1 DEF Delivered, Fanouts
    <3>3. QED
      BY <1>0, <2>1, <2>3, <3>1, <3>2, ReturnDelivered DEF Recorded
  <2>4. CASE Start(w, <<>>, "post")
    <3>1. /\ pass'[w].held = pass[w].held /\ pass'[w].todo = pass[w].todo
          /\ pass'[w].cur = pass[w].cur   /\ pass'[w].failed = pass[w].failed
          /\ pass'[w].at = "post" /\ \A v \in Workers \ {w} : pass'[v] = pass[v]
      BY <2>4, StartFields
    <3>2. pass[w].held \subseteq Rows /\ pass[w].cur \notin Fanouts /\ \A r \in Webhooks : ~Recorded(r)
      BY <1>0, <2>1 DEF PassState, Fanouts, Recorded
    <3>3. LoopInv(w)'
      BY <1>0, <3>1, <3>2, DeliveredStays DEF LoopInv
    <3>4. QED
      BY <1>0, <2>1, <3>1, <3>2, <3>3, OthersDelivered
  <2>5. QED
    BY <1>12, <2>2, <2>3, <2>4 DEF LookUp
<1>13. ASSUME NEW w \in Workers, Post(w) PROVE DeliveryInv'
  <2>1. PICK at \in {"accepted", "refused"} :
            /\ Start(w, <<>>, at)
            /\ at = "accepted" => delivery' = [delivery EXCEPT ![Target[pass[w].cur]].hit = TRUE]
    BY <1>13 DEF Post
  <2>2. pass[w].cur \in Webhooks /\ Target[pass[w].cur] \in Targets
    BY <1>0, <1>13 DEF Post, PassOK, Targets
  <2>3. /\ row' = row /\ pass[w].cur \notin Fanouts /\ pass[w].held \subseteq Rows
        /\ \A r \in Webhooks : ~Recorded(r)
    <3>1. ~\E v \in Workers : RecordAttempt(v)
      <4>1. ASSUME NEW v \in Workers, RecordAttempt(v) PROVE FALSE
        <5>1. \A x \in Workers : x # w => pass'[x] = pass[x]
          BY <2>1, StartFields
        <5>2. pass[v].at \in {"accepted", "refused"} /\ pass[w].at = "post"
              /\ (Return(v, TRUE) \/ Return(v, FALSE))
          BY <1>13, <4>1 DEF RecordAttempt, Post, Return
        <5>3. pass'[v].at = "none"
          BY <5>2, ReturnFields
        <5>4. QED
          BY <5>1, <5>2, <5>3
      <4>2. QED
        BY <4>1
    <3>2. QED
      BY <1>0, <1>13, <2>2, <3>1 DEF Post, PassState, Fanouts
  <2>4. /\ pass'[w].held = pass[w].held /\ pass'[w].todo = pass[w].todo
        /\ pass'[w].cur = pass[w].cur   /\ pass'[w].failed = pass[w].failed
        /\ pass'[w].at = at /\ \A v \in Workers \ {w} : pass'[v] = pass[v]
    BY <2>1, StartFields
  <2>5. at = "accepted" => delivery'[Target[pass[w].cur]].hit
    BY <2>1, <2>2 DEF TypeOK, DeliveryRow
  <2>6. LoopInv(w)'
    BY <1>0, <2>3, <2>4, <2>5, DeliveredStays DEF LoopInv
  <2>7. QED
    BY <1>0, <2>3, <2>4, <2>6, OthersDelivered
<1>14. ASSUME NEW w \in Workers, RecordAttempt(w) PROVE DeliveryInv'
  <2> DEFINE r == pass[w].cur
  <2>1. row' = row /\ r \in Webhooks /\ pass[w].at \in {"accepted", "refused"}
    BY <1>0, <1>14 DEF RecordAttempt, PassOK
  <2>2. \A x \in Webhooks : Recorded(x) => r = x
    <3>1. ASSUME NEW x \in Webhooks, Recorded(x) PROVE r = x
      <4>1. PICK v \in Workers : RecordAttempt(v) /\ pass[v].cur = x
        BY <1>0, <3>1
      <4>2. \/ Return(w, TRUE) \/ Return(w, FALSE)
        BY <1>14 DEF RecordAttempt, Return
      <4>3. \A z \in Workers \ {w} : pass'[z] = pass[z]
        <5>1. CASE Return(w, TRUE)
          BY <5>1, ReturnFields
        <5>2. CASE Return(w, FALSE)
          BY <5>2, ReturnFields
        <5>3. QED
          BY <4>2, <5>1, <5>2
      <4>4. \/ Return(v, TRUE) \/ Return(v, FALSE)
        BY <4>1 DEF RecordAttempt, Return
      <4>5. pass'[v].at = "none" /\ pass[v].at # "none"
        BY <4>1, <4>4, ReturnFields DEF RecordAttempt
      <4>6. QED
        BY <4>1, <4>3, <4>5
    <3>2. QED
      BY <3>1
  <2>3. CASE pass[w].at = "refused"
    <3>1. Return(w, TRUE)
      BY <1>14, <2>3 DEF RecordAttempt, Return
    <3>2. QED
      BY <1>0, <2>1, <2>2, <3>1, ReturnDelivered
  <2>4. CASE pass[w].at = "accepted"
    <3>1. /\ Return(w, FALSE)
          /\ delivery' = [delivery EXCEPT ![Target[r]] = Attempt(delivery[Target[r]], r, TRUE)]
      BY <1>14, <2>4 DEF RecordAttempt, Return
    <3>2. PICK x \in Webhooks : x = r
      BY <2>1
    <3>3. Target[x] \in Targets /\ delivery[Target[x]].hit
      BY <1>0, <2>4, <3>2 DEF LoopInv, Targets
    <3>4. delivery'[Target[x]] = Attempt(delivery[Target[x]], x, TRUE)
      BY <3>1, <3>2, <3>3 DEF TypeOK
    <3>5. /\ delivery'[Target[x]].hit /\ delivery'[Target[x]].at
          /\ delivery'[Target[x]].status = "delivered" /\ x \notin Fanouts
      <4> DEFINE d == Attempt(delivery[Target[x]], x, TRUE)
      <4>1. d.hit = delivery[Target[x]].hit /\ d.at /\ d.status = "delivered"
        BY <3>3, AttemptRow
      <4>2. QED
        BY <3>3, <3>4, <4>1 DEF Fanouts
    <3>6. Delivered(x)'
      BY <3>5 DEF Delivered
    <3>7. QED
      BY <1>0, <2>1, <2>2, <3>1, <3>2, <3>6, ReturnDelivered
  <2>5. QED
    BY <2>1, <2>3, <2>4
<1>15. QED
  <2>1. ASSUME NEW r \in Rows, Enqueue(r) \/ EnqueueDelivery(r) \/ BackoffElapses(r)
        PROVE  DeliveryInv'
    <3>1. /\ pass' = pass /\ delivery' = delivery
          /\ \A x \in Rows : row'[x].status = "done" => row[x].status = "done"
      BY <2>1 DEF Enqueue, EnqueueDelivery, BackoffElapses, TypeOK, RowState, hooked
    <3>2. QED
      BY <1>1, <3>1 DEF Recorded
  <2>2. ASSUME NEW h \in Hooks, DeleteWebhook(h) \/ SwitchOff(h) PROVE DeliveryInv'
    <3>1. pass' = pass /\ row' = row /\ \A x \in Webhooks : ~Recorded(x)
      BY <2>2 DEF DeleteWebhook, SwitchOff, Recorded
    <3>2. QED
      BY <1>1, <3>1
  <2>3. CASE UNCHANGED vars
    BY <1>1, <2>3 DEF vars, hooked, Recorded
  <2>4. QED
    BY <1>2, <1>3, <1>4, <1>5, <1>6, <1>7, <1>8, <1>9, <1>10, <1>11, <1>12, <1>13, <1>14,
       <2>1, <2>2, <2>3, RowsArePositive DEF Next, Drain

-----------------------------------------------------------------------------
(* The inductive invariant and what it gives *)

\* The invariant of the drain holds at first.
LEMMA InvInit == Init => DrainInv
<1> SUFFICES ASSUME Init PROVE DrainInv
  OBVIOUS
<1>1. TypeOK /\ RowInv
  BY TypeInit
<1>2. \A w \in Workers : pass[w] = Idle
  BY DEF Init
<1>3. PassInv /\ OnePassPerRow
  BY <1>2 DEF PassInv, PassOK, OnePassPerRow, Held, Idle
<1>4. EffectInv
  <2>1. \A p \in Pairs, w \in Workers : ~InHand(w, p, "event") /\ ~InHand(w, p, "mail")
    BY <1>2 DEF InHand, Idle
  <2>2. QED
    BY <2>1 DEF Init, EffectInv
<1>5. DeliveryInv
  <2>1. \A w \in Workers : LoopInv(w)
    BY <1>2, RowsArePositive DEF LoopInv, Idle, Fanouts
  <2>2. \A r \in Rows : row[r].status # "done"
    BY DEF Init
  <2>3. QED
    BY <2>1, <2>2 DEF DeliveryInv
<1>6. QED
  BY <1>1, <1>3, <1>4, <1>5 DEF DrainInv

\* Each step of the drain keeps its invariant.
LEMMA InvStep == DrainInv /\ [Next]_vars => DrainInv'
<1> SUFFICES ASSUME DrainInv, [Next]_vars PROVE DrainInv'
  OBVIOUS
<1>0. TypeOK /\ RowInv /\ PassInv /\ OnePassPerRow /\ EffectInv /\ DeliveryInv
  BY DEF DrainInv
<1>1. row' \in [Rows -> RowState] /\ RowInv'
  BY <1>0, RowStep
<1>2. pass' \in [Workers -> PassState] /\ PassInv' /\ OnePassPerRow'
  BY <1>0, PassStep
<1>3. EffectInv' /\ EffectType' /\ aborts' \in 0..MaxAborts
  BY <1>0, EffectStep
<1>4. HookType'
  BY <1>0, GrowStep
<1>5. DeliveryInv'
  BY <1>0, DeliveryStep
<1>6. \A n \in note' : n.row \in Fanouts /\ n.user \in Users
  BY <1>3 DEF EffectInv, NoteOf, Pairs
<1>7. TypeOK'
  BY <1>1, <1>2, <1>3, <1>4, <1>6 DEF TypeOK, EffectType, HookType
<1>8. QED
  BY <1>1, <1>2, <1>3, <1>5, <1>7 DEF DrainInv

\* However the loops interleave, crash and fail, the invariant holds: types, the shape
\* of the passes, and what rows and tables say of each other.
THEOREM DrainInvariant == Spec => []DrainInv
BY InvInit, InvStep, PTL DEF Spec

\* FOR UPDATE SKIP LOCKED: no row is in the hands of two passes, and what a pass holds
\* stays pending or failed until it commits (drain_once).
THEOREM RowsAreExclusive == Spec => []OnePassPerRow
<1>1. DrainInv => OnePassPerRow
  BY DEF DrainInv
<1>2. QED
  BY <1>1, DrainInvariant, PTL

\* However often a row is replayed, a recipient gets one notification, one event, one
\* message and one mail for it (delivery_row_id, the index on sys_message).
THEOREM EffectsHappenOnce == Spec => []NoDuplicates
<1>1. ASSUME DrainInv, NEW p \in Pairs
      PROVE  Cardinality({n \in note : n.row = p[1] /\ n.user = p[2]}) <= 1
  <2> DEFINE S == {n \in note : n.row = p[1] /\ n.user = p[2]}
  <2>1. S \subseteq {NoteOf(p)}
    BY <1>1 DEF DrainInv, EffectInv, NoteOf, Pairs
  <2> HIDE DEF S
  <2>2. IsFiniteSet({NoteOf(p)}) /\ Cardinality({NoteOf(p)}) = 1
    BY FS_Singleton
  <2>3. Cardinality(S) <= 1
    BY <2>1, <2>2, FS_Subset
  <2>4. QED
    BY <2>3 DEF S
<1>2. DrainInv => NoDuplicates
  BY <1>1 DEF NoDuplicates, DrainInv, EffectInv
<1>3. QED
  BY <1>2, DrainInvariant, PTL

\* A row is marked done only when every channel that did not fail has kept what it
\* should, and sent it unless a pass died in between, and a webhook row only when its
\* subscription is inactive or the subscriber was reached (drain_once, deliver).
THEOREM DoneMeansDelivered == Spec => []DoneIsDelivered
<1>1. ASSUME DeliveryInv PROVE DoneIsDelivered
  BY <1>1 DEF DoneIsDelivered, DeliveryInv, Delivered, Kept, Cut
<1>2. DrainInv => DoneIsDelivered
  BY <1>1 DEF DrainInv
<1>3. QED
  BY <1>2, DrainInvariant, PTL

-----------------------------------------------------------------------------
(* What a step may do to a row *)

\* A row changes when it is enqueued, when its backoff elapses, or at the commit of the
\* pass that holds it.
LEMMA RowChanges ==
    ASSUME [Next]_vars
    PROVE  \/ row' = row
           \/ \E r \in Rows : Enqueue(r) \/ EnqueueDelivery(r) \/ BackoffElapses(r)
           \/ \E w \in Workers : Commit(w)
BY RowsArePositive DEF Next, Drain, DeleteWebhook, SwitchOff, Claim, TakeRow, Abort, InsertNote, EmitEvent,
       InsertMessage, SendMail, ChannelFails, FanoutFails, FanoutReturns, LookUp, Post,
       RecordAttempt, DeliverFails, vars

\* No step of any loop moves a row out of done or dead, and a row dies of its last
\* attempt, neither before nor after (drain_once).
THEOREM SettledForGood == Spec => SettledIsFinal
<1> DEFINE Final ==
        \A r \in Rows :
            /\ row[r].status \in {"done", "dead"} => row'[r] = row[r]
            /\ row'[r].status = "dead" => row'[r].attempts = MaxRetries
            /\ row'[r].status = "failed" => row'[r].attempts < MaxRetries
<1>1. ASSUME DrainInv, [Next]_vars PROVE Final
  <2>1. RowInv'
    BY <1>1, InvStep DEF DrainInv
  <2>2. ASSUME NEW r \in Rows, row[r].status \in {"done", "dead"}
        PROVE  row'[r] = row[r]
    <3>1. CASE \E x \in Rows : Enqueue(x) \/ EnqueueDelivery(x) \/ BackoffElapses(x)
      BY <1>1, <2>2, <3>1 DEF Enqueue, EnqueueDelivery, BackoffElapses, DrainInv, TypeOK
    <3>2. ASSUME NEW w \in Workers, Commit(w) PROVE row'[r] = row[r]
      <4>1. r \notin Held(w)
        BY <1>1, <2>2 DEF DrainInv, OnePassPerRow
      <4>2. QED
        BY <3>2, <4>1 DEF Commit
    <3>3. QED
      BY <1>1, <3>1, <3>2, RowChanges
  <2>3. QED
    BY <2>1, <2>2 DEF RowInv
<1>2. DrainInv /\ DrainInv' /\ [Next]_vars =>
      [\A r \in Rows :
        /\ row[r].status \in {"done", "dead"} => row'[r] = row[r]
        /\ row'[r].status = "dead" => row'[r].attempts = MaxRetries
        /\ row'[r].status = "failed" => row'[r].attempts < MaxRetries]_vars
  BY <1>1
<1>3. QED
  BY <1>2, DrainInvariant, PTL DEF Spec, SettledIsFinal

-----------------------------------------------------------------------------
(* The refinement of AtLeastOnce *)

status  == [r \in Rows |-> row[r].status]
effects == {<<n.row, <<n.user, "in_app">>>> : n \in note}
           \cup {<<p[1], <<p[2], "email">>>> : p \in msg}

\* The abstract step a step of the drain stands for.
AbstractStep == Promise!Next \/ UNCHANGED <<status, effects>>

\* The initial states are those of the abstract specification.
LEMMA PromiseInit == Init => Promise!Init
BY DEF Init, Promise!Init

\* A notification, or a message, that was not there is an effect produced by a row
\* some pass holds.
LEMMA ProduceStep ==
    ASSUME DrainInv, NEW w \in Workers, NEW u \in Users, row' = row, pass[w].cur \in Fanouts,
           NEW c \in {"in_app", "email"},
           <<pass[w].cur, <<u, c>>>> \notin effects,
           effects' = effects \cup {<<pass[w].cur, <<u, c>>>>}
    PROVE  AbstractStep
<1>1. pass[w].cur \in Rows /\ pass[w].cur \in Held(w)
  BY RowsArePositive DEF DrainInv, PassInv, PassOK, Held, Fanouts
<1>2. row[pass[w].cur].status \in {"pending", "failed"}
  BY <1>1 DEF DrainInv, OnePassPerRow
<1>3. Promise!Produce(pass[w].cur, <<u, c>>)
  BY <1>1, <1>2 DEF Promise!Produce, Promise!Open, effects
<1>4. QED
  BY <1>1, <1>3 DEF AbstractStep, Promise!Next

\* Each step of the drain is a step of the abstract specification or a stutter.
LEMMA PromiseStep == DrainInv /\ [Next]_vars => AbstractStep
<1> SUFFICES ASSUME DrainInv, [Next]_vars PROVE AbstractStep
  OBVIOUS
<1>0. TypeOK /\ PassInv /\ OnePassPerRow /\ EffectInv
  BY DEF DrainInv
<1>1. CASE UNCHANGED <<row, note, msg>>
  BY <1>1 DEF AbstractStep, status, effects
<1>2. ASSUME NEW r \in Rows, Enqueue(r) \/ EnqueueDelivery(r) \/ BackoffElapses(r)
      PROVE  AbstractStep
  <2>1. effects' = effects
    BY <1>2 DEF Enqueue, EnqueueDelivery, BackoffElapses, effects
  <2>2. CASE Enqueue(r) \/ EnqueueDelivery(r)
    <3>1. status' = [status EXCEPT ![r] = "pending"] /\ status[r] = "absent"
      <4>1. row' = [row EXCEPT ![r] = [row[r] EXCEPT !.status = "pending"]]
            /\ row[r].status = "absent" /\ row \in [Rows -> RowState] /\ row[r] \in RowState
        BY <1>0, <2>2 DEF Enqueue, EnqueueDelivery, TypeOK
      <4> DEFINE new == [row[r] EXCEPT !.status = "pending"]
      <4>2. new.status = "pending"
        BY <4>1 DEF RowState
      <4> HIDE DEF new
      <4>3. row' = [row EXCEPT ![r] = new]
        BY <4>1 DEF new
      <4>4. QED
        BY <4>1, <4>2, <4>3 DEF status
    <3>2. QED
      BY <2>1, <3>1 DEF AbstractStep, Promise!Next, Promise!Enqueue, status, effects
  <2>3. CASE BackoffElapses(r)
    <3>1. status' = status
      BY <1>0, <2>3 DEF BackoffElapses, status, TypeOK, RowState
    <3>2. QED
      BY <2>1, <3>1 DEF AbstractStep
  <2>4. QED
    BY <1>2, <2>2, <2>3
<1>3. ASSUME NEW w \in Workers, Commit(w) PROVE AbstractStep
  <2> DEFINE outcome == [r \in Held(w) |-> row'[r].status]
  <2>1. /\ Held(w) \subseteq Rows /\ \A r \in Held(w) : row[r].status \in {"pending", "failed"}
        /\ row' = [r \in Rows |-> IF r \in Held(w) THEN Settled(r, r \in pass[w].failed)
                                                   ELSE row[r]]
        /\ UNCHANGED <<note, msg>>
    BY <1>0, <1>3 DEF Commit, OnePassPerRow, TypeOK, PassState, Held
  <2>2. \A r \in Held(w) : Settled(r, r \in pass[w].failed).status \in {"failed", "done", "dead"}
    <3>1. ASSUME NEW r \in Held(w)
          PROVE  /\ Settled(r, TRUE).status \in {"failed", "done", "dead"}
                 /\ Settled(r, FALSE).status \in {"failed", "done", "dead"}
      <4>1. row[r] \in RowState
        BY <1>0, <2>1 DEF TypeOK
      <4>2. QED
        BY <4>1 DEF Settled, RowState
    <3>2. QED
      BY <3>1 DEF Settled
  <2>3. outcome \in [Held(w) -> {"failed", "done", "dead"}]
    BY <2>1, <2>2
  <2>4. /\ Held(w) \in SUBSET {r \in Rows : status[r] \in {"pending", "failed"}}
        /\ status' = [r \in Rows |-> IF r \in Held(w) THEN outcome[r] ELSE status[r]]
        /\ effects' = effects
    BY <2>1 DEF status, effects
  <2>5. Promise!Settle
    BY <2>3, <2>4 DEF Promise!Settle, Promise!Open, status, effects
  <2>6. QED
    BY <2>5 DEF AbstractStep, Promise!Next
<1>4. ASSUME NEW w \in Workers, NEW u \in Users, InsertNote(w, u), note' # note
      PROVE  AbstractStep
  <2> DEFINE r == pass[w].cur
             n == NoteOf(<<r, u>>)
  <2>1. row' = row /\ msg' = msg /\ r \in Fanouts
    BY <1>0, <1>4 DEF InsertNote, PassInv, PassOK
  <2>2. n.id = DeliveryRowId(r, u) /\ n.row = r /\ n.user = u
    BY DEF NoteOf
  <2>3. note' = note \cup {n} /\ n \notin note
    BY <1>4 DEF InsertNote, NoteOf
  <2>4. \A x \in note : x.row = r /\ x.user = u => x = n
    BY <1>0 DEF EffectInv, NoteOf, Pairs
  <2>5. effects' = effects \cup {<<r, <<u, "in_app">>>>} /\ <<r, <<u, "in_app">>>> \notin effects
    BY <2>1, <2>2, <2>3, <2>4 DEF effects
  <2>6. QED
    BY <2>1, <2>5, ProduceStep
<1>5. ASSUME NEW w \in Workers, NEW u \in Users, InsertMessage(w, u), msg' # msg
      PROVE  AbstractStep
  <2> DEFINE r == pass[w].cur
             p == <<r, u>>
  <2>1. row' = row /\ note' = note /\ r \in Fanouts
    BY <1>0, <1>5 DEF InsertMessage, PassInv, PassOK
  <2>2. msg' = msg \cup {p} /\ p \notin msg
    BY <1>5 DEF InsertMessage
  <2>3. \A x \in msg : x = <<x[1], x[2]>>
    BY <1>0 DEF TypeOK, Pairs
  <2>4. effects' = effects \cup {<<r, <<u, "email">>>>} /\ <<r, <<u, "email">>>> \notin effects
    BY <2>1, <2>2, <2>3 DEF effects
  <2>5. QED
    BY <2>1, <2>4, ProduceStep
<1>6. /\ note' # note => \E w \in Workers, u \in Users : InsertNote(w, u)
      /\ msg' # msg   => \E w \in Workers, u \in Users : InsertMessage(w, u)
  <2>1. ASSUME NEW w \in Workers, Drain(w) \/ Abort(w)
        PROVE  /\ note' # note => \E u \in Users : InsertNote(w, u)
               /\ msg' # msg   => \E u \in Users : InsertMessage(w, u)
    BY <2>1 DEF Drain, Claim, TakeRow, Commit, Abort, InsertNote, EmitEvent, InsertMessage,
                SendMail, ChannelFails, FanoutFails, FanoutReturns, LookUp, Post,
                RecordAttempt, DeliverFails
  <2>2. ASSUME NEW r, \/ Enqueue(r) \/ EnqueueDelivery(r) \/ BackoffElapses(r)
                      \/ DeleteWebhook(r) \/ SwitchOff(r)
        PROVE  UNCHANGED <<note, msg>>
    BY <2>2 DEF Enqueue, EnqueueDelivery, BackoffElapses, DeleteWebhook, SwitchOff
  <2>3. QED
    BY <2>1, <2>2 DEF Next, vars
<1>7. QED
  BY <1>1, <1>2, <1>3, <1>4, <1>5, <1>6, RowChanges

\* The drain, with its loops, channels and crashes, implements AtLeastOnce: an effect
\* happens at most once, while its row is open, and what is settled stays settled.
THEOREM PromiseIsKept == Spec => PromiseKept
<1>1. DrainInv /\ [Next]_vars => [Promise!Next]_<<status, effects>>
  BY PromiseStep DEF AbstractStep
<1>2. QED
  BY <1>1, PromiseInit, DrainInvariant, PTL DEF Spec, PromiseKept, Promise!Spec, status, effects
=============================================================================

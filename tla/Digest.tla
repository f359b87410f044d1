-------------------------------- MODULE Digest --------------------------------
(***************************************************************************)
(* The digest sweep (mda-api/src/notifications.rs): unread notifications   *)
(* of one user and type are rolled into one summary.  A sweep is a single  *)
(* transaction; every replica runs one each minute, and an operator may    *)
(* run another.                                                            *)
(*                                                                         *)
(* A notification that is stamped disappears from the user's list          *)
(* (list_notifications: digested_at IS NULL); the summary stands for it.   *)
(***************************************************************************)
EXTENDS Naturals, FiniteSets

CONSTANTS
    Notes,     \* sys_notification ids
    Group,     \* for each its user and type, together
    Sweepers,  \* sweeps that may run at the same time
    MaxAborts  \* bound: sweeps that roll back

ASSUME SweepAssumption == MaxAborts \in Nat

Groups == {Group[n] : n \in Notes}

VARIABLES
    sys,      \* sys_notification: state of each row, and whether it is past the window
    summary,  \* the committed ".digest" notifications: the set each rolls up
    sweep,    \* each sweep's transaction
    aborts

digestVars == <<sys, summary, sweep, aborts>>

\* todo: the groups still to roll; ids: the batch read; mine: stamped, not committed.
NoSweep == [on |-> FALSE, todo |-> {}, cur |-> <<>>, ids |-> {}, mine |-> {}, sums |-> {}]

Pending(n) == sys[n].exists /\ ~sys[n].read /\ ~sys[n].stamped

StampedBy(w) == sweep[w].mine

\* A row another transaction has updated: an UPDATE of it waits for that one's end.
Busy(n, w) == \E v \in Sweepers \ {w} : n \in StampedBy(v)

-----------------------------------------------------------------------------
DigestInit ==
    /\ sys = [n \in Notes |-> [exists |-> FALSE, old |-> FALSE, read |-> FALSE,
                               stamped |-> FALSE]]
    /\ summary = {}
    /\ sweep = [w \in Sweepers |-> NoSweep]
    /\ aborts = 0

\* InAppChannel
Arrive(n) ==
    /\ ~sys[n].exists
    /\ sys' = [sys EXCEPT ![n].exists = TRUE]
    /\ UNCHANGED <<summary, sweep, aborts>>

\* DIGEST_WINDOW_SECS pass.
Age(n) ==
    /\ sys[n].exists /\ ~sys[n].old
    /\ sys' = [sys EXCEPT ![n].old = TRUE]
    /\ UNCHANGED <<summary, sweep, aborts>>

\* mark_read
MarkRead(n) ==
    /\ sys[n].exists /\ ~sys[n].read
    /\ \A w \in Sweepers : n \notin StampedBy(w)
    /\ sys' = [sys EXCEPT ![n].read = TRUE]
    /\ UNCHANGED <<summary, sweep, aborts>>

\* digest_tenant: the groups with more than one old pending notification.
Candidates ==
    {g \in Groups : Cardinality({n \in Notes : Group[n] = g /\ Pending(n) /\ sys[n].old}) > 1}

Begin(w) ==
    /\ sweep[w] = NoSweep /\ Candidates # {}
    /\ sweep' = [sweep EXCEPT ![w] = [NoSweep EXCEPT !.on = TRUE, !.todo = Candidates]]
    /\ UNCHANGED <<sys, summary, aborts>>

\* Mutant: the batch is read without the type.
AnyTypeBatch(w, g) == {n \in Notes : Pending(n) /\ n \notin StampedBy(w)}

Batch(w, g) == {n \in Notes : Group[n] = g /\ Pending(n) /\ n \notin StampedBy(w)}

\* Mutant: a batch of two is skipped.
Bigger(ids)    == Cardinality(ids) > 2

BigEnough(ids) == Cardinality(ids) >= 2

\* A statement of its own reads the batch: the pending ones of the group, old or new.
ReadIds(w, g) ==
    /\ g \in sweep[w].todo /\ sweep[w].cur = <<>>
    /\ LET ids == Batch(w, g) IN
       sweep' = [sweep EXCEPT ![w].todo = @ \ {g},
                              ![w].cur = IF BigEnough(ids) THEN <<g>> ELSE <<>>,
                              ![w].ids = IF BigEnough(ids) THEN ids ELSE {}]
    /\ UNCHANGED <<sys, summary, aborts>>

\* Mutants: the stamp lacks AND digested_at IS NULL; it asks for read_at IS NULL too.
StampAll(ids)    == ids
StampUnread(ids) == {n \in ids : ~sys[n].stamped /\ ~sys[n].read}

\* The rows the UPDATE flips.
Stampable(ids)  == {n \in ids : ~sys[n].stamped}

\* UPDATE ... SET digested_at, once no other transaction holds any of the rows;
\* then the INSERT of the summary if every row was flipped, or "continue" - the
\* stamps stay either way.
Stamp(w) ==
    /\ sweep[w].cur # <<>>
    /\ \A n \in sweep[w].ids : ~Busy(n, w)
    /\ LET ids     == sweep[w].ids
           claimed == Stampable(ids)
       IN sweep' = [sweep EXCEPT
              ![w].mine = @ \cup claimed,
              ![w].sums = IF claimed = ids THEN @ \cup {ids} ELSE @,
              ![w].cur = <<>>, ![w].ids = {}]
    /\ UNCHANGED <<sys, summary, aborts>>

Commit(w) ==
    /\ sweep[w].on /\ sweep[w].todo = {} /\ sweep[w].cur = <<>>
    /\ sys' = [n \in Notes |-> [sys[n] EXCEPT !.stamped = @ \/ n \in StampedBy(w)]]
    /\ summary' = summary \cup sweep[w].sums
    /\ sweep' = [sweep EXCEPT ![w] = NoSweep]
    /\ UNCHANGED aborts

\* An error, a lock cycle the database breaks, or the end of the process.
Rollback(w) ==
    /\ sweep[w].on /\ aborts < MaxAborts
    /\ sweep' = [sweep EXCEPT ![w] = NoSweep]
    /\ aborts' = aborts + 1
    /\ UNCHANGED <<sys, summary>>

Sweep(w) == Begin(w) \/ (\E g \in Groups : ReadIds(w, g)) \/ Stamp(w) \/ Commit(w)

DigestNext ==
    \/ \E n \in Notes : Arrive(n) \/ Age(n) \/ MarkRead(n)
    \/ \E w \in Sweepers : Sweep(w) \/ Rollback(w)

DigestSpec == DigestInit /\ [][DigestNext]_digestVars

\* The tick of each sweep keeps coming, and time passes.
DigestFairSpec ==
    /\ DigestSpec
    /\ \A w \in Sweepers : WF_digestVars(Sweep(w))
    /\ \A n \in Notes : WF_digestVars(Age(n))

-----------------------------------------------------------------------------
(* Properties *)

DigestTypeOK ==
    /\ sys \in [Notes -> [exists: BOOLEAN, old: BOOLEAN, read: BOOLEAN, stamped: BOOLEAN]]
    /\ summary \subseteq SUBSET Notes
    /\ sweep \in [Sweepers -> [on: BOOLEAN, todo: SUBSET Groups, cur: {<<>>} \cup {<<g>> : g \in Groups},
                               ids: SUBSET Notes, mine: SUBSET Notes,
                               sums: SUBSET SUBSET Notes]]
    /\ \A w \in Sweepers, n \in Notes : n \in sweep[w].ids => sweep[w].cur = <<Group[n]>>
    /\ aborts \in 0..MaxAborts

\* No notification is counted in two summaries, and each summary rolls up at least
\* two of one group, all of them stamped (digest_tenant, sweeps racing included).
OneSummaryEach ==
    /\ \A s, t \in summary : s # t => s \cap t = {}
    /\ \A s \in summary : /\ Cardinality(s) >= 2
                          /\ \A m, n \in s : Group[m] = Group[n] /\ sys[n].stamped

\* "a group is never half-rolled (summary without stamp or vice versa)": what the
\* list no longer shows, some summary counts.  One sweep alone keeps it; two refute it.
NothingHidden == \A n \in Notes : sys[n].stamped => \E s \in summary : n \in s

\* A storm is rolled up: two old unread notifications of a group do not stay so for
\* ever (spawn_digest).
StormsEnd ==
    \A pair \in {p \in SUBSET Notes : Cardinality(p) = 2 /\ Cardinality({Group[n] : n \in p}) = 1} :
        (\A n \in pair : Pending(n) /\ sys[n].old) ~> \E n \in pair : ~Pending(n)
=============================================================================

------------------------------ MODULE Scheduler ------------------------------
(***************************************************************************)
(* Scheduled jobs (mda-api/src/schedules.rs).  Every server process runs a *)
(* worker that claims one due row at a time and advances its next_run in a *)
(* transaction of its own, then runs the job, then records the run.        *)
(* Administrators edit, delete and trigger schedules meanwhile.            *)
(*                                                                         *)
(* The slots of a cron expression are a set of instants.                   *)
(***************************************************************************)
EXTENDS Naturals, FiniteSets

CONSTANTS
    Schedules,   \* ids of sys_schedule
    Crons,       \* cron expressions
    Slots,       \* the instants each of them fires at
    Workers,     \* scheduler workers, and handlers of trigger requests
    Horizon,     \* bound: the last instant
    MaxEdits,    \* bound: PATCH, DELETE and trigger requests
    MaxCrashes,  \* bound: workers that die with a claimed slot
    Never        \* NULL next_run, and the body field that is absent

ScheduleRow == [cron: Crons, enabled: BOOLEAN, next: Nat \cup {Never},
                status: {"none", "running", "ok", "failed"}]

ASSUME SlotsAssumption ==
    /\ {Horizon, MaxEdits, MaxCrashes} \subseteq Nat
    /\ \A c \in Crons : Slots[c] \subseteq Nat
    /\ Never \notin Nat /\ Never \notin Crons /\ Never \notin BOOLEAN /\ Never \notin ScheduleRow

Times == 0..Horizon

VARIABLES
    now,
    sched,    \* sys_schedule; Never for a row that is not there
    job,      \* what each worker has claimed and not recorded
    patch,    \* the PATCH under way: the row it has read, then what it will write
    runs,     \* sys_schedule_run: rows of each schedule
    edits, crashes,
    fired,    \* history: how often the slot of each schedule was dispatched
    rewound   \* history: schedules whose next_run a PATCH that overlapped a claim has set
              \* to a slot at or below one that was dispatched

jobVars == <<now, sched, job, patch, runs, edits, crashes, fired, rewound>>

Exists(s) == sched[s] # Never
NoJob     == [on |-> "idle"]
NoPatch   == [on |-> "idle"]

\* Schedule::after(t).next(): strictly after t.
FirstAfter(cron, t) ==
    LET later == {u \in Slots[cron] : u > t}
    IN IF later = {} THEN Never ELSE CHOOSE u \in later : \A v \in later : u <= v

\* Mutant: the slot that is due fires again.
From(cron, t) ==
    LET later == {u \in Slots[cron] : u >= t}
    IN IF later = {} THEN Never ELSE CHOOSE u \in later : \A v \in later : u <= v

\* Mutant: the next slot is repeated.
SameSlot(row) == From(row.cron, row.next)

\* The next slot after the one claimed, however late the claim is.
NextSlot(row) == FirstAfter(row.cron, row.next)

\* Mutant: a slot is due at its instant only.
ArmedNow(row) == row.enabled /\ row.next # Never /\ row.next = now

Armed(row) == row.enabled /\ row.next # Never /\ row.next <= now

-----------------------------------------------------------------------------
JobsInit ==
    /\ now = 0
    /\ sched = [s \in Schedules |-> Never]
    /\ job = [w \in Workers |-> NoJob]
    /\ patch = NoPatch
    /\ runs = [s \in Schedules |-> 0]
    /\ edits = MaxEdits /\ crashes = MaxCrashes
    /\ fired = [s \in Schedules |-> [t \in Times |-> 0]]
    /\ rewound = {}

Passes ==
    /\ now < Horizon
    /\ now' = now + 1
    /\ UNCHANGED <<sched, job, patch, runs, edits, crashes, fired, rewound>>

\* create_schedule, before anything else happens: an id is used once.
Create(s, cron) ==
    /\ ~Exists(s) /\ now = 0 /\ edits = MaxEdits
    /\ sched' = [sched EXCEPT ![s] = [cron |-> cron, enabled |-> TRUE,
                                      next |-> FirstAfter(cron, now), status |-> "none"]]
    /\ UNCHANGED <<now, job, patch, runs, edits, crashes, fired, rewound>>

\* update_schedule: SELECT without a lock ...
PatchRead(s, cron, enabled) ==
    /\ patch = NoPatch /\ Exists(s) /\ edits > 0
    /\ patch' = [on |-> "read", id |-> s, row |-> sched[s], cron |-> cron,
                 enabled |-> enabled]
    /\ edits' = edits - 1
    /\ UNCHANGED <<now, sched, job, runs, crashes, fired, rewound>>

\* The next_run of an enabled schedule: armed anew when the body names a cron or the
\* row had none, else the one that was read.
Rearmed(old, cron) ==
    IF cron # Never \/ old.next = Never
    THEN FirstAfter(IF cron # Never THEN cron ELSE old.cron, now)
    ELSE old.next

\* ... the columns, computed at a time of its own ...
PatchCompute ==
    /\ patch.on = "read"
    /\ LET old == patch.row
           on  == IF patch.enabled = Never THEN old.enabled ELSE patch.enabled
       IN patch' = [on |-> "write", id |-> patch.id, was |-> old.next,
                    cron |-> IF patch.cron = Never THEN old.cron ELSE patch.cron,
                    enabled |-> on,
                    next |-> IF on THEN Rearmed(old, patch.cron) ELSE Never]
    /\ UNCHANGED <<now, sched, job, runs, edits, crashes, fired, rewound>>

\* A slot from t on has been dispatched.
DispatchedFrom(s, t) == t # Never /\ \E u \in Times : u >= t /\ fired[s][u] > 0

\* ... then UPDATE of all of them.
PatchWrite ==
    /\ patch.on = "write"
    /\ LET s == patch.id IN
       IF ~Exists(s) THEN UNCHANGED <<sched, rewound>>
       ELSE /\ sched' = [sched EXCEPT ![s].cron = patch.cron, ![s].enabled = patch.enabled,
                                      ![s].next = patch.next]
            /\ rewound' = IF sched[s].next # patch.was /\ DispatchedFrom(s, patch.next)
                          THEN rewound \cup {s} ELSE rewound
    /\ patch' = NoPatch
    /\ UNCHANGED <<now, job, runs, edits, crashes, fired>>

\* delete_schedule; the runs go with it (ON DELETE CASCADE).
Delete(s) ==
    /\ Exists(s) /\ edits > 0
    /\ edits' = edits - 1
    /\ sched' = [sched EXCEPT ![s] = Never]
    /\ runs' = [runs EXCEPT ![s] = 0]
    /\ UNCHANGED <<now, job, patch, crashes, fired, rewound>>

-----------------------------------------------------------------------------
(* tick *)

\* One due row, the earliest first, FOR UPDATE SKIP LOCKED; the claim commits before
\* the job starts.
Due(s) == Exists(s) /\ Armed(sched[s])

Claim(w, s) ==
    /\ job[w] = NoJob /\ Due(s)
    /\ \A r \in Schedules : Due(r) => sched[s].next <= sched[r].next
    /\ job' = [job EXCEPT ![w] = [on |-> "run", id |-> s]]
    /\ fired' = [fired EXCEPT ![s][sched[s].next] = @ + 1]
    /\ sched' = [sched EXCEPT ![s].status = "running", ![s].next = NextSlot(sched[s])]
    /\ UNCHANGED <<now, patch, runs, edits, crashes, rewound>>

\* trigger_schedule: out of cadence.
Trigger(w, s) ==
    /\ job[w] = NoJob /\ Exists(s) /\ edits > 0
    /\ job' = [job EXCEPT ![w] = [on |-> "run", id |-> s]]
    /\ edits' = edits - 1
    /\ UNCHANGED <<now, sched, patch, runs, crashes, fired, rewound>>

\* It fails without a running user, with one that was revoked, or when the report or
\* the pull fails.
Dispatch(w) ==
    /\ job[w].on = "run"
    /\ \E o \in {"ok", "failed"} :
           job' = [job EXCEPT ![w] = [on |-> "insert", id |-> @.id, outcome |-> o]]
    /\ UNCHANGED <<now, sched, patch, runs, edits, crashes, fired, rewound>>

\* record_run: the history row, refused when the schedule is gone ...
InsertRun(w) ==
    /\ job[w].on = "insert"
    /\ LET s == job[w].id IN
       runs' = [runs EXCEPT ![s] = IF Exists(s) THEN @ + 1 ELSE @]
    /\ job' = [job EXCEPT ![w].on = "status"]
    /\ UNCHANGED <<now, sched, patch, edits, crashes, fired, rewound>>

\* ... and the schedule's status.
SetStatus(w) ==
    /\ job[w].on = "status"
    /\ sched' = IF Exists(job[w].id) THEN [sched EXCEPT ![job[w].id].status = job[w].outcome]
                ELSE sched
    /\ job' = [job EXCEPT ![w] = NoJob]
    /\ UNCHANGED <<now, patch, runs, edits, crashes, fired, rewound>>

\* The process ends with a claimed slot.
Crash(w) ==
    /\ job[w] # NoJob /\ crashes > 0
    /\ job' = [job EXCEPT ![w] = NoJob]
    /\ crashes' = crashes - 1
    /\ UNCHANGED <<now, sched, patch, runs, edits, fired, rewound>>

Tick(w) == (\E s \in Schedules : Claim(w, s)) \/ Dispatch(w) \/ InsertRun(w) \/ SetStatus(w)

JobsNext ==
    \/ Passes \/ PatchCompute \/ PatchWrite
    \/ \E s \in Schedules :
          \/ \E c \in Crons : Create(s, c)
          \/ \E c \in Crons \cup {Never}, on \in BOOLEAN \cup {Never} : PatchRead(s, c, on)
          \/ Delete(s)
          \/ \E w \in Workers : Trigger(w, s)
    \/ \E w \in Workers : Tick(w) \/ Crash(w)

JobsSpec == JobsInit /\ [][JobsNext]_jobVars

\* Time passes, and each worker's tick keeps coming.
JobsFairSpec == JobsSpec /\ WF_jobVars(Passes) /\ \A w \in Workers : WF_jobVars(Tick(w))

-----------------------------------------------------------------------------
(* Properties *)

\* A slot of a schedule is dispatched once, whatever workers tick at once and
\* however late: twice only after a PATCH that overlapped a claim wrote a next_run that
\* it had read or computed before it (tick, "multi-instance safe"; update_schedule).  A
\* run that ends late leaves no history of a schedule that is gone.
OncePerSlot ==
    \A s \in Schedules : /\ \A t \in Times : fired[s][t] > 1 => s \in rewound
                         /\ runs[s] > 0 => Exists(s)

\* A due slot is dispatched, unless the schedule is edited or deleted first; and a
\* schedule says "running" for ever only after a crash (tick, record_run).
EverySlotFires ==
    \A s \in Schedules, t \in Times :
        /\ Due(s) /\ sched[s].next = t ~> ~Exists(s) \/ sched[s].next # t
        /\ Exists(s) /\ sched[s].status = "running"
               ~> ~Exists(s) \/ sched[s].status # "running" \/ crashes < MaxCrashes
=============================================================================

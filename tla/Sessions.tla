------------------------------- MODULE Sessions -------------------------------
(***************************************************************************)
(* Logins, their throttle and the refresh sessions of one user: auth.rs    *)
(* and admin.rs of mda-api over login_throttle.rs, session.rs and jwt.rs   *)
(* of mda-security.                                                        *)
(*                                                                         *)
(* A login is a row of statements, each a transaction of its own: the      *)
(* throttle is read long before it is written.  A rotation holds the row   *)
(* of its session until it commits; its now() is that of its BEGIN, which   *)
(* may be long before it gets the row.  A statement that revokes every     *)
(* session sees those committed when it starts, and waits for the rows it  *)
(* finds locked.                                                           *)
(***************************************************************************)
EXTENDS Naturals, FiniteSets

CONSTANTS
    Callers,     \* requests in flight
    MaxSessions,  \* bound: sessions
    MaxFails, Window, Lockout,        \* MDA_LOGIN_*
    AccessTtl, RefreshTtl,
    MaxTime,      \* bound: the clock
    NoRow

Keys == {"ip", "acct"}
Sids == 1..MaxSessions

ThrottleRow == [fails : Nat, first : Nat, until : Nat]
SessionRow  == [parent : Sids \cup {NoRow}, revoked : BOOLEAN, born : Nat, expires : Nat,
                clean : BOOLEAN]

ASSUME LoginAssumption ==
    /\ IsFiniteSet(Callers) /\ Callers # {}
    /\ {MaxSessions, MaxFails, Window, Lockout, AccessTtl, RefreshTtl, MaxTime} \subseteq Nat
    /\ NoRow \notin Nat \cup ThrottleRow \cup SessionRow

VARIABLES
    now,
    user,       \* sec_user: active, and which password it has
    throttle,   \* sys_login_throttle
    late,       \* failures recorded on a key since it locked
    sess,       \* sec_session, by id
    call        \* what each request has read

sessionVars == <<now, user, throttle, late, sess, call>>

NoCall == [op |-> "none", step |-> "none"]

Drawn == {s \in Sids : sess[s] # NoRow}

\* Mutant: a session that was revoked still rotates.
Unexpired(s, at) == s \in Drawn /\ at < sess[s].expires

\* A live session: neither revoked nor, when the transaction began, expired.
Live(s, at) == s \in Drawn /\ ~sess[s].revoked /\ at < sess[s].expires

-----------------------------------------------------------------------------
(* login_throttle.rs *)

\* Mutant: only a full window counts as locked.
LockedNever(k) == throttle[k] # NoRow /\ throttle[k].until > now + Lockout

IsLocked(k) == throttle[k] # NoRow /\ throttle[k].until > now

\* The first failure of a key opens a burst; one after the window opens another.
Failed(t) ==
    IF t = NoRow THEN [fails |-> 1, first |-> now, until |-> 0]
    ELSE LET anew == now - t.first > Window
             n    == IF anew THEN 1 ELSE t.fails + 1
         IN [fails |-> IF n > MaxFails THEN MaxFails ELSE n,
             first |-> IF anew THEN now ELSE t.first,
             until |-> IF n >= MaxFails THEN now + Lockout ELSE t.until]

RecordFailure(k) ==
    /\ throttle' = [throttle EXCEPT ![k] = Failed(@)]
    /\ late' = [late EXCEPT ![k] = IF throttle[k] # NoRow /\ throttle[k].until > now THEN @ + 1 ELSE 0]

RecordSuccess(k) ==
    /\ throttle' = [throttle EXCEPT ![k] = NoRow]
    /\ late' = [late EXCEPT ![k] = 0]

-----------------------------------------------------------------------------
SessionsInit ==
    /\ now = 0
    /\ user = [active |-> TRUE, pw |-> 0]
    /\ throttle = [k \in Keys |-> NoRow]
    /\ late = [k \in Keys |-> 0]
    /\ sess = [s \in Sids |-> NoRow]
    /\ call = [h \in Callers |-> NoCall]

At(h, op, step) == call[h].op = op /\ call[h].step = step
Goes(h, step) == call' = [call EXCEPT ![h].step = step]
Answered(h) == call' = [call EXCEPT ![h] = NoCall]

\* A session of the user under the next id; clean is history: what it came from was live
\* until then.
Mint(s, parent, at) ==
    /\ s \in Sids /\ s \notin Drawn /\ \A r \in 1..(s - 1) : r \in Drawn
    /\ sess' = [sess EXCEPT ![s] = [parent |-> parent, revoked |-> FALSE,
                                    born |-> at, expires |-> at + RefreshTtl,
                                    clean |-> parent = NoRow \/ ~sess[parent].revoked],
                            ![IF parent = NoRow THEN s ELSE parent].revoked = parent # NoRow]

-----------------------------------------------------------------------------
(* login *)

\* The address is checked before anything else; a tenant that is not there costs it
\* an attempt.
LoginBegin(h, pw, known) ==
    /\ call[h] = NoCall /\ ~IsLocked("ip")
    /\ call' = [call EXCEPT ![h] = [op |-> "login", step |-> IF known THEN "acct" ELSE "fail ip", pw |-> pw]]
    /\ UNCHANGED <<now, user, throttle, late, sess>>

LoginAccount(h) ==
    /\ At(h, "login", "acct")
    /\ IF IsLocked("acct") THEN Answered(h) ELSE Goes(h, "verify")
    /\ UNCHANGED <<now, user, throttle, late, sess>>

Verify(h) ==
    /\ At(h, "login", "verify")
    /\ Goes(h, IF user.active /\ call[h].pw = user.pw THEN "clear acct" ELSE "fail acct")
    /\ UNCHANGED <<now, user, throttle, late, sess>>

NoteAccount(h) ==
    /\ \/ At(h, "login", "clear acct") /\ RecordSuccess("acct") /\ Goes(h, "clear ip")
       \/ At(h, "login", "fail acct") /\ RecordFailure("acct") /\ Goes(h, "fail ip")
    /\ UNCHANGED <<now, user, sess>>

NoteAddress(h) ==
    /\ \/ At(h, "login", "clear ip") /\ RecordSuccess("ip") /\ Goes(h, "session")
       \/ At(h, "login", "fail ip") /\ RecordFailure("ip") /\ Answered(h)
    /\ UNCHANGED <<now, user, sess>>

CreateSession(h) ==
    /\ At(h, "login", "session")
    /\ \E s \in Sids : Mint(s, NoRow, now)
    /\ Answered(h)
    /\ UNCHANGED <<now, user, throttle, late>>

-----------------------------------------------------------------------------
(* refresh, logout, reset *)

Locked(s) == \E h \in Callers : At(h, "refresh", "mint") /\ call[h].sid = s

\* What a statement that revokes every session finds to revoke.
RevokeFound(h, resets) ==
    call' = [call EXCEPT ![h] = [op |-> "revoke all", step |-> "wait", resets |-> resets,
                                 sids |-> {s \in Drawn : ~sess[s].revoked}]]

\* BEGIN, with the refresh token of s.
Refresh(h, s) ==
    /\ call[h] = NoCall /\ s \in Drawn
    /\ call' = [call EXCEPT ![h] = [op |-> "refresh", step |-> "lock", sid |-> s, at |-> now]]
    /\ UNCHANGED <<now, user, throttle, late, sess>>

\* SELECT ... FOR UPDATE waits for the row while it looks live.
Rotate(h) ==
    /\ At(h, "refresh", "lock")
    /\ IF Live(call[h].sid, call[h].at) THEN ~Locked(call[h].sid) /\ Goes(h, "mint")
       ELSE RevokeFound(h, FALSE)
    /\ UNCHANGED <<now, user, throttle, late, sess>>

\* The session is revoked and its successor inserted.
Rotated(h) ==
    /\ At(h, "refresh", "mint")
    /\ \E s \in Sids : Mint(s, call[h].sid, call[h].at)
    /\ Answered(h)
    /\ UNCHANGED <<now, user, throttle, late>>

\* UPDATE ... WHERE user_id AND revoked_at IS NULL, of the rows its snapshot has.
RevokeAll(h) ==
    /\ At(h, "revoke all", "wait")
    /\ \A s \in call[h].sids : ~Locked(s)
    /\ sess' = [s \in Sids |-> IF s \in call[h].sids THEN [sess[s] EXCEPT !.revoked = TRUE] ELSE sess[s]]
    /\ user' = IF call[h].resets THEN [user EXCEPT !.pw = 1] ELSE user
    /\ Answered(h)
    /\ UNCHANGED <<now, throttle, late>>

\* The access token names the session; it is not looked up anywhere else.
Logout(s) ==
    /\ s \in Drawn /\ now <= sess[s].born + AccessTtl /\ ~Locked(s)
    /\ sess' = [sess EXCEPT ![s].revoked = TRUE]
    /\ UNCHANGED <<now, user, throttle, late, call>>

\* A reset holds the row of the user until it commits.
UserHeld == \E h \in Callers : At(h, "revoke all", "wait") /\ call[h].resets

\* reset_password: the hash and the sessions in one transaction.
ResetPassword(h) ==
    /\ call[h] = NoCall /\ user.pw = 0 /\ ~UserHeld
    /\ RevokeFound(h, TRUE)
    /\ UNCHANGED <<now, user, throttle, late, sess>>

\* update_user, with active alone.
Deactivate ==
    /\ user.active /\ ~UserHeld
    /\ user' = [user EXCEPT !.active = FALSE]
    /\ UNCHANGED <<now, throttle, late, sess, call>>

Tick ==
    /\ now < MaxTime
    /\ now' = now + 1
    /\ UNCHANGED <<user, throttle, late, sess, call>>

SessionsNext ==
    \/ \E h \in Callers :
          \/ \E pw \in {0, 1}, known \in BOOLEAN : LoginBegin(h, pw, known)
          \/ LoginAccount(h) \/ Verify(h) \/ NoteAccount(h) \/ NoteAddress(h) \/ CreateSession(h)
          \/ \E s \in Sids : Refresh(h, s)
          \/ Rotate(h) \/ Rotated(h) \/ RevokeAll(h) \/ ResetPassword(h)
    \/ \E s \in Sids : Logout(s)
    \/ Deactivate \/ Tick

SessionsSpec == SessionsInit /\ [][SessionsNext]_sessionVars

-----------------------------------------------------------------------------
(* Properties *)

\* A refresh session has one successor at most, and none from the moment it is revoked
\* or has run out, however many requests present the same token at once (rotate).
OneSuccessor ==
    \A s \in Drawn :
       LET heirs == {r \in Drawn : sess[r].parent = s}
       IN /\ Cardinality(heirs) <= 1
          /\ \A r \in heirs : sess[s].revoked /\ sess[r].clean /\ sess[r].born < sess[s].expires

\* Once a key is locked, only the logins that were past its check when it locked can
\* still add a failure; no number of concurrent logins gets more (is_locked is read in
\* a statement of its own, record_failure is one atomic upsert).
LockStops == \A k \in Keys : late[k] < Cardinality(Callers)

LoginsSound == OneSuccessor /\ LockStops
=============================================================================

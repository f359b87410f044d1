------------------------------ MODULE RecordForm ------------------------------
(***************************************************************************)
(* The record forms of the browser client (web/runtime-ui/src/lib.rs and   *)
(* api.rs) against the record they edit.                                   *)
(*                                                                         *)
(* A form mounts, loads its definition and its record, fetches a ticket    *)
(* and opens an event stream, each in a task that runs on when the form is *)
(* left; a save is a task too, whose answer navigates to the list.  The    *)
(* record is its version and the events of its updates, one per version    *)
(* from the second on.                                                     *)
(***************************************************************************)
EXTENDS Naturals

CONSTANTS
    Forms,        \* the visits to a form, in no order
    MaxWritten,   \* bound: writes of the record
    MaxUnheard,   \* bound: answers to saves that the network loses
    NoVersion

\* A visit to a form is not the list.
ASSUME FormAssumption == "list" \notin Forms

VARIABLES
    ver, top,     \* the record: its version, 0 once deleted; the last one it had
    page,         \* the form that is mounted, or the list
    form,         \* the signals of each form
    made,         \* records each new-record form has created
    dropped       \* answers lost

formVars == <<ver, top, page, form, made, dropped>>

Closed == [kind |-> "none", load |-> "none", got |-> NoVersion, seen |-> NoVersion,
           save |-> "no", banner |-> NoVersion, stream |-> "none", pos |-> 1]

Mounted(f) == page = f

\* Mutant: a click while a save is in flight is taken.
CanClick(f) == form[f].load = "done"

\* saving and loaded, the guards of on_save.
CanSave(f) == form[f].load = "done" /\ form[f].save = "no"

\* Mutant: the stream that opens late is kept.
OpensAnyway(f) == "open"

\* es_closed: set when the form is left.
Opens(f) == IF Mounted(f) THEN "open" ELSE "closed"

\* on_cleanup.
LeftPage(fs, p) == [f \in Forms |-> IF f = p /\ fs[f].stream = "open"
                                THEN [fs[f] EXCEPT !.stream = "closed"] ELSE fs[f]]

-----------------------------------------------------------------------------
FormInit ==
    /\ ver = 1 /\ top = 1
    /\ page = "list"
    /\ form = [f \in Forms |-> Closed]
    /\ made = [f \in Forms |-> 0]
    /\ dropped = [f \in Forms |-> 0]

\* "+ New" or "Edit" in the list.
OpenForm(f, kind) ==
    /\ page = "list" /\ form[f] = Closed
    /\ kind = "edit" => ver # 0
    /\ page' = f
    /\ form' = [form EXCEPT ![f].kind = kind,
                            ![f].load = IF kind = "edit" THEN "def" ELSE "blank",
                            ![f].stream = IF kind = "edit" THEN "ticket" ELSE "none"]
    /\ UNCHANGED <<ver, top, made, dropped>>

\* "Back" and "Cancel".
Leave ==
    /\ page # "list"
    /\ page' = "list" /\ form' = LeftPage(form, page)
    /\ UNCHANGED <<ver, top, made, dropped>>

\* The definition and the options of its references are there; the server reads the
\* record.
Fetch(f) ==
    /\ Mounted(f) /\ form[f].load = "def"
    /\ form' = [form EXCEPT ![f].load = "read", ![f].got = ver]
    /\ UNCHANGED <<ver, top, page, made, dropped>>

\* A record that could not be read leaves the version out.
Loaded(f) ==
    /\ Mounted(f) /\ form[f].load \in {"read", "blank"}
    /\ \E got \in {form[f].got, NoVersion} :
          form' = [form EXCEPT ![f].load = "done", ![f].seen = IF got = 0 THEN NoVersion ELSE got]
    /\ UNCHANGED <<ver, top, page, made, dropped>>

\* The ticket arrives, whether or not the form is still there; or it does not.
Ticket(f) ==
    /\ form[f].stream = "ticket"
    /\ \E s \in {Opens(f), "none"} : form' = [form EXCEPT ![f].stream = s]
    /\ UNCHANGED <<ver, top, page, made, dropped>>

\* A stream without Last-Event-ID begins with the first event of the log; one that
\* reconnects goes on after the last it had.
Message(f) ==
    /\ Mounted(f) /\ form[f].stream = "open" /\ form[f].pos < top
    /\ form' = [form EXCEPT ![f].pos = @ + 1, ![f].banner = form[f].pos + 1]
    /\ UNCHANGED <<ver, top, page, made, dropped>>

\* The browser reconnects with the ticket of the first time, which has expired.
StreamRefused(f) ==
    /\ Mounted(f) /\ form[f].stream = "open"
    /\ form' = [form EXCEPT ![f].stream = "closed"]
    /\ UNCHANGED <<ver, top, page, made, dropped>>

Save(f) ==
    /\ Mounted(f) /\ CanSave(f)
    /\ form' = [form EXCEPT ![f].save = "sent"]
    /\ UNCHANGED <<ver, top, page, made, dropped>>

\* POST creates; PATCH wants the version that was loaded, and 0 stands for none.
Serve(f) ==
    /\ form[f].save = "sent"
    /\ IF form[f].kind = "new"
       THEN /\ made' = [made EXCEPT ![f] = @ + 1]
            /\ form' = [form EXCEPT ![f].save = "ok"]
            /\ UNCHANGED <<ver, top>>
       ELSE IF form[f].seen = ver
            THEN /\ top < MaxWritten
                 /\ ver' = ver + 1 /\ top' = ver + 1
                 /\ form' = [form EXCEPT ![f].save = "ok"]
                 /\ UNCHANGED made
            ELSE form' = [form EXCEPT ![f].save = "refused"] /\ UNCHANGED <<ver, top, made>>
    /\ UNCHANGED <<page, dropped>>

\* The form goes to the list wherever the user is by now.
Saved(f) ==
    /\ form[f].save = "ok"
    /\ page' = "list"
    /\ form' = LeftPage([form EXCEPT ![f].save = "no"], page)
    /\ UNCHANGED <<ver, top, made, dropped>>

\* A refusal, or an answer that never came: the form stays, and may save again.
NotSaved(f) ==
    /\ \/ form[f].save = "refused" /\ UNCHANGED dropped
       \/ /\ form[f].save \in {"sent", "ok"} /\ dropped[f] < MaxUnheard
          /\ dropped' = [dropped EXCEPT ![f] = @ + 1]
    /\ form' = [form EXCEPT ![f].save = "no"]
    /\ UNCHANGED <<ver, top, page, made>>

\* Another client.
RemoteUpdate ==
    /\ ver # 0 /\ top < MaxWritten
    /\ ver' = ver + 1 /\ top' = ver + 1
    /\ UNCHANGED <<page, form, made, dropped>>

\* "Delete" in a list, which sends no version.
Delete ==
    /\ ver # 0 /\ ver' = 0
    /\ UNCHANGED <<top, page, form, made, dropped>>

FormNext ==
    \/ \E f \in Forms :
          \/ \E kind \in {"edit", "new"} : OpenForm(f, kind)
          \/ Fetch(f) \/ Loaded(f) \/ Ticket(f) \/ Message(f) \/ StreamRefused(f)
          \/ Save(f) \/ Serve(f) \/ Saved(f) \/ NotSaved(f)
    \/ Leave \/ RemoteUpdate \/ Delete

FormSpec == FormInit /\ [][FormNext]_formVars

-----------------------------------------------------------------------------
(* Properties *)

\* No event stream outlives its form, though the ticket may arrive after the form was
\* left; and a form creates its record once, however it is clicked, as long as no
\* answer is lost (es_closed and on_cleanup, saving).
FormsClean ==
    \A f \in Forms :
       /\ form[f].stream = "open" => Mounted(f)
       /\ made[f] <= 1 + dropped[f]

\* "conflict banner when a viewed record is changed by another user" (PLAN.md): the
\* banner names a version past the one that was loaded.
BannerMeansChange ==
    \A f \in Forms :
       form[f].banner # NoVersion /\ form[f].seen # NoVersion => form[f].banner > form[f].seen
=============================================================================

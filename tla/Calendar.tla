------------------------------ MODULE Calendar ------------------------------
(***************************************************************************)
(* The calendar of a workspace (domain/calendar.ts): events and their      *)
(* attendees, the reminders a cron tick sends, and the event that mirrors  *)
(* the deadline of a task (domain/pm.ts, syncTaskDeadline).                *)
(*                                                                         *)
(* A tick reads the due rows once and then handles them row by row; the    *)
(* sync of a task reads the task and its event, then writes.  A request     *)
(* writes an event first and its reminder rows after: it deletes them all, *)
(* then inserts those ahead, in statements of their own that no transaction *)
(* and no unique index ties together.  Times are ticks of a clock; titles,  *)
(* places, time zones and the notices of a booking are left out.            *)
(***************************************************************************)
EXTENDS Naturals, Sequences

CONSTANTS CalUsers, Admins,   \* members, and those of them who are Owner or Admin
          Ticks, Editors,     \* cron invocations, and requests that edit, that may overlap
          Starts, Asks,       \* start and due times, and sets of people, that are asked for
          Lead,               \* how long before the start a reminder is due
          Limit,              \* rows a tick takes (300)
          LastTime, MaxEvents, \* bounds on the clock and on events
          MaxOps              \* bound on requests and cut ticks

ASSUME CalendarAssumption ==
    /\ Starts \subseteq Nat \ {0} /\ Lead \in Nat /\ Limit \in Nat \ {0}
    /\ LastTime \in Nat /\ MaxEvents \in Nat /\ MaxOps \in Nat

VARIABLES
    clock,
    events,     \* [kind, start, status, by, who]; who: attendee -> response
    reminders,  \* rows [ev, sub, at, sent, from]; from, the request that wrote it, is its id
    ticks,      \* cron invocation -> rows it has yet to handle, events it has read
    reminded,   \* reminders sent: [ev, sub, at]
    twice,      \* a reminder was sent again
    overlap,    \* two ticks have run at once, or two rewrote the rows of one event
    task,       \* the task: its due date (0: none), RACI people, assignee
    syncs,      \* request -> where its writes stand
    astray,     \* why the mirror may differ: "no", "hand" or "twice"
    calOps      \* requests and cut ticks so far

calVars == <<clock, events, reminders, ticks, reminded, twice, overlap, task, syncs, astray, calOps>>

NoOne == "no one"
Idle == [pc |-> "idle"]
NoTick == [pc |-> "idle", due |-> <<>>]

(* Whoever may be on an event. *)
Invited == CalUsers \union Admins \union UNION Asks
Responses == {"accepted", "needsAction", "declined"}

Attendance == UNION {[subs -> Responses] : subs \in SUBSET Invited}

calendarEvents == [kind : {"meeting", "deadline"}, start : Starts, by : CalUsers,
                   status : {"confirmed", "tentative", "cancelled"},
                   who : Attendance]
eventReminders == [ev : 1..MaxEvents, sub : Invited, at : Nat, sent : BOOLEAN, from : Editors]

CalInit ==
    /\ clock = 0 /\ events = <<>> /\ reminders = {} /\ reminded = {} /\ calOps = 0
    /\ ticks = [t \in Ticks |-> NoTick]
    /\ twice = FALSE /\ overlap = FALSE
    /\ task = [there |-> FALSE, due |-> 0, raci |-> {}, assignee |-> NoOne]
    /\ syncs = [s \in Editors |-> Idle]
    /\ astray = "no"

Op == calOps < MaxOps /\ calOps' = calOps + 1

ClockTicks ==
    /\ clock < LastTime /\ clock' = clock + 1
    /\ UNCHANGED <<events, reminders, ticks, reminded, twice, overlap, task, syncs, astray, calOps>>

-----------------------------------------------------------------------------
(* Events and their reminders. *)

(* Mutant: a reminder whose time has passed is written too. *)
RemindersPast(s, e, start, subs) ==
    {[ev |-> e, sub |-> p, at |-> start - Lead, sent |-> FALSE, from |-> s] :
        p \in {q \in subs : start > Lead}}

(* The rows to write: only those that lie ahead. *)
scheduleReminders(s, e, start, subs) ==
    {[ev |-> e, sub |-> p, at |-> start - Lead, sent |-> FALSE, from |-> s] :
        p \in {q \in subs : start > clock + Lead}}

(* Request s has the rows of e to write, once for every round. *)
Rescheduling(s, e, rounds) ==
    [syncs EXCEPT ![s] = IF rounds = <<>> THEN Idle ELSE [pc |-> "rows", ev |-> e, rounds |-> rounds]]

(* Its first statement: every row of the event goes, sent or not.  What it  *)
(* is to insert is worked out now.                                         *)
RowsDeleted(s) ==
    LET k == syncs[s]
        round == Head(k.rounds)
    IN  /\ k.pc = "rows"
        /\ reminders' = {r \in reminders : r.ev # k.ev}
        /\ overlap' = (overlap \/ \E o \in Editors \ {s} :
                                     syncs[o].pc = "insert" /\ syncs[o].ev = k.ev /\ syncs[o].rows # {})
        /\ syncs' = [syncs EXCEPT ![s] =
             [pc |-> "insert", ev |-> k.ev, rounds |-> Tail(k.rounds),
              rows |-> scheduleReminders(s, k.ev, round.start, round.subs)]]
        /\ UNCHANGED <<clock, events, ticks, reminded, twice, task, astray, calOps>>

RowsInserted(s) ==
    /\ syncs[s].pc = "insert"
    /\ reminders' = reminders \union syncs[s].rows
    /\ syncs' = Rescheduling(s, syncs[s].ev, syncs[s].rounds)
    /\ UNCHANGED <<clock, events, ticks, reminded, twice, overlap, task, astray, calOps>>

(* The creator is always on it, and has accepted. *)
createEvent(s, kind, by, start, asked) ==
    LET subs == asked \union {by}
        e == Len(events) + 1
    IN  /\ Len(events) < MaxEvents
        /\ events' = Append(events,
             [kind |-> kind, start |-> start, status |-> "confirmed", by |-> by,
              who |-> [p \in subs |-> IF p = by THEN "accepted" ELSE "needsAction"]])
        /\ syncs' = Rescheduling(s, e, <<[start |-> start, subs |-> subs]>>)

PostEvent(s, p, start, asked) ==
    /\ syncs[s].pc = "idle" /\ Op /\ createEvent(s, "meeting", p, start, asked)
    /\ UNCHANGED <<clock, reminders, ticks, reminded, twice, overlap, task, astray>>

canSeeEvent(e, p) == p \in Admins \/ events[e].by = p \/ p \in DOMAIN events[e].who

canEditEvent(e, p) == p \in Admins \/ events[e].by = p

(* A deadline changed by hand differs from its task until the next sync. *)
ByHand(e) ==
    astray' = IF events[e].kind = "deadline" /\ astray = "no" THEN "hand" ELSE astray

(* The event is written; s has it to read again, and its rows to write.    *)
Rewritten(s, e, ev, rounds) ==
    /\ events' = [events EXCEPT ![e] = ev]
    /\ syncs' = [syncs EXCEPT ![s] = [pc |-> "reread", ev |-> e, rounds |-> rounds]]

(* PATCH: the start moves the reminders; the attendees stay. *)
updateEvent(s, p, e, start) ==
    /\ syncs[s].pc = "idle" /\ canSeeEvent(e, p) /\ canEditEvent(e, p) /\ Op
    /\ Rewritten(s, e, [events[e] EXCEPT !.start = start], <<>>)
    /\ ByHand(e)
    /\ UNCHANGED <<clock, reminders, ticks, reminded, twice, overlap, task>>

EventReread(s) ==
    LET e == syncs[s].ev
    IN  /\ syncs[s].pc = "reread"
        /\ syncs' = Rescheduling(s, e,
             <<[start |-> events[e].start, subs |-> DOMAIN events[e].who]>> \o syncs[s].rounds)
        /\ UNCHANGED <<clock, events, reminders, ticks, reminded, twice, overlap, task, astray, calOps>>

(* PATCH of the status alone leaves the reminders as they are. *)
updateStatus(p, e, status) ==
    /\ canSeeEvent(e, p) /\ canEditEvent(e, p) /\ events[e].status # status /\ Op
    /\ events' = [events EXCEPT ![e].status = status]
    /\ ByHand(e)
    /\ UNCHANGED <<clock, reminders, ticks, reminded, twice, overlap, task, syncs>>

(* Its rows are dropped after; then the task goes, when it is for that.    *)
cancelEvent(s, e, gone) ==
    /\ events' = [events EXCEPT ![e].status = "cancelled"]
    /\ syncs' = [syncs EXCEPT ![s] = [pc |-> "drop", ev |-> e, gone |-> gone]]

DeleteEvent(s, p, e) ==
    /\ syncs[s].pc = "idle" /\ canSeeEvent(e, p) /\ canEditEvent(e, p) /\ Op
    /\ cancelEvent(s, e, FALSE) /\ ByHand(e)
    /\ UNCHANGED <<clock, reminders, ticks, reminded, twice, overlap, task>>

RowsDropped(s) ==
    /\ syncs[s].pc = "drop"
    /\ reminders' = {r \in reminders : r.ev # syncs[s].ev}
    /\ syncs' = [syncs EXCEPT ![s] = IF @.gone THEN [pc |-> "delete"] ELSE Idle]
    /\ UNCHANGED <<clock, events, ticks, reminded, twice, overlap, task, astray, calOps>>

setAttendeeResponse(p, e, response) ==
    /\ p \in DOMAIN events[e].who /\ events[e].who[p] # response /\ Op
    /\ events' = [events EXCEPT ![e].who[p] = response]
    /\ UNCHANGED <<clock, reminders, ticks, reminded, twice, overlap, task, syncs, astray>>

-----------------------------------------------------------------------------
(* The reminder cron. *)

Due == {r \in reminders : ~r.sent /\ r.at <= clock}

(* A page of the due rows: no row twice, the earliest, as many as fit.     *)
Page(rows) ==
    /\ \A i, j \in DOMAIN rows : i < j => rows[i] # rows[j] /\ rows[i].at <= rows[j].at
    /\ \A r \in Due :
          \/ \E i \in DOMAIN rows : rows[i] = r
          \/ Len(rows) = Limit /\ \A i \in DOMAIN rows : rows[i].at <= r.at

TickStarts(t) ==
    /\ ticks[t].pc = "idle" /\ Due # {}
    /\ \E n \in 1..Limit : \E rows \in [1..n -> Due] :
         /\ Page(rows)
         /\ ticks' = [ticks EXCEPT ![t] = [pc |-> "row", at |-> clock, due |-> rows, read |-> <<>>]]
    /\ overlap' = (overlap \/ \E u \in Ticks \ {t} : ticks[u].pc # "idle")
    /\ UNCHANGED <<clock, events, reminders, reminded, twice, task, syncs, astray, calOps>>

Marked(rows, row) == {r \in rows : r # row} \union ({[row EXCEPT !.sent = TRUE] : r \in rows \intersect {row}})

TickRow(t) == Head(ticks[t].due)

(* The row's event, which an invocation reads once (eventCache).           *)
EventOf(t) ==
    LET e == TickRow(t).ev
    IN  IF e \in DOMAIN ticks[t].read THEN ticks[t].read[e] ELSE events[e]

(* What the rows still to come will need of it. *)
Cached(t) ==
    LET k == ticks[t]
        ahead == {k.due[i].ev : i \in 2..Len(k.due)}
    IN  [e \in (DOMAIN k.read \union {TickRow(t).ev}) \intersect ahead |->
            IF e = TickRow(t).ev THEN EventOf(t) ELSE k.read[e]]

Advanced(k) == IF Len(k.due) = 1 THEN NoTick ELSE [k EXCEPT !.pc = "row", !.due = Tail(@)]

(* The event of a row is over or cancelled. *)
Skips(t) == EventOf(t).status = "cancelled" \/ EventOf(t).start < ticks[t].at

(* The row is handled: passed over, or still to be sent. *)
Handled(t) ==
    LET k == [ticks[t] EXCEPT !.read = Cached(t)]
    IN  ticks' = [ticks EXCEPT ![t] = IF Skips(t) THEN Advanced(k) ELSE [k EXCEPT !.pc = "send"]]

(* Marked before it is sent, and when nothing is sent. *)
TickMarks(t) ==
    /\ ticks[t].pc = "row"
    /\ reminders' = Marked(reminders, TickRow(t))
    /\ Handled(t)
    /\ UNCHANGED <<clock, events, reminded, twice, overlap, task, syncs, astray, calOps>>

Notice(row) == [ev |-> row.ev, sub |-> row.sub, at |-> row.at]

TickSends(t) ==
    /\ ticks[t].pc = "send"
    /\ reminded' = reminded \union {Notice(TickRow(t))}
    /\ twice' = (twice \/ Notice(TickRow(t)) \in reminded)
    /\ ticks' = [ticks EXCEPT ![t] = Advanced(@)]
    /\ UNCHANGED <<clock, events, reminders, overlap, task, syncs, astray, calOps>>

(* The platform ends the invocation: a row marked and not sent stays so. *)
TickCut(t) ==
    /\ ticks[t].pc # "idle" /\ Op
    /\ ticks' = [ticks EXCEPT ![t] = NoTick]
    /\ UNCHANGED <<clock, events, reminders, reminded, twice, overlap, task, syncs, astray>>

-----------------------------------------------------------------------------
(* Tasks, and the event that mirrors the deadline of one. *)

Assigned == IF task.raci # {} THEN task.raci
            ELSE IF task.assignee = NoOne THEN {} ELSE {task.assignee}

(* The events linked to the task, cancelled ones included. *)
Linked == {e \in DOMAIN events : events[e].kind = "deadline"}

(* Without a due date nothing is synced. *)
createTask(s, by, due, assignee) ==
    /\ syncs[s].pc = "idle" /\ ~task.there /\ Linked = {} /\ Op
    /\ task' = [there |-> TRUE, due |-> due, raci |-> {}, assignee |-> assignee]
    /\ syncs' = IF due = 0 THEN syncs ELSE [syncs EXCEPT ![s] = [pc |-> "read", by |-> by]]
    /\ UNCHANGED <<clock, events, reminders, ticks, reminded, twice, overlap, astray>>

TaskWritten(s, by, new) ==
    /\ syncs[s].pc = "idle" /\ task.there /\ new # task /\ Op
    /\ task' = new
    /\ syncs' = [syncs EXCEPT ![s] = [pc |-> "read", by |-> by]]
    /\ UNCHANGED <<clock, events, reminders, ticks, reminded, twice, overlap, astray>>

updateTask(s, by, due, assignee) == TaskWritten(s, by, [task EXCEPT !.due = due, !.assignee = assignee])

setTaskRaci(s, by, raci) == TaskWritten(s, by, [task EXCEPT !.raci = raci])

Reads == [due |-> task.due, who |-> Assigned, found |-> Linked]

syncTaskDeadline(s) ==
    /\ syncs[s].pc = "read"
    /\ syncs' = [syncs EXCEPT ![s] = IF task.there THEN [pc |-> "apply", by |-> @.by, read |-> Reads]
                                     ELSE Idle]
    /\ UNCHANGED <<clock, events, reminders, ticks, reminded, twice, overlap, task, astray, calOps>>

(* Mutant: an event that was cancelled stays cancelled. *)
ReconfirmedNot(ev, due, who) ==
    [ev EXCEPT !.start = due, !.who = [p \in who |-> "needsAction"]]

Reconfirmed(ev, due, who) ==
    [ev EXCEPT !.start = due, !.status = "confirmed", !.who = [p \in who |-> "needsAction"]]

(* The task is on its way out. *)
Deleting ==
    \E s \in Editors : syncs[s].pc = "delete" \/ (syncs[s].pc = "drop" /\ syncs[s].gone)

(* Two first syncs, or an old reading written last. *)
Crossed(s) ==
    astray' = IF astray = "twice" \/ (syncs[s].read.found = {} /\ Linked # {} /\ syncs[s].read.due # 0) THEN "twice"
               ELSE IF ~task.there \/ syncs[s].read # Reads \/ Deleting THEN "hand"
               ELSE "no"

upsertTaskDeadline(s) ==
    LET read == syncs[s].read
    IN  /\ syncs[s].pc = "apply"
        /\ IF read.found = {}
           THEN IF read.due = 0 THEN UNCHANGED events /\ syncs' = [syncs EXCEPT ![s] = Idle]
                ELSE createEvent(s, "deadline", syncs[s].by, read.due, read.who)
           ELSE \E e \in read.found :
                  IF read.due = 0 THEN cancelEvent(s, e, FALSE)
                  ELSE Rewritten(s, e, Reconfirmed(events[e], read.due, read.who),
                             <<[start |-> read.due, subs |-> read.who]>>)
        /\ Crossed(s)
        /\ UNCHANGED <<clock, reminders, ticks, reminded, twice, overlap, task, calOps>>

(* A statement fails, or the platform ends the request.  The task was       *)
(* written all the same, and a deletion passes over what fails before it.  *)
SyncFails(s) ==
    /\ syncs[s].pc # "idle" /\ Op
    /\ \/ syncs' = [syncs EXCEPT ![s] = Idle]
       \/ /\ syncs[s].pc = "drop" /\ syncs[s].gone
          /\ syncs' = [syncs EXCEPT ![s] = [pc |-> "delete"]]
    /\ astray' = IF astray = "twice" \/ syncs[s].pc \in {"reread", "rows", "insert"} THEN astray
                  ELSE "hand"
    /\ UNCHANGED <<clock, events, reminders, ticks, reminded, twice, overlap, task>>

(* The event is cancelled first, if that does not fail; the row goes last. *)
deleteTask(s) ==
    /\ syncs[s].pc = "idle" /\ task.there /\ Op
    /\ \/ \E e \in Linked : cancelEvent(s, e, TRUE) /\ UNCHANGED astray
       \/ /\ UNCHANGED events /\ syncs' = [syncs EXCEPT ![s] = [pc |-> "delete"]]
          /\ astray' = IF Linked = {} \/ astray = "twice" THEN astray ELSE "hand"
    /\ UNCHANGED <<clock, reminders, ticks, reminded, twice, overlap, task>>

TaskDeleted(s) ==
    /\ syncs[s].pc = "delete"
    /\ task' = [there |-> FALSE, due |-> 0, raci |-> {}, assignee |-> NoOne]
    /\ syncs' = [syncs EXCEPT ![s] = Idle]
    /\ UNCHANGED <<clock, events, reminders, ticks, reminded, twice, overlap, astray, calOps>>

-----------------------------------------------------------------------------
TickStep == \E t \in Ticks : TickStarts(t) \/ TickMarks(t) \/ TickSends(t)

EventNext ==
    \/ ClockTicks \/ TickStep
    \/ \E t \in Ticks : TickCut(t)
    \/ \E s \in Editors, p \in CalUsers, d \in Starts, asked \in Asks : PostEvent(s, p, d, asked)
    \/ \E s \in Editors, p \in CalUsers, e \in DOMAIN events :
         (\E d \in Starts : updateEvent(s, p, e, d)) \/ DeleteEvent(s, p, e)
    \/ \E p \in CalUsers, e \in DOMAIN events :
         \/ (\E x \in {"confirmed", "cancelled"} : updateStatus(p, e, x))
         \/ setAttendeeResponse(p, e, "declined")
    \/ \E s \in Editors :
         EventReread(s) \/ RowsDeleted(s) \/ RowsInserted(s) \/ RowsDropped(s) \/ SyncFails(s)

TaskNext ==
    \/ \E s \in Editors, p \in CalUsers :
         \/ \E d \in Starts \union {0}, a \in Admins \union {NoOne} : createTask(s, p, d, a) \/ updateTask(s, p, d, a)
         \/ \E raci \in Asks : setTaskRaci(s, p, raci)
    \/ \E s \in Editors :
         syncTaskDeadline(s) \/ upsertTaskDeadline(s) \/ deleteTask(s) \/ TaskDeleted(s)

CalNext == EventNext \/ TaskNext

CalSpec == CalInit /\ [][CalNext]_calVars /\ WF_calVars(TickStep)

-----------------------------------------------------------------------------
(* Nobody is reminded twice of one start of an event, whatever edits       *)
(* delete and write its rows again while a tick runs; unless two ticks     *)
(* overlap, or two edits have both deleted an event's rows before the first *)
(* of them writes its own.                                                 *)
RemindedOnce == twice => overlap

OnCalendar == {e \in Linked : events[e].status # "cancelled"}

Mirrored ==
    IF task.there /\ task.due # 0
    THEN \E e \in Linked : /\ OnCalendar = {e} /\ events[e].start = task.due
                          /\ Assigned \subseteq DOMAIN events[e].who
    ELSE OnCalendar = {}

(* Once no sync is under way, the task's deadline is on the calendar once, *)
(* at its date, with the people assigned, and not at all without a date or *)
(* a task; unless the event was changed by hand, a sync failed, or syncs   *)
(* crossed.                                                                *)
DeadlineMirrored ==
    astray = "no" /\ (\A s \in Editors : syncs[s].pc = "idle") => Mirrored

(* The due rows are worked off again and again: none is left behind by a   *)
(* cancelled or past event, a full batch or a tick that was cut.           *)
RemindersDrain == []<>(Due = {})

=============================================================================

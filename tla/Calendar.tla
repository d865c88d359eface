------------------------------ MODULE Calendar ------------------------------
(* The calendars of one user (models/calendar.py, routers/calendar.py) and  *)
(* the alerts every process's scheduler sends for upcoming events           *)
(* (_check_calendar_alerts).  A request checks first and writes later, and  *)
(* a transaction reads before it commits: others run in between.            *)
EXTENDS Naturals, FiniteSets, Server

CONSTANTS
    Cal,            \* ids of calendars
    Event,          \* ids of events
    CalClient,      \* concurrent requests
    MaxCalRequests, \* bound: requests
    MaxPolls,       \* bound: polls of the schedulers
    MaxMarkFails    \* bound: failing database writes of a poll

ASSUME CalendarAssumption ==
    /\ MaxCalRequests \in Nat /\ MaxPolls \in Nat /\ MaxMarkFails \in Nat
    /\ None \notin Cal \cup Event

VARIABLES
    calendars,  \* the calendar table: each id's default flag or place in its life
    events,     \* the event table, with the answer of one attendee
    calReq,     \* requests in progress
    poll,       \* the poll in progress in each process
    calRequests, polls, markFails,
    sent,       \* history: alerts sent for the event's present start
    shared,     \* history: two processes polled at a time
    together    \* history: two conflicting requests ran at a time

calVars == <<calendars, events, calReq, poll, calRequests, polls, markFails, sent, shared, together>>

Rsvp == {"none", "pending", "accepted"}
NoEvent == [state |-> "unused", cal |-> None, near |-> FALSE, alerted |-> FALSE, rsvp |-> "none"]
NoCalReq == [op |-> "none", step |-> "none", cal |-> None, event |-> None, old |-> {}, rsvp |-> "none"]
IdlePoll == [step |-> "idle", todo |-> {}, event |-> None]
OfUser == {c \in Cal : calendars[c] \in {"plain", "default"}}
Defaults == {c \in Cal : calendars[c] = "default"}
Kept(e) == events[e].state = "stored"

CalInit ==
    /\ calendars = [c \in Cal |-> "unused"]
    /\ events = [e \in Event |-> NoEvent]
    /\ calReq = [r \in CalClient |-> NoCalReq]
    /\ poll = [p \in Process |-> IdlePoll]
    /\ calRequests = 0 /\ polls = 0 /\ markFails = 0
    /\ sent = [e \in Event |-> 0] /\ shared = FALSE /\ together = FALSE

(* Requests that choose a default, and a deletion next to a request that    *)
(* puts an event into a calendar, conflict.                                 *)
Conflict(op1, op2) ==
    \/ {op1, op2} \subseteq {"defaults", "default"}
    \/ "delete" \in {op1, op2} /\ {op1, op2} \cap {"create", "update"} # {}

CalFree(r) == calReq[r] = NoCalReq /\ r = CHOOSE q \in CalClient : calReq[q] = NoCalReq   \* slots are alike

(* A handler's checks, before its first write. *)
Checked(r, op, c, e) ==
    /\ CalFree(r) /\ calRequests < MaxCalRequests /\ calRequests' = calRequests + 1
    /\ calReq' = [calReq EXCEPT ![r] = [op |-> op, step |-> "checked", cal |-> c, event |-> e,
                                         old |-> {}, rsvp |-> "none"]]
    /\ together' = (together \/ \E q \in CalClient : Conflict(calReq[q].op, op))
    /\ UNCHANGED <<calendars, events, poll, polls, markFails, sent, shared>>

(* What the transaction of the request has read before it writes. *)
Reads(r, op, old, answer) ==
    /\ calReq[r].op = op /\ calReq[r].step = "checked"
    /\ calReq' = [calReq EXCEPT ![r].step = "read", ![r].old = old, ![r].rsvp = answer]
    /\ UNCHANGED <<calendars, events, poll, calRequests, polls, markFails, sent, shared, together>>

Writes(r, op, step) ==
    /\ calReq[r].op = op /\ calReq[r].step = step
    /\ calReq' = [calReq EXCEPT ![r] = NoCalReq]
    /\ UNCHANGED <<poll, calRequests, polls, markFails, shared, together>>
-----------------------------------------------------------------------------
(* get_or_create_defaults: "Personal" is added when the user has nothing. *)
get_or_create_defaults(r, c) ==
    /\ OfUser = {} /\ calendars[c] = "unused"
    /\ Checked(r, "defaults", c, None)

AddDefault(r) ==
    /\ Writes(r, "defaults", "checked") /\ calendars[calReq[r].cal] = "unused"
    /\ calendars' = [calendars EXCEPT ![calReq[r].cal] = "default"]
    /\ UNCHANGED <<events, sent>>

(* create_calendar *)
insert_new_calendar(r, c) ==
    /\ CalFree(r) /\ calRequests < MaxCalRequests /\ calRequests' = calRequests + 1
    /\ calendars[c] = "unused"
    /\ calendars' = [calendars EXCEPT ![c] = "plain"]
    /\ UNCHANGED <<events, calReq, poll, polls, markFails, sent, shared, together>>

(* set_default_calendar clears the defaults its first statement finds ... *)
set_default_calendar(r, c) == Checked(r, "default", c, None)

ClearDefaults(r) == Reads(r, "default", Defaults, "none")

(* The other defaults keep their flag. *)
SetDefault_KeepOthers(r) ==
    LET c == calReq[r].cal IN
    /\ Writes(r, "default", "read")
    /\ calendars' = IF c \notin OfUser THEN calendars ELSE [calendars EXCEPT ![c] = "default"]
    /\ UNCHANGED <<events, sent>>

(* ... and sets the new one; without it the transaction is rolled back. *)
SetDefault(r) ==
    LET c == calReq[r].cal IN
    /\ Writes(r, "default", "read")
    /\ calendars' =
          IF c \notin OfUser THEN calendars
          ELSE [d \in Cal |-> IF d = c THEN "default"
                              ELSE IF d \in calReq[r].old /\ d \in OfUser THEN "plain" ELSE calendars[d]]
    /\ UNCHANGED <<events, sent>>

(* delete_calendar refuses a default one, delete_calendar_by_id does again, *)
(* then removes the calendar with its events, whatever its flag is by then. *)
delete_calendar(r, c) == calendars[c] = "plain" /\ Checked(r, "delete", c, None)

DeleteSelect(r) ==
    Reads(r, "delete", {c \in Cal : c = calReq[r].cal /\ calendars[c] = "plain"}, "none")

delete_calendar_by_id(r) ==
    LET gone == calReq[r].old IN
    /\ Writes(r, "delete", "read")
    /\ calendars' = [c \in Cal |-> IF c \in gone THEN "deleted" ELSE calendars[c]]
    /\ events' = [e \in Event |-> IF Kept(e) /\ events[e].cal \in gone
                                  THEN [NoEvent EXCEPT !.state = "deleted"] ELSE events[e]]
    /\ UNCHANGED sent

create_event(r, c, e) == c \in OfUser /\ events[e].state = "unused" /\ Checked(r, "create", c, e)

insert_new_event(r) ==
    LET q == calReq[r] IN
    /\ Writes(r, "create", "checked") /\ events[q.event].state = "unused"
    /\ events' = [events EXCEPT ![q.event] =
                     [NoEvent EXCEPT !.state = "stored", !.cal = q.cal, !.rsvp = "pending"]]
    /\ UNCHANGED <<calendars, sent>>

(* update_event: access to the calendar it is in and the one it moves to. *)
update_event(r, c, e) == c \in OfUser /\ Kept(e) /\ Checked(r, "update", c, e)

UpdateSelect(r) ==
    LET e == calReq[r].event IN Reads(r, "update", {c \in Cal : c = calReq[r].cal /\ Kept(e)}, events[e].rsvp)

(* update_event_by_id: another calendar or start; alerted_at stays in meta; *)
(* set_attendees puts the answers back that it has read.                    *)
update_event_by_id(r) ==
    LET q == calReq[r] IN
    /\ Writes(r, "update", "read")
    /\ IF Kept(q.event) /\ q.old # {}
       THEN /\ events' = [events EXCEPT ![q.event].cal = q.cal, ![q.event].near = FALSE,
                                        ![q.event].rsvp = q.rsvp]
            /\ sent' = [sent EXCEPT ![q.event] = 0]
       ELSE UNCHANGED <<events, sent>>
    /\ UNCHANGED calendars

delete_event(r, e) == Kept(e) /\ Checked(r, "remove", None, e)

delete_event_by_id(r) ==
    /\ Writes(r, "remove", "checked")
    /\ events' = [events EXCEPT ![calReq[r].event] = [NoEvent EXCEPT !.state = "deleted"]]
    /\ UNCHANGED <<calendars, sent>>

rsvp_event(e) ==
    /\ Kept(e) /\ events[e].rsvp # "none" /\ calRequests < MaxCalRequests /\ calRequests' = calRequests + 1
    /\ events' = [events EXCEPT ![e].rsvp = "accepted"]
    /\ UNCHANGED <<calendars, calReq, poll, polls, markFails, sent, shared, together>>
-----------------------------------------------------------------------------
(* The start of an event comes within its alert time. *)
Nears(e) ==
    /\ Kept(e) /\ ~events[e].near
    /\ events' = [events EXCEPT ![e].near = TRUE]
    /\ UNCHANGED <<calendars, calReq, poll, calRequests, polls, markFails, sent, shared, together>>

(* _check_calendar_alerts: the events in their alert time are read once. *)
get_upcoming_events(p) ==
    /\ poll[p].step = "idle" /\ polls < MaxPolls /\ polls' = polls + 1
    /\ poll' = [poll EXCEPT ![p] = [step |-> "next", event |-> None,
                   todo |-> {e \in Event : Kept(e) /\ events[e].near /\ ~events[e].alerted}]]
    /\ shared' = (shared \/ \E q \in Process : poll[q].step # "idle")
    /\ UNCHANGED <<calendars, events, calReq, calRequests, markFails, sent, together>>

(* One event after the other: the alert goes out ... *)
Emit(p, e) ==
    /\ poll[p].step = "next" /\ e \in poll[p].todo
    /\ poll' = [poll EXCEPT ![p] = [step |-> "mark", event |-> e, todo |-> @.todo \ {e}]]
    /\ sent' = [sent EXCEPT ![e] = @ + 1]
    /\ UNCHANGED <<calendars, events, calReq, calRequests, polls, markFails, shared, together>>

(* ... and is marked in the row as it is by then. *)
Mark(p) ==
    LET e == poll[p].event IN
    /\ poll[p].step = "mark"
    /\ poll' = [poll EXCEPT ![p].step = "next", ![p].event = None]
    /\ events' = IF Kept(e) THEN [events EXCEPT ![e].alerted = TRUE] ELSE events
    /\ UNCHANGED <<calendars, calReq, calRequests, polls, markFails, sent, shared, together>>

(* The update raises; the exception is logged and the poll goes on. *)
MarkFails(p) ==
    /\ poll[p].step = "mark" /\ markFails < MaxMarkFails /\ markFails' = markFails + 1
    /\ poll' = [poll EXCEPT ![p].step = "next", ![p].event = None]
    /\ UNCHANGED <<calendars, events, calReq, calRequests, polls, sent, shared, together>>

PollEnds(p) ==
    /\ poll[p].step = "next" /\ poll[p].todo = {}
    /\ poll' = [poll EXCEPT ![p] = IdlePoll]
    /\ UNCHANGED <<calendars, events, calReq, calRequests, polls, markFails, sent, shared, together>>

CalNext ==
    \/ \E r \in CalClient :
          \/ \E c \in Cal :
                \/ get_or_create_defaults(r, c) \/ insert_new_calendar(r, c)
                \/ set_default_calendar(r, c) \/ delete_calendar(r, c)
          \/ \E c \in Cal, e \in Event : create_event(r, c, e) \/ update_event(r, c, e)
          \/ \E e \in Event : delete_event(r, e)
          \/ AddDefault(r) \/ ClearDefaults(r) \/ SetDefault(r) \/ DeleteSelect(r)
          \/ delete_calendar_by_id(r) \/ insert_new_event(r) \/ UpdateSelect(r)
          \/ update_event_by_id(r) \/ delete_event_by_id(r)
    \/ \E e \in Event : rsvp_event(e) \/ Nears(e)
    \/ \E p \in Process :
          \/ get_upcoming_events(p) \/ Mark(p) \/ MarkFails(p) \/ PollEnds(p)
          \/ \E e \in Event : Emit(p, e)

CalSpec == CalInit /\ [][CalNext]_calVars

-----------------------------------------------------------------------------
CalTypeOK ==
    /\ calendars \in [Cal -> {"unused", "plain", "default", "deleted"}]
    /\ events \in [Event -> [state : {"unused", "stored", "deleted"}, cal : Cal \cup {None},
                             near : BOOLEAN, alerted : BOOLEAN, rsvp : Rsvp]]
    /\ calReq \in [CalClient ->
          [op : {"none", "defaults", "default", "delete", "create", "update", "remove"},
           step : {"none", "checked", "read"}, cal : Cal \cup {None}, event : Event \cup {None},
           old : SUBSET Cal, rsvp : Rsvp]]
    /\ poll \in [Process -> [step : {"idle", "next", "mark"}, todo : SUBSET Event, event : Event \cup {None}]]
    /\ calRequests \in 0..MaxCalRequests /\ polls \in 0..MaxPolls /\ markFails \in 0..MaxMarkFails
    /\ sent \in [Event -> Nat] /\ shared \in BOOLEAN /\ together \in BOOLEAN

(* "De-duplication is DB-backed": across polls and restarts an event is     *)
(* alerted once for its start, unless two processes poll at the same time   *)
(* or the mark cannot be written.                                           *)
AlertNotRepeated == \A e \in Event : sent[e] <= 1 \/ shared \/ markFails > 0

(* The tables fit together whatever requests and polls run: at most one     *)
(* calendar is the default one, and every event is in a calendar that is    *)
(* there, unless two requests chose a default at the same time, or one put  *)
(* an event into a calendar another deleted.                                *)
CalendarsConsistent ==
    together \/ /\ Cardinality(Defaults) <= 1
                /\ \A e \in Event : Kept(e) => events[e].cal \in OfUser

(* Calendars and their alerts: one default, every event in a calendar that  *)
(* is there, an event alerted once for its start.                           *)
CalendarHolds == CalTypeOK /\ AlertNotRepeated /\ CalendarsConsistent
=============================================================================

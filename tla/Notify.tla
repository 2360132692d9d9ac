------------------------------- MODULE Notify -------------------------------
(***************************************************************************)
(* Notifications of one member: the rows (domain/notifications.ts), who a  *)
(* mention names (mentions.ts), the event stream (notifications/stream,    *)
(* realtime/notify-events.ts) and the bell in the browser (NotifBell.tsx,  *)
(* realtime/notif-feed.ts).                                                *)
(*                                                                         *)
(* A row is inserted, then emitted to the streams of the same server       *)
(* instance; a stream elsewhere learns of it at its next tick.  Events on  *)
(* the wire and answers to polls are in flight.                            *)
(***************************************************************************)
EXTENDS Naturals, FiniteSets, Sequences, SequencesExt, FiniteSetsExt

CONSTANTS Me,             \* the member whose bell it is
          Handles,        \* person -> handle, a sequence of letters
          Tokens,         \* what may be typed after an @
          MaxNotices,     \* bound on rows
          MaxTurns        \* bound on tray openings, polls, reconnects, changes of membership

VARIABLES
    notices,    \* how many rows there are
    read,       \* those that are read
    emits,      \* those inserted and not yet emitted
    member,     \* whether Me is an active member
    stream,     \* the stream: open, snapshot sent, lastUnread
    wire,       \* its events on the way
    bell,       \* badge, ids seen, transport, tray
    polls,      \* counts on the way to the bell
    missed,     \* the badge was overtaken, see Overtaken
    turns       \* tray openings and so on so far

notVars == <<notices, read, emits, member, stream, wire, bell, polls, missed, turns>>

notificationRow == 1..MaxNotices

NotInit ==
    /\ notices = 0 /\ read = {} /\ emits = {} /\ member = TRUE /\ wire = <<>> /\ missed = FALSE /\ turns = 0
    /\ stream = [open |-> FALSE, snap |-> FALSE, last |-> 0]
    /\ bell = [unread |-> 0, seen |-> {}, transport |-> "sse", tray |-> "closed"]
    /\ polls = {0}                     \* the poll that primes the badge

unreadCount == notices - Cardinality(read)

Turn == turns < MaxTurns /\ turns' = turns + 1

-----------------------------------------------------------------------------
(* Who is told. *)

(* The candidate named exactly, or the one with the longest handle that    *)
(* the token starts with.                                                  *)
parseMentions(token) ==
    LET exact == {p \in DOMAIN Handles : Handles[p] = token}
        prefix == {p \in DOMAIN Handles : IsPrefix(Handles[p], token)}
    IN  IF exact # {} THEN exact
        ELSE {p \in prefix : \A q \in prefix : Len(Handles[q]) <= Len(Handles[p])}

(* A row that makes the count what the stream believes it sent, or that    *)
(* falls into an opening of the tray, is not told again.                   *)
Overtaken == bell.tray # "closed" \/ (stream.open /\ unreadCount + 1 = stream.last)

Insert ==
    /\ notices < MaxNotices
    /\ notices' = notices + 1
    /\ emits' = emits \union {notices + 1}
    /\ missed' = (missed \/ Overtaken)
    /\ UNCHANGED <<read, member, stream, wire, bell, polls, turns>>

(* Nobody notifies themselves; membership does not matter. *)
notifyChannelMentions(actor, token) == actor # Me /\ Me \in parseMentions(token) /\ Insert

notifyTaskAssigned(actor) == actor # Me /\ Insert

(* To the stream, when it is on this instance. *)
emitNotify(id, here) ==
    /\ emits' = emits \ {id}
    /\ wire' = IF here /\ stream.open THEN Append(wire, [id |-> id]) ELSE wire
    /\ UNCHANGED <<notices, read, member, stream, bell, polls, missed, turns>>

-----------------------------------------------------------------------------
(* The stream. *)

(* A refusal is final for an EventSource: the bell polls from then on. *)
StreamOpens ==
    /\ bell.transport = "sse" /\ ~stream.open
    /\ IF member THEN stream' = [open |-> TRUE, snap |-> FALSE, last |-> MaxNotices + 1] /\ UNCHANGED bell
                 ELSE bell' = [bell EXCEPT !.transport = "poll"] /\ UNCHANGED stream
    /\ wire' = <<>>
    /\ UNCHANGED <<notices, read, emits, member, polls, missed, turns>>

Snapshot ==
    /\ stream.open /\ ~stream.snap
    /\ stream' = [stream EXCEPT !.snap = TRUE, !.last = unreadCount]
    /\ wire' = Append(wire, [unread |-> unreadCount])
    /\ UNCHANGED <<notices, read, emits, member, bell, polls, missed, turns>>

Closed == [open |-> FALSE, snap |-> FALSE, last |-> 0]

(* Mutant: a tick only keeps the connection alive. *)
TickHeartbeat ==
    /\ stream.open
    /\ stream' = IF member THEN stream ELSE Closed
    /\ UNCHANGED <<wire, notices, read, emits, member, bell, polls, missed, turns>>

(* Membership is checked again; a count is sent when it is another one. *)
Tick ==
    /\ stream.open
    /\ IF ~member THEN stream' = Closed /\ UNCHANGED wire
       ELSE /\ unreadCount # stream.last
            /\ stream' = [stream EXCEPT !.last = unreadCount, !.snap = TRUE]
            /\ wire' = Append(wire, [unread |-> unreadCount])
    /\ UNCHANGED <<notices, read, emits, member, bell, polls, missed, turns>>

(* The lifetime of a stream ends, or its connection: what is on the way is *)
(* lost, the browser opens the next one.  A fatal error leaves the poll.   *)
StreamEnds(fatal) ==
    /\ stream.open /\ Turn
    /\ stream' = Closed /\ wire' = <<>>
    /\ bell' = [bell EXCEPT !.transport = IF fatal THEN "poll" ELSE @]
    /\ UNCHANGED <<notices, read, emits, member, polls, missed>>

-----------------------------------------------------------------------------
(* The bell. *)

(* A count replaces the badge; a ping adds one, once. *)
ingest(event) ==
    bell' = IF "unread" \in DOMAIN event THEN [bell EXCEPT !.unread = event.unread]
            ELSE IF event.id \in bell.seen THEN bell
            ELSE [bell EXCEPT !.seen = @ \union {event.id}, !.unread = @ + 1]

Receive ==
    /\ wire # <<>>
    /\ ingest(Head(wire)) /\ wire' = Tail(wire)
    /\ UNCHANGED <<notices, read, emits, member, stream, polls, missed, turns>>

(* A poll that finds the count it has changes nothing and is left out. *)
poll ==
    /\ bell.transport = "poll" /\ member /\ polls = {} /\ bell.unread # unreadCount
    /\ polls' = {unreadCount}
    /\ UNCHANGED <<notices, read, emits, member, stream, wire, bell, missed, turns>>

(* An old count that lands between the stream's own. *)
Polled(n) ==
    /\ polls' = polls \ {n}
    /\ ingest([unread |-> n])
    /\ missed' = (missed \/ (n # unreadCount /\ bell.transport = "sse"))
    /\ UNCHANGED <<notices, read, emits, member, stream, wire, turns>>

PollFails(n) ==
    /\ polls' = polls \ {n} /\ Turn
    /\ UNCHANGED <<notices, read, emits, member, stream, wire, bell, missed>>

(* Opening the tray lists, marks everything read, then clears the badge,   *)
(* also when the server refused to mark.                                   *)
toggle ==
    /\ bell.tray = "closed" /\ Turn
    /\ bell' = [bell EXCEPT !.tray = "listed"]
    /\ UNCHANGED <<notices, read, emits, member, stream, wire, polls, missed>>

markRead ==
    /\ bell.tray = "listed"
    /\ read' = IF member THEN 1..notices ELSE read
    /\ missed' = (missed \/ ~member)
    /\ bell' = [bell EXCEPT !.tray = "marked"]
    /\ UNCHANGED <<notices, emits, member, stream, wire, polls, turns>>

clear ==
    /\ bell.tray = "marked"
    /\ bell' = [bell EXCEPT !.tray = "closed", !.unread = 0]
    /\ UNCHANGED <<notices, read, emits, member, stream, wire, polls, missed, turns>>

(* Offboarded, or back. *)
MembershipChanges ==
    /\ Turn /\ member' = ~member
    /\ UNCHANGED <<notices, read, emits, stream, wire, bell, polls, missed>>

-----------------------------------------------------------------------------
BellStep == StreamOpens \/ Snapshot \/ Tick \/ Receive \/ poll \/ (\E n \in polls : Polled(n)) \/ markRead \/ clear

NotNext ==
    \/ \E p \in DOMAIN Handles : notifyTaskAssigned(p) \/ \E t \in Tokens : notifyChannelMentions(p, t)
    \/ \E id \in emits, here \in BOOLEAN : emitNotify(id, here)
    \/ BellStep
    \/ \E fatal \in BOOLEAN : StreamEnds(fatal)
    \/ \E n \in polls : PollFails(n)
    \/ toggle \/ MembershipChanges

NotFair == /\ WF_notVars(StreamOpens) /\ WF_notVars(Snapshot) /\ WF_notVars(Tick) /\ WF_notVars(Receive)
           /\ WF_notVars(poll) /\ WF_notVars(\E n \in polls : Polled(n)) /\ WF_notVars(markRead \/ clear)

NotSpec == NotInit /\ [][NotNext]_notVars /\ NotFair

-----------------------------------------------------------------------------
(* A ping shows on the badge in the end: over a stream on the same server  *)
(* or another, after reconnects, and on the poll that replaces a stream;   *)
(* unless it is read, the membership ends, or it was overtaken.            *)
PingShown == (unreadCount # 0 /\ member) ~> (bell.unread # 0 \/ unreadCount = 0 \/ ~member \/ missed)

=============================================================================

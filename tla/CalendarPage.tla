---------------------------- MODULE CalendarPage ----------------------------
(***************************************************************************)
(* The calendar page (CalendarView.tsx): the range in view, the range that *)
(* is loaded and the loads under way, which are served and answered in any *)
(* order.  What the server has is a version that every saved event raises. *)
(* A day is a number; the agenda shows fewer days than the month grid.     *)
(***************************************************************************)
EXTENDS Naturals, FiniteSets

CONSTANTS Days,             \* the last day a range may start on
          Span,             \* view -> days it shows
          MaxLoads          \* bound on loads, steps and saved events

ASSUME CalendarPageAssumption == "agenda" \in DOMAIN Span /\ \A v \in DOMAIN Span : Span[v] \in Nat

VARIABLES
    page,       \* [view, anchor]
    version,    \* of the events the server has
    loaded,     \* the range whose events the page has, and their version: [from, to, seen]
    loads,      \* loads under way: [no, range, seen], seen once the server has read the events
    failed,     \* the last answer was an error
    since,      \* the version there was when a load was last asked for
    crossing,   \* that load was asked for while another was under way
    asks        \* loads, steps and saved events so far

pageVars == <<page, version, loaded, loads, failed, since, crossing, asks>>

range(p) == [from |-> p.anchor, to |-> p.anchor + Span[p.view]]

NotRead == 0

(* The page is rendered with the agenda of today. *)
PageInit ==
    /\ page = [view |-> "agenda", anchor |-> 1] /\ version = 1
    /\ loaded = [from |-> 1, to |-> 1 + Span["agenda"], seen |-> 1]
    /\ loads = {} /\ failed = FALSE /\ since = 1 /\ crossing = FALSE /\ asks = 0

Asking == asks < MaxLoads /\ asks' = asks + 1

Covers(big, small) == big.from <= small.from /\ small.to <= big.to

(* The range of p is asked for, after the loads in ls. *)
AskedFor(p, ls) ==
    /\ loads' = ls \union {[no |-> asks, range |-> range(p), seen |-> NotRead]}
    /\ since' = version /\ crossing' = (ls # {})

(* The effect: whenever the range or what is loaded changes. *)
LoadIfNeeded(p, l, ls) ==
    IF Covers(l, range(p)) THEN loads' = ls /\ UNCHANGED <<since, crossing>> ELSE AskedFor(p, ls)

(* Another anchor or another view. *)
shift(p) ==
    /\ Asking /\ p # page /\ page' = p
    /\ LoadIfNeeded(p, loaded, loads)
    /\ UNCHANGED <<version, loaded, failed>>

(* An event is saved, from this page or another; this one asks again when   *)
(* the answer to its own is there.                                         *)
EventSaved ==
    /\ Asking /\ version' = version + 1
    /\ UNCHANGED <<page, loaded, loads, failed, since, crossing>>

refresh ==
    /\ Asking /\ AskedFor(page, loads)
    /\ UNCHANGED <<page, version, loaded, failed>>

(* The server reads the events of a range. *)
listEventsInRange(l) ==
    /\ l.seen = NotRead
    /\ loads' = (loads \ {l}) \union {[no |-> l.no, range |-> l.range, seen |-> version]}
    /\ UNCHANGED <<page, version, loaded, failed, since, crossing, asks>>

(* What is loaded after an answer: events and range are replaced together. *)
Received(l) == [from |-> l.range.from, to |-> l.range.to, seen |-> l.seen]

(* Mutant: the effect does not depend on what is loaded. *)
loadRangeOnce(l) ==
    /\ Asking /\ l.seen # NotRead
    /\ loaded' = Received(l) /\ failed' = FALSE
    /\ loads' = loads \ {l}
    /\ UNCHANGED <<page, version, since, crossing>>

(* The effect runs again. *)
loadRange(l) ==
    /\ Asking /\ l.seen # NotRead
    /\ loaded' = Received(l) /\ failed' = FALSE
    /\ LoadIfNeeded(page, Received(l), loads \ {l})
    /\ UNCHANGED <<page, version>>

(* An error keeps the prior events, and nothing asks again. *)
LoadFails(l) ==
    /\ loads' = loads \ {l} /\ failed' = TRUE
    /\ UNCHANGED <<page, version, loaded, since, crossing, asks>>

PageNext ==
    \/ \E v \in DOMAIN Span, a \in 0..Days : shift([view |-> v, anchor |-> a])
    \/ refresh \/ EventSaved
    \/ \E l \in loads : listEventsInRange(l) \/ loadRange(l) \/ LoadFails(l)

PageSpec == PageInit /\ [][PageNext]_pageVars

(* Once nothing is under way, the page has the events of the range it      *)
(* shows, in whatever order the loads of ranges left behind came back, and *)
(* has them as the server did when it last asked, or later; unless a load  *)
(* failed, or, for how old they are, was asked for while another was under *)
(* way.                                                                    *)
ShownCovered ==
    loads = {} /\ ~failed => /\ Covers(loaded, range(page))
                             /\ crossing \/ loaded.seen >= since

=============================================================================

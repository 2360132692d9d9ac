---------------------------- MODULE DomainStore ----------------------------
(***************************************************************************)
(* The replicated records of a space: src/crates/comms-core/src/domain/.   *)
(* Every member folds domain events into its own DomainStore; a field is   *)
(* settled by the greater Lamport clock (counter, then actor), a deletion  *)
(* by a tombstone.  Here members emit events, receive them in any order    *)
(* and more than once, observe clocks, and join from another member's      *)
(* snapshot.                                                               *)
(*                                                                         *)
(* An entity stands for its (type, id) pair.  The typed views are          *)
(* projections of a record and are left out, as is space_id, which is the  *)
(* same in all events of an entity.  A clock of counter 0, which tick      *)
(* never returns, stands for "no value" in a cell and "not deleted".       *)
(***************************************************************************)
EXTENDS Naturals, FiniteSets

CONSTANTS Actors,                  \* wallets, as the numbers they compare as
          Entities, Fields, Values,
          NoValue,                 \* of a field never written
          MaxEvents                \* bound on the events of a behaviour

ASSUME ActorsAssumption == Actors \subseteq Nat
ASSUME NoValueAssumption == NoValue \notin Values
ASSUME MaxEventsAssumption == MaxEvents \in Nat

VARIABLES
    clock,    \* actor -> counter of its LamportClock
    store,    \* actor -> entity -> EntityRecord
    events,   \* every event ever emitted
    seen      \* history: actor -> events folded into its store

vars == <<clock, store, events, seen>>

Clocks == [counter : Nat, actor : Nat]
NoClock == [counter |-> 0, actor |-> 0]
Blank == [value |-> NoValue, clock |-> NoClock]

(* The derived order of Lamport: by counter, then by actor. *)
LessByCounter(c, d) == c.counter < d.counter
Less(c, d) ==
    \/ c.counter < d.counter
    \/ c.counter = d.counter /\ c.actor < d.actor

(* The fields an Upsert names; Delete names none. *)
Writes == UNION {[F -> Values] : F \in SUBSET Fields}
Events == [entity : Entities, delete : BOOLEAN, fields : Writes, clock : Clocks]

Cells == [value : Values \cup {NoValue}, clock : Clocks]
EntityRecord == [present : BOOLEAN, fields : [Fields -> Cells], deleted : Clocks]
NewRecord == [present |-> FALSE, fields |-> [f \in Fields |-> Blank], deleted |-> NoClock]
NewStore == [x \in Entities |-> NewRecord]

---------------------------------------------------------------------------
(* apply                                                                   *)

Newer(c, e) == Less(c, e.clock)

Upserted(r, e) ==
    [r EXCEPT !.present = TRUE,
              !.fields = [f \in Fields |->
                             IF f \in DOMAIN e.fields /\ Newer(r.fields[f].clock, e)
                             THEN [value |-> e.fields[f], clock |-> e.clock]
                             ELSE r.fields[f]]]

(* A deletion that forgets the tombstone's clock of an earlier one. *)
DeletedLast(r, e) == [r EXCEPT !.present = TRUE, !.deleted = e.clock]
Deleted(r, e) ==
    [r EXCEPT !.present = TRUE,
              !.deleted = IF Newer(r.deleted, e) THEN e.clock ELSE r.deleted]

Applied(r, e) == IF e.delete THEN Deleted(r, e) ELSE Upserted(r, e)

Folded(s, e) == [s EXCEPT ![e.entity] = Applied(@, e)]

(* live(): what a member shows. *)
Revived(r) == r.present /\ \A f \in Fields : ~Less(r.fields[f].clock, r.deleted)
Live(r) == r.present /\ r.deleted = NoClock

---------------------------------------------------------------------------
Init ==
    /\ clock = [a \in Actors |-> 0]
    /\ store = [a \in Actors |-> NewStore]
    /\ events = {} /\ seen = [a \in Actors |-> {}]

(* Building an event takes the next clock; the emitter folds it, or not,    *)
(* like any other member.                                                  *)
Tick(a) == clock[a] + 1

Emit(a, x, del, w) ==
    LET e == [entity |-> x, delete |-> del, fields |-> w,
              clock |-> [counter |-> Tick(a), actor |-> a]]
    IN
    /\ Cardinality(events) < MaxEvents
    /\ clock' = [clock EXCEPT ![a] = Tick(a)]
    /\ events' = events \cup {e}
    /\ UNCHANGED <<store, seen>>

(* A delivered event is folded; the receiver's own clock is not moved.      *)
Receive(a, e) ==
    /\ store' = [store EXCEPT ![a] = Folded(@, e)]
    /\ seen' = [seen EXCEPT ![a] = @ \cup {e}]
    /\ UNCHANGED <<clock, events>>

(* LamportClock::observe. *)
Observe(a, e) ==
    /\ e.clock.counter > clock[a]
    /\ clock' = [clock EXCEPT ![a] = e.clock.counter]
    /\ UNCHANGED <<store, events, seen>>

(* from_snapshot: a new member takes over b's store.                        *)
Join(a, b) ==
    /\ seen[a] = {} /\ seen[b] # {}
    /\ store' = [store EXCEPT ![a] = store[b]]
    /\ seen' = [seen EXCEPT ![a] = seen[b]]
    /\ UNCHANGED <<clock, events>>

Next ==
    \E a \in Actors :
        \/ \E x \in Entities, w \in Writes : Emit(a, x, FALSE, w)
        \/ \E x \in Entities : Emit(a, x, TRUE, [f \in {} |-> NoValue])
        \/ \E e \in events : Receive(a, e) \/ Observe(a, e)
        \/ \E b \in Actors : Join(a, b)

Spec == Init /\ [][Next]_vars

---------------------------------------------------------------------------
(* Properties.                                                             *)

(* Every variable has its type, and every event a clock that tick returned. *)
TypeOK ==
    /\ clock \in [Actors -> Nat]
    /\ store \in [Actors -> [Entities -> EntityRecord]]
    /\ events \subseteq Events
    /\ seen \in [Actors -> SUBSET events]
    /\ \A e \in events : e.clock.counter > 0 /\ e.clock.actor \in Actors

(* The events of S that write field f of x, and those that delete x. *)
Writing(S, x, f) == {e \in S : e.entity = x /\ ~e.delete /\ f \in DOMAIN e.fields}
Deleting(S, x) == {e \in S : e.entity = x /\ e.delete}

Greatest(e, S) == e \in S /\ \A d \in S : ~Less(e.clock, d.clock)

(* The record of x that last-writer-wins prescribes for the events in S,    *)
(* without regard to the order they came in.                               *)
PrescribedCell(cell, W, f) ==
    \/ W = {} /\ cell = Blank
    \/ \E e \in W : Greatest(e, W) /\ cell = [value |-> e.fields[f], clock |-> e.clock]

PrescribedTombstone(c, D) ==
    \/ D = {} /\ c = NoClock
    \/ \E e \in D : Greatest(e, D) /\ c = e.clock

Prescribed(r, S, x) ==
    /\ r.present <=> \E e \in S : e.entity = x
    /\ \A f \in Fields : PrescribedCell(r.fields[f], Writing(S, x, f), f)
    /\ PrescribedTombstone(r.deleted, Deleting(S, x))

(* However the events arrived, in what order, how often, directly or        *)
(* through a snapshot, a store holds for every field the value of the       *)
(* greatest event seen that writes it, and the greatest tombstone.          *)
FoldIsLWW ==
    \A a \in Actors, x \in Entities : Prescribed(store[a][x], seen[a], x)

(* "every member that has seen the same set of events holds the same state" *)
(* (store.rs:62).                                                          *)
Converged ==
    \A a, b \in Actors : seen[a] = seen[b] => store[a] = store[b]

(* Members agree on every entity as far as they know the same events.       *)
Convergent == FoldIsLWW /\ Converged

(* A deleted entity does not come back: no event, late, repeated or newer,   *)
(* and no snapshot makes it live again in a store that saw the deletion.    *)
TombstoneStays ==
    [][\A a \in Actors, x \in Entities :
          store[a][x].present /\ ~Live(store[a][x]) => ~Live(store'[a][x])]_vars
=============================================================================

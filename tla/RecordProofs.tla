--------------------------- MODULE RecordProofs ---------------------------
(***************************************************************************)
(* Theorems about records that several people change at a time.            *)
(*                                                                         *)
(* DomainStore, for any number of members, entities, fields and events.    *)
(* FoldIsInvariant: whatever the order and the number of times events      *)
(* arrive, every store is the last-writer-wins record of the events it has *)
(* seen.  Convergence: stores that have seen the same events are equal; it *)
(* rests on the first and on clocks that name one event each (Stamps).     *)
(* TombstoneStaysHolds: what is deleted stays deleted.                     *)
(*                                                                         *)
(* Screens, for any number of pages, cards, events and requests: a board's *)
(* and the calendar's copy differ from the server only by what is on the   *)
(* way (ScreensTrueHolds).                                                 *)
(*                                                                         *)
(* Crm, for any number of records, requests and dedupe runs: nothing stays *)
(* that points at a record that is gone, but for what was written while it *)
(* went (NoDanglingHolds), and a dedupe run that has the CRM for itself    *)
(* leaves no doubles (NoDoublesHolds).                                     *)
(*                                                                         *)
(* Imports, for any number of sheets, rows, jobs and workers: what is      *)
(* sensitive stays hidden (SensitiveHiddenHolds), workers that do not      *)
(* overlap make no duplicates (NoDuplicatesHolds), and a job that is done  *)
(* accounts for every row (ImportAccountedHolds).                          *)
(***************************************************************************)
EXTENDS DomainStore, Crm, Screens, Imports, FiniteSetTheorems, SequenceTheorems, WellFoundedInduction,
        TLAPS

-----------------------------------------------------------------------------
(* DomainStore: clocks, events and stores.                                 *)

(* The order of Lamport clocks is a strict total order.                    *)
LEMMA LessOrder ==
    ASSUME NEW b \in Clocks, NEW c \in Clocks, NEW d \in Clocks
    PROVE  /\ ~Less(c, c)
           /\ Less(b, c) /\ Less(c, d) => Less(b, d)
           /\ Less(c, d) \/ Less(d, c) \/ c = d
           /\ c.counter > 0 => Less(NoClock, c)
  BY DEF Less, Clocks, NoClock

(* apply yields a record.                                                  *)
LEMMA AppliedType ==
    ASSUME NEW r \in EntityRecord, NEW e \in Events
    PROVE  Applied(r, e) \in EntityRecord
<1>1. Deleted(r, e) \in EntityRecord
  BY DEF EntityRecord, Events, Deleted
<1>2. Upserted(r, e) \in EntityRecord
  <2>1. ASSUME NEW f \in Fields, f \in DOMAIN e.fields PROVE e.fields[f] \in Values
    BY <2>1 DEF Events, Writes
  <2> QED BY <2>1 DEF EntityRecord, Events, Upserted, Cells
<1> QED BY <1>1, <1>2 DEF Applied

(* What an event does to a store of the types.                             *)
LEMMA FoldedType ==
    ASSUME NEW s \in [Entities -> EntityRecord], NEW e \in Events
    PROVE  Folded(s, e) \in [Entities -> EntityRecord]
  BY AppliedType DEF Folded, Events

(* DomainStore::new.                                                       *)
LEMMA NewStoreType == NewStore \in [Entities -> EntityRecord]
  BY DEF NewStore, NewRecord, EntityRecord, Blank, Cells, Clocks, NoClock

(* The event Emit builds.                                                  *)
LEMMA EmittedType ==
    ASSUME TypeOK, NEW a \in Actors, NEW x \in Entities, NEW gone \in BOOLEAN,
           NEW w \in Writes
    PROVE  /\ [entity |-> x, delete |-> gone, fields |-> w,
               clock |-> [counter |-> Tick(a), actor |-> a]] \in Events
           /\ Tick(a) \in Nat /\ Tick(a) > 0
  BY ActorsAssumption DEF TypeOK, Events, Clocks, Tick

(* The fields of a Delete.                                                 *)
LEMMA NoWrite == [f \in {} |-> NoValue] \in Writes
<1>1. [f \in {} |-> NoValue] \in [{} -> Values]
  OBVIOUS
<1> QED BY <1>1 DEF Writes

(* Every step keeps the types.                                             *)
LEMMA TypeStep ==
    ASSUME TypeOK, [Next]_vars
    PROVE  TypeOK'
<1>1. ASSUME NEW a \in Actors, NEW x \in Entities, NEW gone \in BOOLEAN,
             NEW w \in Writes, Emit(a, x, gone, w)
      PROVE  TypeOK'
  <2> DEFINE e == [entity |-> x, delete |-> gone, fields |-> w,
                   clock |-> [counter |-> Tick(a), actor |-> a]]
  <2>1. e \in Events /\ Tick(a) \in Nat /\ Tick(a) > 0
    BY <1>1, EmittedType
  <2>2. /\ clock' = [clock EXCEPT ![a] = Tick(a)]
        /\ events' = events \cup {e}
        /\ store' = store /\ seen' = seen
    BY <1>1 DEF Emit
  <2>3. e.clock.counter = Tick(a) /\ e.clock.actor = a
    OBVIOUS
  <2> HIDE DEF e
  <2> QED BY <2>1, <2>2, <2>3 DEF TypeOK
<1>2. ASSUME NEW a \in Actors, NEW e \in events, Receive(a, e) PROVE TypeOK'
  BY <1>2, FoldedType DEF Receive, TypeOK
<1>3. ASSUME NEW a \in Actors, NEW e \in events, Observe(a, e) PROVE TypeOK'
  BY <1>3 DEF Observe, TypeOK, Events, Clocks
<1>4. ASSUME NEW a \in Actors, NEW b \in Actors, Join(a, b) PROVE TypeOK'
  BY <1>4 DEF Join, TypeOK
<1>5. CASE UNCHANGED vars
  BY <1>5 DEF vars, TypeOK
<1> QED
  BY <1>1, <1>2, <1>3, <1>4, <1>5, NoWrite DEF Next

(* Every variable keeps its type.                                          *)
THEOREM TypeCorrect == Spec => []TypeOK
<1>1. Init => TypeOK
  BY NewStoreType DEF Init, TypeOK
<1> QED BY <1>1, TypeStep, PTL DEF Spec

---------------------------------------------------------------------------
(* Sets of events that tick has stamped. *)
Stamped(S) == S \subseteq Events /\ \A e \in S : e.clock.counter > 0

(* An event of another entity changes nothing for x.                       *)
LEMMA OtherEntity ==
    ASSUME NEW r, NEW S, NEW x, NEW e, e.entity # x, Prescribed(r, S, x)
    PROVE  Prescribed(r, S \cup {e}, x)
<1>1. \A f : Writing(S \cup {e}, x, f) = Writing(S, x, f)
  BY DEF Writing
<1>2. Deleting(S \cup {e}, x) = Deleting(S, x)
  BY DEF Deleting
<1>3. (\E d \in S \cup {e} : d.entity = x) <=> (\E d \in S : d.entity = x)
  OBVIOUS
<1> QED BY <1>1, <1>2, <1>3 DEF Prescribed

(* The greater of a greatest element and a new one is greatest.             *)
LEMMA GreatestGrows ==
    ASSUME NEW W, Stamped(W), NEW e \in Events, e.clock.counter > 0,
           NEW d, Greatest(d, W)
    PROVE  /\ Less(d.clock, e.clock) => Greatest(e, W \cup {e})
           /\ ~Less(d.clock, e.clock) => Greatest(d, W \cup {e})
<1>1. \A c \in W \cup {e} : c.clock \in Clocks
  BY DEF Stamped, Events
<1>2. d \in W
  BY DEF Greatest
<1>3. ASSUME Less(d.clock, e.clock), NEW c \in W \cup {e} PROVE ~Less(e.clock, c.clock)
  BY <1>1, <1>2, <1>3, LessOrder DEF Greatest
<1> QED BY <1>2, <1>3 DEF Greatest

(* One field of an upsert.                                                 *)
LEMMA UpsertedField ==
    ASSUME NEW cell \in Cells, NEW W, Stamped(W), NEW f,
           NEW e \in Events, e.clock.counter > 0, PrescribedCell(cell, W, f)
    PROVE  PrescribedCell(IF Newer(cell.clock, e)
                          THEN [value |-> e.fields[f], clock |-> e.clock] ELSE cell,
                          W \cup {e}, f)
<1>1. CASE W = {} /\ cell = Blank
  <2>1. Newer(cell.clock, e)
    BY <1>1, LessOrder DEF Newer, Blank, Events
  <2>2. Greatest(e, W \cup {e})
    BY <1>1, LessOrder DEF Greatest, Events
  <2> QED BY <2>1, <2>2 DEF PrescribedCell
<1>2. ASSUME NEW d \in W, Greatest(d, W),
             cell = [value |-> d.fields[f], clock |-> d.clock]
      PROVE  PrescribedCell(IF Newer(cell.clock, e)
                            THEN [value |-> e.fields[f], clock |-> e.clock] ELSE cell,
                            W \cup {e}, f)
  <2>1. Newer(cell.clock, e) <=> Less(d.clock, e.clock)
    BY <1>2 DEF Newer
  <2>2. CASE Less(d.clock, e.clock)
    <3>1. Greatest(e, W \cup {e})
      BY <1>2, <2>2, GreatestGrows
    <3> QED BY <2>1, <2>2, <3>1 DEF PrescribedCell
  <2>3. CASE ~Less(d.clock, e.clock)
    <3>1. Greatest(d, W \cup {e})
      BY <1>2, <2>3, GreatestGrows
    <3> QED BY <1>2, <2>1, <2>3, <3>1 DEF PrescribedCell
  <2> QED BY <2>2, <2>3
<1> QED BY <1>1, <1>2 DEF PrescribedCell

(* The tombstone of a deletion.                                            *)
LEMMA DeletedTombstone ==
    ASSUME NEW c, NEW D, Stamped(D), NEW e \in Events, e.clock.counter > 0,
           PrescribedTombstone(c, D)
    PROVE  PrescribedTombstone(IF Newer(c, e) THEN e.clock ELSE c, D \cup {e})
<1>1. CASE D = {} /\ c = NoClock
  <2>1. Newer(c, e)
    BY <1>1, LessOrder DEF Newer, Events
  <2>2. Greatest(e, D \cup {e})
    BY <1>1, LessOrder DEF Greatest, Events
  <2> QED BY <2>1, <2>2 DEF PrescribedTombstone
<1>2. ASSUME NEW d \in D, Greatest(d, D), c = d.clock
      PROVE  PrescribedTombstone(IF Newer(c, e) THEN e.clock ELSE c, D \cup {e})
  BY <1>2, GreatestGrows DEF Newer, PrescribedTombstone
<1> QED BY <1>1, <1>2 DEF PrescribedTombstone

(* apply takes the record of S to the record of S and the event, also when *)
(* the event was in S already.                                             *)
LEMMA AppliedPrescribed ==
    ASSUME NEW r \in EntityRecord, NEW S, Stamped(S), NEW x \in Entities,
           NEW e \in Events, e.clock.counter > 0, e.entity = x,
           Prescribed(r, S, x)
    PROVE  Prescribed(Applied(r, e), S \cup {e}, x)
<1>0. \E d \in S \cup {e} : d.entity = x
  OBVIOUS
<1>1. CASE e.delete
  <2> DEFINE q == Deleted(r, e)
  <2>1. /\ q.present = TRUE /\ q.fields = r.fields
        /\ q.deleted = IF Newer(r.deleted, e) THEN e.clock ELSE r.deleted
    BY DEF Deleted, EntityRecord
  <2>2. \A f : Writing(S \cup {e}, x, f) = Writing(S, x, f)
    BY <1>1 DEF Writing
  <2>3. Deleting(S \cup {e}, x) = Deleting(S, x) \cup {e}
    BY <1>1 DEF Deleting
  <2>4. Stamped(Deleting(S, x))
    BY DEF Stamped, Deleting
  <2>5. PrescribedTombstone(r.deleted, Deleting(S, x))
    BY DEF Prescribed
  <2>6. PrescribedTombstone(q.deleted, Deleting(S \cup {e}, x))
    BY <2>1, <2>3, <2>4, <2>5, DeletedTombstone
  <2>7. \A f \in Fields : PrescribedCell(q.fields[f], Writing(S \cup {e}, x, f), f)
    BY <2>1, <2>2 DEF Prescribed
  <2> HIDE DEF q
  <2>8. Prescribed(q, S \cup {e}, x)
    BY <1>0, <2>1, <2>6, <2>7 DEF Prescribed
  <2> QED BY <1>1, <2>8 DEF Applied, q
<1>2. CASE ~e.delete
  <2> DEFINE q == Upserted(r, e)
  <2>1. /\ q.present = TRUE /\ q.deleted = r.deleted
        /\ \A f \in Fields : q.fields[f] =
              IF f \in DOMAIN e.fields /\ Newer(r.fields[f].clock, e)
              THEN [value |-> e.fields[f], clock |-> e.clock] ELSE r.fields[f]
    BY DEF Upserted, EntityRecord
  <2>2. Deleting(S \cup {e}, x) = Deleting(S, x)
    BY <1>2 DEF Deleting
  <2>3. PrescribedTombstone(r.deleted, Deleting(S, x))
    BY DEF Prescribed
  <2>4. ASSUME NEW f \in Fields
        PROVE  PrescribedCell(q.fields[f], Writing(S \cup {e}, x, f), f)
    <3>1. PrescribedCell(r.fields[f], Writing(S, x, f), f) /\ r.fields[f] \in Cells
      BY DEF Prescribed, EntityRecord
    <3>2. CASE f \notin DOMAIN e.fields
      <4>1. Writing(S \cup {e}, x, f) = Writing(S, x, f)
        BY <3>2 DEF Writing
      <4>2. q.fields[f] = r.fields[f]
        BY <2>1, <3>2
      <4> QED BY <3>1, <4>1, <4>2
    <3>3. CASE f \in DOMAIN e.fields
      <4>1. Writing(S \cup {e}, x, f) = Writing(S, x, f) \cup {e}
        BY <1>2, <3>3 DEF Writing
      <4>2. Stamped(Writing(S, x, f))
        BY DEF Stamped, Writing
      <4>3. q.fields[f] = IF Newer(r.fields[f].clock, e)
                          THEN [value |-> e.fields[f], clock |-> e.clock]
                          ELSE r.fields[f]
        BY <2>1, <3>3
      <4>4. PrescribedCell(IF Newer(r.fields[f].clock, e)
                           THEN [value |-> e.fields[f], clock |-> e.clock]
                           ELSE r.fields[f], Writing(S, x, f) \cup {e}, f)
        BY <3>1, <4>2, UpsertedField
      <4> QED BY <4>1, <4>3, <4>4
    <3> QED BY <3>2, <3>3
  <2> HIDE DEF q
  <2>5. Prescribed(q, S \cup {e}, x)
    BY <1>0, <2>1, <2>2, <2>3, <2>4 DEF Prescribed
  <2> QED BY <1>2, <2>5 DEF Applied, q
<1> QED BY <1>1, <1>2

(* Folding an event into a store that holds what its events prescribe.     *)
LEMMA FoldedPrescribed ==
    ASSUME NEW s \in [Entities -> EntityRecord], NEW S, Stamped(S),
           NEW e \in Events, e.clock.counter > 0,
           \A x \in Entities : Prescribed(s[x], S, x)
    PROVE  \A x \in Entities : Prescribed(Folded(s, e)[x], S \cup {e}, x)
<1> SUFFICES ASSUME NEW x \in Entities
             PROVE  Prescribed(Folded(s, e)[x], S \cup {e}, x)
  OBVIOUS
<1>1. CASE e.entity = x
  <2>1. Folded(s, e)[x] = Applied(s[x], e)
    BY <1>1 DEF Folded
  <2>2. Prescribed(Applied(s[x], e), S \cup {e}, x)
    BY <1>1, AppliedPrescribed
  <2> QED BY <2>1, <2>2
<1>2. CASE e.entity # x
  <2>1. Folded(s, e)[x] = s[x]
    BY <1>2 DEF Folded
  <2>2. Prescribed(s[x], S \cup {e}, x)
    BY <1>2, OtherEntity
  <2> QED BY <2>1, <2>2
<1> QED BY <1>1, <1>2

(* A store without events.                                                 *)
LEMMA NewStorePrescribed ==
    ASSUME NEW x \in Entities
    PROVE  Prescribed(NewStore[x], {}, x)
  BY DEF NewStore, NewRecord, Prescribed, PrescribedCell, PrescribedTombstone,
         Writing, Deleting

(* Folding e at a.                                                         *)
LEMMA FoldAtOne ==
    ASSUME TypeOK, FoldIsLWW, NEW a \in Actors, NEW e \in Events,
           e.clock.counter > 0,
           store' = [store EXCEPT ![a] = Folded(store[a], e)],
           seen' = [seen EXCEPT ![a] = seen[a] \cup {e}]
    PROVE  FoldIsLWW'
<1>1. Stamped(seen[a]) /\ store[a] \in [Entities -> EntityRecord]
  BY DEF Stamped, TypeOK
<1>2. \A x \in Entities : Prescribed(Folded(store[a], e)[x], seen[a] \cup {e}, x)
  BY <1>1, FoldedPrescribed DEF FoldIsLWW
<1>3. ASSUME NEW b \in Actors, NEW x \in Entities
      PROVE  Prescribed(store'[b][x], seen'[b], x)
  <2>1. CASE b = a
    BY <1>2, <2>1 DEF TypeOK
  <2>2. CASE b # a
    <3>1. store'[b] = store[b] /\ seen'[b] = seen[b]
      BY <2>2 DEF TypeOK
    <3> QED BY <3>1 DEF FoldIsLWW
  <2> QED BY <2>1, <2>2
<1> QED BY <1>3 DEF FoldIsLWW

(* Every step keeps each store the record of the events it has seen.       *)
LEMMA FoldStep ==
    ASSUME TypeOK, FoldIsLWW, [Next]_vars
    PROVE  FoldIsLWW'
<1>1. ASSUME NEW a \in Actors, NEW x \in Entities, NEW gone \in BOOLEAN,
             NEW w \in Writes, Emit(a, x, gone, w)
      PROVE  FoldIsLWW'
  BY <1>1 DEF Emit, FoldIsLWW
<1>2. ASSUME NEW a \in Actors, NEW e \in events, Receive(a, e) PROVE FoldIsLWW'
  <2>1. e \in Events /\ e.clock.counter > 0
    BY DEF TypeOK
  <2>2. /\ store' = [store EXCEPT ![a] = Folded(store[a], e)]
        /\ seen' = [seen EXCEPT ![a] = seen[a] \cup {e}]
    BY <1>2 DEF Receive, TypeOK
  <2> QED BY <2>1, <2>2, FoldAtOne
<1>3. ASSUME NEW a \in Actors, NEW e \in events, Observe(a, e) PROVE FoldIsLWW'
  BY <1>3 DEF Observe, FoldIsLWW
<1>4. ASSUME NEW a \in Actors, NEW b \in Actors, Join(a, b) PROVE FoldIsLWW'
  <2>1. ASSUME NEW c \in Actors, NEW x \in Entities
        PROVE  Prescribed(store'[c][x], seen'[c], x)
    <3>1. \E d \in Actors : store'[c] = store[d] /\ seen'[c] = seen[d]
      BY <1>4 DEF Join, TypeOK
    <3> QED BY <3>1 DEF FoldIsLWW
  <2> QED BY <2>1 DEF FoldIsLWW
<1>5. CASE UNCHANGED vars
  BY <1>5 DEF vars, FoldIsLWW
<1> QED
  BY <1>1, <1>2, <1>3, <1>4, <1>5, NoWrite DEF Next

(* However events arrive, a store is the last-writer-wins record of the     *)
(* events it has seen.                                                     *)
THEOREM FoldIsInvariant == Spec => []FoldIsLWW
<1>1. Init => FoldIsLWW
  BY NewStorePrescribed DEF Init, FoldIsLWW
<1> QED BY <1>1, FoldStep, TypeCorrect, PTL DEF Spec

---------------------------------------------------------------------------
(* A clock names one event, and no event is ahead of its actor's clock. *)
Stamps ==
    /\ \A d, e \in events : d.clock = e.clock => d = e
    /\ \A e \in events : e.clock.counter <= clock[e.clock.actor]

(* tick hands out no clock twice.                                          *)
LEMMA StampsStep ==
    ASSUME TypeOK, Stamps, [Next]_vars
    PROVE  Stamps'
<1>1. ASSUME NEW a \in Actors, NEW x \in Entities, NEW gone \in BOOLEAN,
             NEW w \in Writes, Emit(a, x, gone, w)
      PROVE  Stamps'
  <2> DEFINE e == [entity |-> x, delete |-> gone, fields |-> w,
                   clock |-> [counter |-> Tick(a), actor |-> a]]
  <2>1. events' = events \cup {e} /\ clock' = [clock EXCEPT ![a] = clock[a] + 1]
    BY <1>1 DEF Emit, Tick
  <2>2. e.clock.counter = clock[a] + 1 /\ e.clock.actor = a
    BY DEF Tick
  <2> HIDE DEF e
  <2>3. \A d \in events : d.clock.counter \in Nat /\ d.clock.actor \in Actors
    BY DEF TypeOK, Events, Clocks
  <2>4. \A d \in events : d.clock # e.clock
    <3> SUFFICES ASSUME NEW d \in events, d.clock = e.clock PROVE FALSE
      OBVIOUS
    <3>1. d.clock.counter = clock[a] + 1 /\ d.clock.actor = a
      BY <2>2
    <3>2. d.clock.counter <= clock[a]
      BY <3>1 DEF Stamps
    <3> QED BY <3>1, <3>2 DEF TypeOK
  <2>5. \A d \in events : d.clock.counter <= clock'[d.clock.actor]
    BY <2>1, <2>3 DEF Stamps, TypeOK
  <2>6. e.clock.counter <= clock'[e.clock.actor]
    BY <2>1, <2>2 DEF TypeOK
  <2> QED BY <2>1, <2>4, <2>5, <2>6 DEF Stamps
<1>2. ASSUME NEW a \in Actors, NEW e \in events, Receive(a, e) PROVE Stamps'
  BY <1>2 DEF Receive, Stamps
<1>3. ASSUME NEW a \in Actors, NEW e \in events, Observe(a, e) PROVE Stamps'
  <2>1. \A d \in events : d.clock.counter \in Nat /\ d.clock.actor \in Actors
    BY DEF TypeOK, Events, Clocks
  <2> QED BY <1>3, <2>1 DEF Observe, Stamps, TypeOK
<1>4. ASSUME NEW a \in Actors, NEW b \in Actors, Join(a, b) PROVE Stamps'
  BY <1>4 DEF Join, Stamps
<1>5. CASE UNCHANGED vars
  BY <1>5 DEF vars, Stamps
<1> QED
  BY <1>1, <1>2, <1>3, <1>4, <1>5, NoWrite DEF Next

(* With clocks that name one event, the greatest event is one.             *)
LEMMA OneGreatest ==
    ASSUME TypeOK, Stamps, NEW W \in SUBSET events, NEW d, NEW e,
           Greatest(d, W), Greatest(e, W)
    PROVE  d = e
<1>1. d \in events /\ e \in events /\ d.clock \in Clocks /\ e.clock \in Clocks
  BY DEF Greatest, TypeOK, Events
<1>2. ~Less(d.clock, e.clock) /\ ~Less(e.clock, d.clock)
  BY DEF Greatest
<1>3. d.clock = e.clock
  BY <1>1, <1>2, LessOrder
<1> QED BY <1>1, <1>3 DEF Stamps

(* The events seen determine the record.                                   *)
LEMMA PrescribedUnique ==
    ASSUME TypeOK, Stamps, NEW S \in SUBSET events, NEW x,
           NEW r \in EntityRecord, NEW q \in EntityRecord,
           Prescribed(r, S, x), Prescribed(q, S, x)
    PROVE  r = q
<1>1. r.present = q.present
  BY DEF Prescribed, EntityRecord
<1>2. ASSUME NEW f \in Fields PROVE r.fields[f] = q.fields[f]
  <2> DEFINE W == Writing(S, x, f)
  <2>1. W \in SUBSET events
    BY DEF Writing
  <2>2. PrescribedCell(r.fields[f], W, f) /\ PrescribedCell(q.fields[f], W, f)
    BY DEF Prescribed
  <2> HIDE DEF W
  <2> QED BY <2>1, <2>2, OneGreatest DEF PrescribedCell, Greatest
<1>3. r.deleted = q.deleted
  <2> DEFINE D == Deleting(S, x)
  <2>1. D \in SUBSET events
    BY DEF Deleting
  <2>2. PrescribedTombstone(r.deleted, D) /\ PrescribedTombstone(q.deleted, D)
    BY DEF Prescribed
  <2> HIDE DEF D
  <2> QED BY <2>1, <2>2, OneGreatest DEF PrescribedTombstone, Greatest
<1>4. r.fields = q.fields
  BY <1>2 DEF EntityRecord
<1> QED BY <1>1, <1>3, <1>4 DEF EntityRecord

(* Stores that have seen the same events are equal.                        *)
THEOREM Convergence == Spec => []Converged
<1>1. Init => Stamps
  BY DEF Init, Stamps
<1>2. ASSUME TypeOK, FoldIsLWW, Stamps PROVE Converged
  <2> SUFFICES ASSUME NEW a \in Actors, NEW b \in Actors, seen[a] = seen[b]
               PROVE  store[a] = store[b]
    BY DEF Converged
  <2>1. ASSUME NEW x \in Entities PROVE store[a][x] = store[b][x]
    <3>1. /\ seen[a] \in SUBSET events
          /\ store[a][x] \in EntityRecord /\ store[b][x] \in EntityRecord
      BY <1>2 DEF TypeOK
    <3>2. Prescribed(store[a][x], seen[a], x) /\ Prescribed(store[b][x], seen[a], x)
      BY <1>2 DEF FoldIsLWW
    <3> QED BY <1>2, <3>1, <3>2, PrescribedUnique
  <2> QED BY <1>2, <2>1 DEF TypeOK
<1> QED BY <1>1, <1>2, StampsStep, TypeCorrect, FoldIsInvariant, PTL DEF Spec

(* Both together: what a member sees is a function of the events it knows.  *)
THEOREM ConvergentHolds == Spec => []Convergent
<1>1. FoldIsLWW /\ Converged => Convergent
  BY DEF Convergent
<1> QED BY <1>1, FoldIsInvariant, Convergence, PTL

---------------------------------------------------------------------------
(* No event puts a tombstone back to the clock that means "not deleted".    *)
LEMMA TombstoneKept ==
    ASSUME NEW r \in EntityRecord, NEW e \in Events, e.clock.counter > 0,
           r.deleted # NoClock
    PROVE  Applied(r, e).deleted # NoClock
<1>1. e.clock # NoClock
  BY DEF NoClock
<1>2. CASE e.delete
  BY <1>1, <1>2 DEF Applied, Deleted, EntityRecord
<1>3. CASE ~e.delete
  BY <1>3 DEF Applied, Upserted, EntityRecord
<1> QED BY <1>2, <1>3

(* A deleted entity does not come back: a store is replaced by a snapshot    *)
(* only while it has folded nothing (from_snapshot), and apply never lowers *)
(* a tombstone.                                                            *)
THEOREM TombstoneStaysHolds == Spec => TombstoneStays
<1> DEFINE Step == \A a \in Actors, x \in Entities :
              store[a][x].present /\ ~Live(store[a][x]) => ~Live(store'[a][x])
<1>1. ASSUME TypeOK, FoldIsLWW, [Next]_vars PROVE Step
  <2> SUFFICES ASSUME NEW b \in Actors, NEW x \in Entities,
                      store[b][x].present, ~Live(store[b][x])
               PROVE  ~Live(store'[b][x])
    OBVIOUS
  <2>1. store[b][x] \in EntityRecord /\ store[b][x].deleted # NoClock
    BY <1>1 DEF TypeOK, Live
  <2>2. CASE store'[b] = store[b]
    BY <2>2
  <2>3. ASSUME NEW a \in Actors, NEW e \in events, Receive(a, e)
        PROVE  ~Live(store'[b][x])
    <3>1. CASE a = b /\ e.entity = x
      <4>1. store'[b][x] = Applied(store[b][x], e)
        BY <1>1, <2>3, <3>1 DEF Receive, Folded, TypeOK
      <4>2. e \in Events /\ e.clock.counter > 0
        BY <1>1 DEF TypeOK
      <4> QED BY <2>1, <4>1, <4>2, TombstoneKept DEF Live
    <3>2. CASE ~(a = b /\ e.entity = x)
      <4>1. store'[b][x] = store[b][x]
        BY <1>1, <2>3, <3>2 DEF Receive, Folded, TypeOK
      <4> QED BY <4>1
    <3> QED BY <3>1, <3>2
  <2>4. ASSUME NEW a \in Actors, NEW c \in Actors, Join(a, c)
        PROVE  store'[b] = store[b]
    <3>1. \E e \in seen[b] : e.entity = x
      BY <1>1 DEF FoldIsLWW, Prescribed
    <3>2. a # b
      BY <2>4, <3>1 DEF Join
    <3> QED BY <1>1, <2>4, <3>2 DEF Join, TypeOK
  <2> QED BY <1>1, <2>2, <2>3, <2>4 DEF Next, vars, Emit, Observe
<1>2. TypeOK /\ FoldIsLWW /\ [Next]_vars => [Step]_vars
  BY <1>1
<1> QED BY <1>2, TypeCorrect, FoldIsInvariant, PTL DEF Spec, TombstoneStays

-----------------------------------------------------------------------------
(* Boards: a page and the server, card by card.                            *)

CardSets == UNION {[C -> Columns \union {Backlog}] : C \in SUBSET Cards}

CardRequests ==
    [page : Pages, kind : {"move", "delete", "create"}, card : Cards, to : Columns \union {Backlog},
     prev : CardSets, at : {"sent", "done", "unaudited", "refused"}, no : Nat]

BoardType ==
    /\ board \in CardSets /\ copies \in [Pages -> CardSets] /\ cardReqs \subseteq CardRequests
    /\ foreign \in [Pages -> SUBSET Cards] /\ unsure \in [Pages -> BOOLEAN] /\ sendings \in Nat

Written(r) == r.at \in {"done", "unaudited"}

SameCard(f, g, c) == (c \in DOMAIN f <=> c \in DOMAIN g) /\ (c \in DOMAIN f => f[c] = g[c])

(* What the page and the server have of the card of a request.             *)
CardPending(r, f, g) ==
    /\ r.kind = "move" => /\ r.card \in DOMAIN f /\ r.card \in DOMAIN g /\ f[r.card] = r.to
                          /\ Written(r) => g[r.card] = r.to
    /\ r.kind = "delete" => r.card \notin DOMAIN f /\ (Written(r) => r.card \notin DOMAIN g)
    /\ r.kind = "create" =>
         /\ r.card \notin DOMAIN f
         /\ IF Written(r) THEN r.card \in DOMAIN g /\ g[r.card] = Backlog ELSE r.card \notin DOMAIN g

(* A page sure of its copy waits for one answer at most.  But for what      *)
(* other pages changed, it and the server differ in the card of that       *)
(* request alone, and the copy a deletion restores that was not written is *)
(* still right.                                                            *)
PageFits(p, f, g, W, X) ==
    /\ \A r, s \in W : r = s
    /\ \A c \in Cards \ X : (\A r \in W : r.card # c) => SameCard(f, g, c)
    /\ \A r \in W : r.card \notin X => CardPending(r, f, g)
    /\ \A r \in W : r.kind = "delete" /\ ~Written(r) => \A c \in Cards \ X : SameCard(r.prev, g, c)

BoardInv ==
    /\ BoardType
    /\ \A p \in Pages : ~unsure[p] => PageFits(p, copies[p], board, Waiting(p), foreign[p])

(* Two boards with the same cards in the same columns, but for those in X,  *)
(* are the same once those are left out.                                   *)
LEMMA SameRestricted ==
    ASSUME NEW f \in CardSets, NEW g \in CardSets, NEW X, \A c \in Cards \ X : SameCard(f, g, c)
    PROVE  Restrict(f, DOMAIN f \ X) = Restrict(g, DOMAIN g \ X)
<1>1. DOMAIN f \subseteq Cards /\ DOMAIN g \subseteq Cards
  BY DEF CardSets
<1>2. DOMAIN f \ X = DOMAIN g \ X
  BY <1>1 DEF SameCard
<1>3. \A c \in DOMAIN f \ X : f[c] = g[c]
  BY <1>1 DEF SameCard
<1> QED
  BY <1>2, <1>3 DEF Restrict

LEMMA BoardStart == BoardInit => BoardInv
<1> SUFFICES ASSUME BoardInit PROVE BoardInv
  OBVIOUS
<1>1. board \in CardSets
  BY DEF BoardInit, CardSets
<1>2. BoardType
  BY <1>1 DEF BoardInit, BoardType
<1>3. \A p \in Pages : Waiting(p) = {} /\ copies[p] = board
  BY DEF BoardInit, Waiting
<1> QED
  BY <1>2, <1>3 DEF BoardInv, PageFits, SameCard

(* A request is sent, and its page shows the outcome or waits for it.      *)
LEMMA SendStep ==
    ASSUME BoardInv, NEW p \in Pages, NEW kind \in {"move", "delete", "create"}, NEW c \in Cards,
           NEW to \in Columns \union {Backlog}, SendCard(p, kind, c, to), NEW f \in CardSets,
           copies' = [copies EXCEPT ![p] = f],
           \A d \in Cards \ {c} : SameCard(f, copies[p], d),
           kind = "move" => c \in DOMAIN copies[p] /\ c \in DOMAIN f /\ f[c] = to,
           kind = "delete" => c \notin DOMAIN f,
           kind = "create" => c \notin DOMAIN f /\ c \notin DOMAIN board
    PROVE  BoardInv'
<1>1. PICK r : r = [page |-> p, kind |-> kind, card |-> c, to |-> to, prev |-> copies[p],
                    at |-> "sent", no |-> sendings]
  OBVIOUS
<1>2. /\ BoardType /\ board' = board /\ foreign' = foreign /\ cardReqs' = cardReqs \union {r}
      /\ unsure' = [unsure EXCEPT ![p] = unsure[p] \/ Waiting(p) # {}] /\ sendings' = sendings + 1
  BY <1>1 DEF BoardInv, SendCard
<1>3. /\ r.page = p /\ r.kind = kind /\ r.card = c /\ r.to = to /\ r.prev = copies[p] /\ r.at = "sent"
      /\ r \in CardRequests
  BY <1>1, <1>2 DEF BoardType, CardRequests
<1>4. unsure' \in [Pages -> BOOLEAN]
  BY <1>2 DEF BoardType
<1>5. BoardType'
  BY <1>2, <1>3, <1>4 DEF BoardType
<1>6. ASSUME NEW q \in Pages, ~unsure'[q]
      PROVE  PageFits(q, copies'[q], board', Waiting(q)', foreign'[q])
  <2>1. CASE q # p
    <3>1. copies'[q] = copies[q] /\ Waiting(q)' = Waiting(q) /\ ~unsure[q]
      BY <1>2, <1>3, <1>6, <2>1 DEF BoardType, Waiting
    <3> QED
      BY <1>2, <3>1 DEF BoardInv
  <2>2. CASE q = p
    <3>1. copies'[p] = f /\ ~unsure[p] /\ Waiting(p) = {}
      BY <1>2, <1>6, <2>2 DEF BoardType
    <3>2. Waiting(p)' = {r}
      BY <1>2, <1>3, <3>1 DEF Waiting
    <3>3. PageFits(p, copies[p], board, {}, foreign[p])
      BY <3>1 DEF BoardInv
    <3>4. \A d \in Cards \ foreign[p] : SameCard(copies[p], board, d)
      BY <3>3 DEF PageFits
    <3>5. PageFits(p, f, board, {r}, foreign[p])
      <4>1. \A d \in Cards \ foreign[p] : (\A s \in {r} : s.card # d) => SameCard(f, board, d)
        BY <1>3, <3>4 DEF SameCard
      <4>2. r.card \notin foreign[p] => CardPending(r, f, board)
        BY <1>3, <3>4 DEF CardPending, SameCard, Written
      <4> QED
        BY <1>3, <3>4, <4>1, <4>2 DEF PageFits
    <3> QED
      BY <1>2, <2>2, <3>1, <3>2, <3>5
  <2> QED
    BY <2>1, <2>2
<1> QED
  BY <1>5, <1>6 DEF BoardInv

(* The server handles a request: its card changes, and is foreign to every  *)
(* other page.                                                             *)
LEMMA HandledStep ==
    ASSUME BoardInv, NEW r \in cardReqs, r.at = "sent", NEW at \in AnsweredAs \union {"refused"}, NEW g \in CardSets,
           board' = g, To(r, at),
           \A d \in Cards \ {r.card} : SameCard(board, g, d),
           at = "refused" => g = board /\ foreign' = foreign,
           at # "refused" =>
             /\ Elsewhere(r.page, r.card)
             /\ r.kind = "move" => (r.card \in DOMAIN board => r.card \in DOMAIN g /\ g[r.card] = r.to)
             /\ r.kind = "delete" => r.card \notin DOMAIN g
             /\ r.kind = "create" => r.card \in DOMAIN g /\ g[r.card] = Backlog,
           UNCHANGED <<copies, unsure, sendings>>
    PROVE  BoardInv'
<1>1. BoardType /\ r \in CardRequests
  BY DEF BoardInv, BoardType
<1>2. PICK s : s = [r EXCEPT !.at = at]
  OBVIOUS
<1>3. /\ s \in CardRequests /\ s.page = r.page /\ s.kind = r.kind /\ s.card = r.card /\ s.to = r.to
      /\ s.prev = r.prev /\ s.at = at
  BY <1>1, <1>2 DEF CardRequests, AnsweredAs
<1>4. cardReqs' = (cardReqs \ {r}) \union {s}
  BY <1>2 DEF To
<1>5. r.page \in Pages /\ r.card \in Cards
  BY <1>1 DEF CardRequests
<1>6. /\ foreign' \in [Pages -> SUBSET Cards] /\ foreign'[r.page] = foreign[r.page]
      /\ \A q \in Pages \ {r.page} : foreign'[q] = IF at # "refused" THEN foreign[q] \union {r.card} ELSE foreign[q]
  <2>1. CASE at # "refused"
    BY <1>1, <1>5, <2>1 DEF BoardType, Elsewhere
  <2>2. CASE at = "refused"
    BY <1>1, <1>5, <2>2 DEF BoardType
  <2> QED
    BY <2>1, <2>2
<1>7. BoardType'
  BY <1>1, <1>3, <1>4, <1>6 DEF BoardType
<1>8. ASSUME NEW q \in Pages, ~unsure[q]
      PROVE  PageFits(q, copies[q], g, Waiting(q)', foreign'[q])
  <2>0. PageFits(q, copies[q], board, Waiting(q), foreign[q])
    BY <1>8 DEF BoardInv
  <2>1. CASE q # r.page
    <3>1. Waiting(q)' = Waiting(q)
      BY <1>3, <1>4, <2>1 DEF Waiting
    <3>2. \A d \in Cards \ foreign'[q] : SameCard(board, g, d) /\ d \notin foreign[q]
      BY <1>6, <2>1 DEF SameCard
    <3>3. \A d \in Cards \ foreign'[q] : (\A t \in Waiting(q) : t.card # d) => SameCard(copies[q], g, d)
      BY <2>0, <3>2 DEF PageFits, SameCard
    <3>4. \A t \in Waiting(q) : t.card \notin foreign'[q] => CardPending(t, copies[q], g)
      <4> SUFFICES ASSUME NEW t \in Waiting(q), t.card \notin foreign'[q] PROVE CardPending(t, copies[q], g)
        OBVIOUS
      <4>1. t.card \in Cards
        BY <1>1 DEF BoardType, CardRequests, Waiting
      <4>2. SameCard(board, g, t.card) /\ CardPending(t, copies[q], board)
        BY <2>0, <3>2, <4>1 DEF PageFits
      <4> QED
        BY <4>2 DEF CardPending, SameCard
    <3>5. \A t \in Waiting(q) : t.kind = "delete" /\ ~Written(t) =>
            \A d \in Cards \ foreign'[q] : SameCard(t.prev, g, d)
      BY <2>0, <3>2 DEF PageFits, SameCard
    <3> QED
      BY <2>0, <3>1, <3>3, <3>4, <3>5 DEF PageFits
  <2>2. CASE q = r.page
    <3>1. Waiting(q) = {r}
      BY <2>0, <2>2 DEF PageFits, Waiting
    <3>2. Waiting(q)' = {s}
      <4>1. \A t \in cardReqs \ {r} : t.page # q
        BY <3>1 DEF Waiting
      <4> QED
        BY <1>3, <1>4, <2>2, <4>1 DEF Waiting
    <3>3. foreign'[q] = foreign[q]
      BY <1>6, <2>2
    <3>4. \A d \in Cards \ foreign[q] : d # r.card => SameCard(copies[q], g, d)
      BY <2>0, <3>1 DEF PageFits, SameCard
    <3>5. r.card \notin foreign[q] => CardPending(s, copies[q], g)
      <4> SUFFICES ASSUME r.card \notin foreign[q] PROVE CardPending(s, copies[q], g)
        OBVIOUS
      <4>1. CardPending(r, copies[q], board)
        BY <2>0, <3>1 DEF PageFits
      <4> QED
        BY <1>3, <4>1 DEF CardPending, SameCard, Written, AnsweredAs
    <3>6. s.kind = "delete" /\ ~Written(s) => \A d \in Cards \ foreign[q] : SameCard(s.prev, g, d)
      <4> SUFFICES ASSUME s.kind = "delete", ~Written(s) PROVE \A d \in Cards \ foreign[q] : SameCard(s.prev, g, d)
        OBVIOUS
      <4>1. g = board
        BY <1>3 DEF Written, AnsweredAs
      <4>2. r.kind = "delete" /\ ~Written(r) => \A d \in Cards \ foreign[q] : SameCard(r.prev, board, d)
        BY <2>0, <3>1 DEF PageFits
      <4>3. ~Written(r)
        BY DEF Written
      <4> QED
        BY <1>3, <4>1, <4>2, <4>3
    <3> QED
      BY <1>3, <3>2, <3>3, <3>4, <3>5, <3>6 DEF PageFits
  <2> QED
    BY <2>1, <2>2
<1> QED
  BY <1>7, <1>8 DEF BoardInv

(* An answer arrives, or none: the request is over.                        *)
LEMMA OverStep ==
    ASSUME BoardInv, NEW r \in cardReqs, CardAnswer(r) \/ NoAnswer(r)
    PROVE  BoardInv'
<1>1. BoardType /\ r \in CardRequests
  BY DEF BoardInv, BoardType
<1>2. r.page \in Pages /\ r.card \in Cards /\ r.prev \in CardSets /\ copies[r.page] \in CardSets
  BY <1>1 DEF BoardType, CardRequests
<1>3. /\ cardReqs' = cardReqs \ {r} /\ UNCHANGED <<board, foreign, sendings>>
  BY DEF CardAnswer, NoAnswer
<1>4. \A q \in Pages \ {r.page} : Waiting(q)' = Waiting(q)
  BY <1>3 DEF Waiting
<1>5. CASE NoAnswer(r)
  <2>1. copies' = copies /\ unsure' = [unsure EXCEPT ![r.page] = TRUE]
    BY <1>5 DEF NoAnswer
  <2>2. BoardType'
    BY <1>1, <1>3, <2>1 DEF BoardType
  <2> QED
    BY <1>1, <1>2, <1>3, <1>4, <2>1, <2>2 DEF BoardInv, BoardType
<1>6. CASE CardAnswer(r)
  <2>1. PICK f : f = AfterAnswer(r, copies[r.page])
    OBVIOUS
  <2>2. /\ r.at # "sent" /\ copies' = [copies EXCEPT ![r.page] = f]
        /\ unsure' = [unsure EXCEPT ![r.page] = unsure[r.page] \/ Misleads(r)]
    BY <1>6, <2>1 DEF CardAnswer
  <2>3. f \in CardSets
    <3>1. CASE r.at = "done" /\ r.kind = "create"
      <4>1. f = [c \in DOMAIN copies[r.page] \union {r.card} |-> IF c = r.card THEN Backlog ELSE copies[r.page][c]]
        BY <2>1, <3>1 DEF AfterAnswer
      <4>2. PICK C \in SUBSET Cards : copies[r.page] \in [C -> Columns \union {Backlog}]
        BY <1>2 DEF CardSets
      <4>3. f \in [C \union {r.card} -> Columns \union {Backlog}] /\ C \union {r.card} \in SUBSET Cards
        BY <1>2, <4>1, <4>2
      <4> QED
        BY <4>3 DEF CardSets
    <3>2. CASE ~(r.at = "done" /\ r.kind = "create")
      BY <1>2, <2>1, <3>2 DEF AfterAnswer
    <3> QED
      BY <3>1, <3>2
  <2>4. unsure' \in [Pages -> BOOLEAN] /\ copies' \in [Pages -> CardSets]
    BY <1>1, <2>2, <2>3 DEF BoardType
  <2>5. BoardType'
    BY <1>1, <1>3, <2>4 DEF BoardType
  <2>6. ASSUME NEW q \in Pages, ~unsure'[q]
        PROVE  PageFits(q, copies'[q], board', Waiting(q)', foreign'[q])
    <3>1. CASE q # r.page
      <4>1. copies'[q] = copies[q] /\ ~unsure[q]
        BY <1>1, <2>2, <2>6, <3>1 DEF BoardType
      <4> QED
        BY <1>3, <1>4, <3>1, <4>1 DEF BoardInv
    <3>2. CASE q = r.page
      <4>1. copies'[q] = f /\ ~unsure[q] /\ ~Misleads(r)
        BY <1>1, <1>2, <2>2, <2>6, <3>2 DEF BoardType
      <4>2. PageFits(q, copies[q], board, Waiting(q), foreign[q])
        BY <4>1 DEF BoardInv
      <4>3. Waiting(q) = {r}
        BY <3>2, <4>2 DEF PageFits, Waiting
      <4>4. Waiting(q)' = {}
        BY <1>3, <4>3 DEF Waiting
      <4>5. /\ \A c \in Cards \ foreign[q] : r.card # c => SameCard(copies[q], board, c)
            /\ r.card \notin foreign[q] => CardPending(r, copies[q], board)
            /\ r.kind = "delete" /\ ~Written(r) => \A c \in Cards \ foreign[q] : SameCard(r.prev, board, c)
        BY <4>2, <4>3 DEF PageFits
      <4>6. ASSUME NEW c \in Cards \ foreign[q] PROVE SameCard(f, board, c)
        <5>0. r.at \in {"done", "unaudited", "refused"} /\ r.kind \in {"move", "delete", "create"}
          BY <1>1, <2>2 DEF CardRequests
        <5>1. CASE r.at = "done" /\ r.kind = "create"
          <6>1. f = [d \in DOMAIN copies[q] \union {r.card} |-> IF d = r.card THEN Backlog ELSE copies[q][d]]
            BY <2>1, <3>2, <5>1 DEF AfterAnswer
          <6> QED
            BY <4>5, <5>1, <6>1 DEF SameCard, CardPending, Written
        <5>2. CASE r.at = "refused" /\ r.kind = "delete"
          BY <2>1, <4>5, <5>2 DEF AfterAnswer, Written
        <5>3. CASE ~(r.at = "done" /\ r.kind = "create") /\ ~(r.at = "refused" /\ r.kind = "delete")
          <6>0. \/ r.kind = "move" /\ Written(r)
                \/ r.kind = "delete" /\ r.at = "done"
                \/ r.kind = "create" /\ r.at = "refused"
            BY <4>1, <5>0, <5>3 DEF Misleads, Written
          <6>1. f = copies[q]
            BY <2>1, <3>2, <5>3, <6>0 DEF AfterAnswer
          <6>3. CASE c = r.card
            BY <4>5, <6>0, <6>1, <6>3 DEF SameCard, CardPending, Written
          <6>4. CASE c # r.card
            BY <4>5, <6>1, <6>4
          <6> QED
            BY <6>3, <6>4
        <5> QED
          BY <5>1, <5>2, <5>3
      <4> QED
        BY <1>3, <4>1, <4>4, <4>6 DEF PageFits
    <3> QED
      BY <3>1, <3>2
  <2> QED
    BY <2>5, <2>6 DEF BoardInv
<1> QED
  BY <1>5, <1>6

LEMMA LoadStep ==
    ASSUME BoardInv, NEW p \in Pages, Load(p)
    PROVE  BoardInv'
<1>1. BoardType /\ Waiting(p) = {} /\ UNCHANGED <<board, cardReqs, sendings>>
      /\ copies' = [copies EXCEPT ![p] = board] /\ foreign' = [foreign EXCEPT ![p] = {}]
      /\ unsure' = [unsure EXCEPT ![p] = FALSE]
  BY DEF BoardInv, Load
<1>2. BoardType'
  BY <1>1 DEF BoardType
<1>3. \A q \in Pages : Waiting(q)' = Waiting(q)
  BY <1>1 DEF Waiting
<1>4. ASSUME NEW q \in Pages, ~unsure'[q]
      PROVE  PageFits(q, copies'[q], board', Waiting(q)', foreign'[q])
  <2>1. CASE q = p
    BY <1>1, <1>3, <2>1 DEF BoardType, PageFits, SameCard
  <2>2. CASE q # p
    BY <1>1, <1>3, <1>4, <2>2 DEF BoardType, BoardInv
  <2> QED
    BY <2>1, <2>2
<1> QED
  BY <1>2, <1>4 DEF BoardInv

LEMMA BoardStep == BoardInv /\ [BoardNext]_boardVars => BoardInv'
<1> SUFFICES ASSUME BoardInv, [BoardNext]_boardVars PROVE BoardInv'
  OBVIOUS
<1>1. BoardType
  BY DEF BoardInv
<1>2. ASSUME NEW p \in Pages, NEW c \in Cards, delTask(p, c) PROVE BoardInv'
  <2>1. PICK f : f = Without(copies[p], c)
    OBVIOUS
  <2>2. copies[p] \in CardSets /\ c \in DOMAIN copies[p] /\ copies' = [copies EXCEPT ![p] = f]
        /\ SendCard(p, "delete", c, Backlog)
    BY <1>1, <1>2, <2>1 DEF delTask, BoardType
  <2>3. f \in CardSets /\ c \notin DOMAIN f /\ \A d \in Cards \ {c} : SameCard(f, copies[p], d)
    <3>1. PICK C \in SUBSET Cards : copies[p] \in [C -> Columns \union {Backlog}]
      BY <2>2 DEF CardSets
    <3>2. f = [d \in C \ {c} |-> copies[p][d]]
      BY <2>1, <3>1 DEF Without, Restrict
    <3>3. f \in [C \ {c} -> Columns \union {Backlog}] /\ C \ {c} \in SUBSET Cards
      BY <3>1, <3>2
    <3> QED
      BY <3>1, <3>2, <3>3 DEF CardSets, SameCard
  <2> QED
    BY <2>2, <2>3, SendStep
<1>3. ASSUME NEW p \in Pages, NEW c \in Cards, create(p, c) PROVE BoardInv'
  <2>1. PICK f : f = copies[p]
    OBVIOUS
  <2>2. f \in CardSets /\ copies' = [copies EXCEPT ![p] = f] /\ SendCard(p, "create", c, Backlog)
        /\ c \notin DOMAIN f /\ c \notin DOMAIN board
    BY <1>1, <1>3, <2>1 DEF create, BoardType
  <2> QED
    BY <2>1, <2>2, SendStep DEF SameCard
<1>4. ASSUME NEW p \in Pages, NEW c \in Cards, NEW to \in Columns, move(p, c, to) PROVE BoardInv'
  <2>1. PICK f : f = [copies[p] EXCEPT ![c] = to]
    OBVIOUS
  <2>2. copies[p] \in CardSets /\ c \in DOMAIN copies[p] /\ copies' = [copies EXCEPT ![p] = f]
        /\ SendCard(p, "move", c, to)
    BY <1>1, <1>4, <2>1 DEF move, BoardType
  <2>3. f \in CardSets /\ c \in DOMAIN f /\ f[c] = to /\ \A d \in Cards \ {c} : SameCard(f, copies[p], d)
    <3>1. PICK C \in SUBSET Cards : copies[p] \in [C -> Columns \union {Backlog}]
      BY <2>2 DEF CardSets
    <3>2. f \in [C -> Columns \union {Backlog}]
      BY <2>1, <2>2, <3>1
    <3> QED
      BY <2>1, <2>2, <3>1, <3>2 DEF CardSets, SameCard
  <2> QED
    BY <2>2, <2>3, SendStep
<1>5. ASSUME NEW r \in cardReqs, NEW at \in AnsweredAs,
             moveTask(r, at) \/ deleteCard(r, at) \/ createCard(r, at) \/ RefuseCard(r)
      PROVE  BoardInv'
  <2>1. PICK g : g = board'
    OBVIOUS
  <2>2. r \in CardRequests /\ r.card \in Cards /\ r.to \in Columns \union {Backlog} /\ r.at = "sent"
        /\ UNCHANGED <<copies, unsure, sendings>>
    BY <1>1, <1>5 DEF BoardType, CardRequests, moveTask, deleteCard, createCard, RefuseCard
  <2>3. PICK C \in SUBSET Cards : board \in [C -> Columns \union {Backlog}]
    BY <1>1 DEF BoardType, CardSets
  <2>8. at \in AnsweredAs \union {"refused"} /\ at # "refused"
    BY DEF AnsweredAs
  <2>4. CASE RefuseCard(r)
    BY <1>1, <2>2, <2>4, HandledStep DEF RefuseCard, BoardType, SameCard
  <2>5. CASE moveTask(r, at)
    <3>1. g \in [C -> Columns \union {Backlog}] /\ r.kind = "move" /\ Elsewhere(r.page, r.card) /\ To(r, at)
      BY <2>1, <2>2, <2>3, <2>5 DEF moveTask
    <3>2. /\ \A d \in Cards \ {r.card} : SameCard(board, g, d)
          /\ r.card \in DOMAIN board => r.card \in DOMAIN g /\ g[r.card] = r.to
      BY <2>1, <2>3, <2>5 DEF moveTask, SameCard
    <3> QED
      BY <2>1, <2>2, <2>8, <3>1, <3>2, HandledStep DEF CardSets
  <2>6. CASE deleteCard(r, at)
    <3>1. g = [d \in C \ {r.card} |-> board[d]] /\ r.kind = "delete" /\ Elsewhere(r.page, r.card) /\ To(r, at)
      BY <2>1, <2>3, <2>6 DEF deleteCard, Without, Restrict
    <3>2. g \in [C \ {r.card} -> Columns \union {Backlog}] /\ C \ {r.card} \in SUBSET Cards
      BY <2>3, <3>1
    <3>3. r.card \notin DOMAIN g /\ \A d \in Cards \ {r.card} : SameCard(board, g, d)
      BY <2>3, <3>1 DEF SameCard
    <3>4. g \in CardSets
      BY <3>2 DEF CardSets
    <3> QED
      BY <2>1, <2>2, <2>8, <3>1, <3>3, <3>4, HandledStep
  <2>7. CASE createCard(r, at)
    <3>1. g = [d \in C \union {r.card} |-> IF d = r.card THEN Backlog ELSE board[d]] /\ r.kind = "create"
          /\ Elsewhere(r.page, r.card) /\ To(r, at)
      BY <2>1, <2>3, <2>7 DEF createCard
    <3>2. g \in [C \union {r.card} -> Columns \union {Backlog}] /\ C \union {r.card} \in SUBSET Cards
      BY <2>2, <2>3, <3>1
    <3>3. r.card \in DOMAIN g /\ g[r.card] = Backlog /\ \A d \in Cards \ {r.card} : SameCard(board, g, d)
      BY <2>3, <3>1 DEF SameCard
    <3>4. g \in CardSets
      BY <3>2 DEF CardSets
    <3> QED
      BY <2>1, <2>2, <2>8, <3>1, <3>3, <3>4, HandledStep
  <2> QED
    BY <1>5, <2>4, <2>5, <2>6, <2>7
<1>6. CASE UNCHANGED boardVars
  BY <1>6 DEF BoardInv, BoardType, PageFits, Waiting, boardVars
<1>7. ASSUME NEW r \in cardReqs, RefuseCard(r) PROVE BoardInv'
  <2>1. PICK at : at = "done"
    OBVIOUS
  <2>2. at \in AnsweredAs
    BY <2>1 DEF AnsweredAs
  <2> QED
    BY <1>5, <1>7, <2>2
<1> QED
  BY <1>2, <1>3, <1>4, <1>5, <1>6, <1>7, LoadStep, OverStep DEF BoardNext

(* CalendarView.tsx 64-139: every step leaves a load under way, or the      *)
(* range shown within what is loaded, or a load that failed; and a load    *)
(* asked for alone is the last, and reads what the server has since.       *)
PageInv ==
    /\ version \in Nat /\ since \in Nat /\ since <= version
    /\ \A l \in loads : l.seen \in Nat
    /\ ~crossing => /\ \A l, m \in loads : l = m
                    /\ \A l \in loads : l.seen = NotRead \/ l.seen >= since
    /\ loaded.seen \in Nat
    /\ ShownCovered

LEMMA PageStart == PageInit => PageInv
BY CalendarPageAssumption DEF PageInit, PageInv, ShownCovered, Covers, range

(* The next load, asked for after those in ls.                             *)
LEMMA AskedStep ==
    ASSUME PageInv, NEW p, NEW ls, ls \subseteq loads, AskedFor(p, ls), version' = version, loaded'.seen \in Nat
    PROVE  PageInv'
<1>1. PICK l : l = [no |-> asks, range |-> range(p), seen |-> NotRead]
  OBVIOUS
<1>2. l.seen = NotRead /\ NotRead \in Nat
  BY <1>1 DEF NotRead
<1>3. loads' = ls \union {l} /\ since' = version /\ crossing' = (ls # {})
  BY <1>1 DEF AskedFor
<1>4. version' \in Nat /\ since' \in Nat /\ since' <= version'
  BY <1>3 DEF PageInv
<1>5. \A m \in loads' : m.seen \in Nat
  BY <1>2, <1>3 DEF PageInv
<1>6. ~crossing' => /\ \A m, n \in loads' : m = n
                    /\ \A m \in loads' : m.seen = NotRead \/ m.seen >= since'
  BY <1>2, <1>3
<1>7. ShownCovered'
  BY <1>3 DEF ShownCovered
<1> QED
  BY <1>4, <1>5, <1>6, <1>7 DEF PageInv

LEMMA PageStep == PageInv /\ [PageNext]_pageVars => PageInv'
<1> SUFFICES ASSUME PageInv, [PageNext]_pageVars PROVE PageInv'
  OBVIOUS
<1>1. ASSUME NEW p, shift(p) PROVE PageInv'
  <2>1. page' = p /\ UNCHANGED <<version, loaded, failed>> /\ LoadIfNeeded(p, loaded, loads)
    BY <1>1 DEF shift
  <2>2. CASE Covers(loaded, range(p))
    <3>1. loads' = loads /\ UNCHANGED <<since, crossing>>
      BY <2>1, <2>2 DEF LoadIfNeeded
    <3>2. range(page)' = range(p)
      BY <2>1 DEF range
    <3>3. Covers(loaded, range(page))'
      BY <2>1, <2>2, <3>2 DEF Covers
    <3> QED
      BY <2>1, <3>1, <3>3 DEF PageInv, ShownCovered
  <2>3. CASE ~Covers(loaded, range(p))
    <3>1. AskedFor(p, loads) /\ loaded'.seen \in Nat
      BY <2>1, <2>3 DEF LoadIfNeeded, PageInv
    <3> QED
      BY <2>1, <3>1, AskedStep
  <2> QED
    BY <2>2, <2>3
<1>2. CASE refresh
  <2>1. AskedFor(page, loads) /\ version' = version /\ loaded'.seen \in Nat
    BY <1>2 DEF refresh, PageInv
  <2> QED
    BY <2>1, AskedStep
<1>3. CASE EventSaved
  <2>1. version' = version + 1 /\ UNCHANGED <<page, loaded, loads, failed, since, crossing>>
    BY <1>3 DEF EventSaved
  <2>2. version' \in Nat /\ since' <= version'
    BY <2>1 DEF PageInv
  <2>3. ShownCovered'
    BY <2>1 DEF PageInv, ShownCovered, Covers, range
  <2> QED
    BY <2>1, <2>2, <2>3 DEF PageInv
<1>4. ASSUME NEW l \in loads, listEventsInRange(l) PROVE PageInv'
  <2>1. PICK m : m = [no |-> l.no, range |-> l.range, seen |-> version]
    OBVIOUS
  <2>2. /\ loads' = (loads \ {l}) \union {m}
        /\ UNCHANGED <<page, version, loaded, failed, since, crossing>>
    BY <1>4, <2>1 DEF listEventsInRange
  <2>3. m.seen = version
    BY <2>1
  <2>4. \A n \in loads' : n.seen \in Nat
    BY <2>2, <2>3 DEF PageInv
  <2>5. ~crossing => /\ \A n, o \in loads' : n = o
                     /\ \A n \in loads' : n.seen = NotRead \/ n.seen >= since
    <3> SUFFICES ASSUME ~crossing PROVE loads' = {m} /\ m.seen >= since
      OBVIOUS
    <3>1. loads = {l}
      BY <1>4 DEF PageInv
    <3> QED
      BY <2>2, <2>3, <3>1 DEF PageInv
  <2>6. loads' # {}
    BY <2>2
  <2> QED
    BY <2>2, <2>4, <2>5, <2>6 DEF PageInv, ShownCovered
<1>5. ASSUME NEW l \in loads, loadRange(l) PROVE PageInv'
  <2>1. PICK got : got = Received(l)
    OBVIOUS
  <2>2. /\ l.seen # NotRead /\ loaded' = got /\ failed' = FALSE /\ UNCHANGED <<page, version>>
        /\ LoadIfNeeded(page, got, loads \ {l})
    BY <1>5, <2>1 DEF loadRange
  <2>3. got.seen = l.seen /\ got.seen \in Nat
    BY <1>5, <2>1 DEF Received, PageInv
  <2>4. CASE Covers(got, range(page))
    <3>1. loads' = loads \ {l} /\ UNCHANGED <<since, crossing>>
      BY <2>2, <2>4 DEF LoadIfNeeded
    <3>2. range(page)' = range(page)
      BY <2>2 DEF range
    <3>3. Covers(loaded, range(page))'
      BY <2>2, <2>4, <3>2 DEF Covers
    <3>4. ~crossing => loaded'.seen >= since
      BY <1>5, <2>2, <2>3 DEF PageInv
    <3>5. ShownCovered'
      BY <3>1, <3>3, <3>4 DEF ShownCovered
    <3> QED
      BY <2>2, <2>3, <3>1, <3>5 DEF PageInv
  <2>5. CASE ~Covers(got, range(page))
    <3>1. AskedFor(page, loads \ {l}) /\ loads \ {l} \subseteq loads
      BY <2>2, <2>5 DEF LoadIfNeeded
    <3>2. PICK ls : ls = loads \ {l}
      OBVIOUS
    <3> QED
      BY <2>2, <2>3, <3>1, <3>2, AskedStep
  <2> QED
    BY <2>4, <2>5
<1>6. ASSUME NEW l \in loads, LoadFails(l) PROVE PageInv'
  BY <1>6 DEF LoadFails, PageInv, ShownCovered
<1>7. CASE UNCHANGED pageVars
  <2>1. UNCHANGED <<page, version, loaded, loads, failed, since, crossing>>
    BY <1>7 DEF pageVars
  <2>2. ShownCovered'
    BY <2>1 DEF PageInv, ShownCovered, Covers, range
  <2> QED
    BY <2>1, <2>2 DEF PageInv
<1> QED
  BY <1>1, <1>2, <1>3, <1>4, <1>5, <1>6, <1>7 DEF PageNext

(* PmScreen.tsx 88-114, CrmScreen.tsx and CalendarView.tsx 64-139: a page   *)
(* at rest shows what the server has, or had when the calendar last asked, *)
(* but for what other pages changed on a board, unless requests or loads   *)
(* overlapped, failed, or were answered with an error or not at all.       *)
THEOREM ScreensTrueHolds == BoardSpec /\ PageSpec => []ScreensTrue
<1>1. BoardInv => BoardAgrees
  <2> SUFFICES ASSUME BoardInv, NEW p \in Pages, Waiting(p) = {}, ~unsure[p]
               PROVE  Restrict(copies[p], DOMAIN copies[p] \ foreign[p])
                        = Restrict(board, DOMAIN board \ foreign[p])
    BY DEF BoardAgrees
  <2>1. PICK f : f = copies[p]
    OBVIOUS
  <2>2. f \in CardSets /\ board \in CardSets
    BY <2>1 DEF BoardInv, BoardType
  <2>3. PICK X : X = foreign[p]
    OBVIOUS
  <2>4. \A c \in Cards \ X : SameCard(f, board, c)
    BY <2>1, <2>3 DEF BoardInv, PageFits
  <2>5. PICK g \in CardSets : g = board
    BY <2>2
  <2>6. \A c \in Cards \ X : SameCard(f, g, c)
    BY <2>4, <2>5
  <2>7. Restrict(f, DOMAIN f \ X) = Restrict(g, DOMAIN g \ X)
    BY <2>2, <2>6, SameRestricted
  <2> QED
    BY <2>1, <2>3, <2>5, <2>7
<1>2. PageInv => ShownCovered
  BY DEF PageInv
<1> QED
  BY <1>1, <1>2, BoardStart, BoardStep, PageStart, PageStep, PTL DEF BoardSpec, PageSpec, ScreensTrue

-----------------------------------------------------------------------------
(* Crm: what the tables, the requests and a dedupe run hold.               *)

CrmRow(row) ==
    /\ row = [kind |-> row.kind, name |-> row.name, key |-> row.key, parent |-> row.parent]
    /\ row.kind \in {"account", "deal", "contact"} /\ row.parent \in Nat
    /\ row.kind = "account" => row.parent = 0

SubRow(s) ==
    /\ s = [table |-> s.table, rec |-> s.rec, item |-> s.item, late |-> s.late]
    /\ s.table \in SubTables /\ s.late \in BOOLEAN

RefRow(f) == f = [table |-> f.table, rec |-> f.rec, late |-> f.late] /\ f.late \in BOOLEAN

(* A parent is an account that is there: the foreign keys see to it.       *)
Parented(row) == row.parent = 0 \/ row.parent \in Ids("account")

Scanning == {"scan"} \union Merging

(* A record of the kind the run is at, as it was when the list was loaded. *)
Listed(r) == r \in DOMAIN dd.snap /\ dd.snap[r].kind = Kinds[dd.turn]

(* A record is at one place only: still in the list, the duplicate, or the *)
(* canonical record of a key; and none ever changes its kind.              *)
RunFits ==
    /\ DOMAIN dd.snap \subseteq 1..made
    /\ \A r \in DOMAIN dd.snap \intersect DOMAIN recs : recs[r].kind = dd.snap[r].kind
    /\ \A i \in DOMAIN dd.rows : Listed(dd.rows[i])
    /\ \A i, j \in DOMAIN dd.rows : dd.rows[i] = dd.rows[j] => i = j
    /\ \A k \in DOMAIN dd.by : Listed(dd.by[k]) /\ \A i \in DOMAIN dd.rows : dd.by[k] # dd.rows[i]
    /\ dd.pc \in Merging => Listed(dd.dup) /\ Listed(dd.canon) /\ dd.dup # dd.canon

DedupeType ==
    \/ dd = NoRun
    \/ /\ dd = [pc |-> dd.pc, turn |-> dd.turn, budget |-> dd.budget, rows |-> dd.rows, snap |-> dd.snap,
                by |-> dd.by, dup |-> dd.dup, canon |-> dd.canon, capped |-> dd.capped, clean |-> dd.clean]
       /\ dd.pc \in {"load", "done"} \union Scanning /\ dd.turn \in 1..3 /\ dd.rows \in Seq(Nat)
       /\ dd.clean \in BOOLEAN /\ dd.capped \in BOOLEAN
       /\ dd.pc \in Scanning => RunFits

CrmType ==
    /\ made \in Nat /\ DOMAIN recs \subseteq 1..made /\ recs = [r \in DOMAIN recs |-> recs[r]]
    /\ \A r \in DOMAIN recs : CrmRow(recs[r]) /\ Parented(recs[r])
    /\ \A s \in subs : SubRow(s)
    /\ \A f \in refs : RefRow(f)
    /\ \/ up = AtRest
       \/ /\ up = [pc |-> "create", row |-> up.row, raced |-> up.raced] /\ up.raced \in BOOLEAN
          /\ CrmRow(up.row) /\ up.row.parent <= made
          /\ recordExists(up.row.parent) => up.row.parent \in Ids("account")
    /\ \/ wr = AtRest
       \/ wr.pc = "insert" /\ wr.table \in {"note", "value", "tag"} /\ wr.rec \in 1..made
    /\ \/ del = AtRest
       \/ /\ del = [pc |-> del.pc, rec |-> del.rec] /\ del.pc \in {"unlink", "subs", "row"}
          /\ del.rec \in 1..made
    /\ DedupeType

(* The tables a merge has moved already.                                   *)
Behind(table) ==
    \/ table \in Poly /\ dd.pc \in {"values", "tags", "refs", "drop"}
    \/ table = "value" /\ dd.pc \in {"tags", "refs", "drop"}
    \/ table = "tag" /\ dd.pc \in {"refs", "drop"}

(* What is still below a record about to be dropped was written late.      *)
DanglingInv ==
    /\ NoDangling
    /\ del.pc = "row" => \A s \in subs : s.rec = del.rec => s.late
    /\ dd.pc \in Merging => \A s \in subs : s.rec = dd.dup /\ Behind(s.table) => s.late
    /\ dd.pc = "drop" => \A f \in refs : f.rec = dd.dup => f.late

KeysOf(r) == Range(RowKeys(recs[r]))

Apart(kind) == \A r, q \in Ids(kind) : r # q => KeysOf(r) \intersect KeysOf(q) = {}

(* A record the list has passed is the canonical one of each of its keys.  *)
Settled(r) == \A k \in KeysOf(r) : k \in DOMAIN dd.by /\ dd.by[k] = r

(* A run that has the CRM for itself loses sight of no record: it has left *)
(* no doubles in the kinds behind it, and finds every record of the kind   *)
(* it is at as it was, in the list, as the duplicate, or settled.          *)
CleanRun ==
    /\ del.pc = "idle"
    /\ ~dd.capped => \A u \in 1..3 : u < dd.turn \/ dd.pc = "done" => Apart(Kinds[u])
    /\ dd.pc \in Scanning => \A r \in Ids(Kinds[dd.turn]) :
         /\ r \in DOMAIN dd.snap /\ recs[r] = dd.snap[r]
         /\ r \in Range(dd.rows) \/ (dd.pc \in Merging /\ r = dd.dup) \/ Settled(r)

DoublesInv == UpsertsNeverDouble /\ (dd.clean => CleanRun)

(* A set of numbers that is not empty has a least one. *)
LEMMA LeastNumber ==
    ASSUME NEW S \in SUBSET Nat, S # {}
    PROVE  \E i \in S : \A j \in S : i <= j
<1>1. IsWellFoundedOn(OpToRel(<, Nat), Nat)
  BY NatLessThanWellFounded
<1> DEFINE Below == OpToRel(<, Nat)
<1>2. \A x, y \in Nat : y < x => <<y, x>> \in Below
  BY DEF OpToRel
<1>3. IsWellFoundedOn(Below, Nat)
  BY <1>1
<1> HIDE DEF Below
<1>4. PICK i \in S : \A j \in S : <<j, i>> \notin Below
  BY <1>3, WFMin
<1>5. \A j \in S : ~(j < i)
  BY <1>2, <1>4
<1> QED
  BY <1>5

LEMMA CrmStart == CrmInit => CrmType /\ DanglingInv /\ DoublesInv
<1> SUFFICES ASSUME CrmInit PROVE CrmType /\ DanglingInv /\ DoublesInv
  OBVIOUS
<1>1. recs = <<>> /\ DOMAIN recs = {} /\ recs = [r \in DOMAIN recs |-> recs[r]]
  BY DEF CrmInit
<1>2. CrmType
  BY <1>1 DEF CrmInit, CrmType, DedupeType
<1>3. DanglingInv
  BY DEF CrmInit, DanglingInv, NoDangling, AtRest, NoRun, Merging
<1>4. DoublesInv
  BY DEF CrmInit, DoublesInv, UpsertsNeverDouble, AtRest, NoRun
<1> QED
  BY <1>2, <1>3, <1>4

(* Ids are given out once: no step changes a record's kind, or brings an   *)
(* id back.                                                                *)
LEMMA RunKept ==
    ASSUME CrmType, made' \in Nat, made <= made', dd' = dd \/ Touched \/ dd' = NoRun,
           \A r \in DOMAIN recs' : r \in 1..made => r \in DOMAIN recs /\ recs'[r].kind = recs[r].kind
    PROVE  DedupeType'
<1>1. CASE dd' = NoRun
  BY <1>1 DEF DedupeType
<1>2. CASE dd = NoRun /\ (dd' = dd \/ Touched)
  BY <1>2 DEF DedupeType, Touched, NoRun
<1>3. CASE dd # NoRun /\ (dd' = dd \/ Touched)
  <2>1. DedupeType /\ made \in Nat /\ DOMAIN recs \subseteq 1..made
    BY DEF CrmType
  <2>2. /\ dd'.pc = dd.pc /\ dd'.turn = dd.turn /\ dd'.rows = dd.rows /\ dd'.snap = dd.snap
        /\ dd'.by = dd.by /\ dd'.dup = dd.dup /\ dd'.canon = dd.canon /\ dd'.capped = dd.capped
        /\ dd'.budget = dd.budget /\ dd'.clean \in {dd.clean, FALSE}
    BY <1>3, <2>1 DEF DedupeType, Touched
  <2>3. dd' = [pc |-> dd'.pc, turn |-> dd'.turn, budget |-> dd'.budget, rows |-> dd'.rows,
               snap |-> dd'.snap, by |-> dd'.by, dup |-> dd'.dup, canon |-> dd'.canon,
               capped |-> dd'.capped, clean |-> dd'.clean]
    BY <1>3, <2>1 DEF DedupeType, Touched
  <2>4. /\ dd.pc \in {"load", "done"} \union Scanning /\ dd.turn \in 1..3 /\ dd.rows \in Seq(Nat)
        /\ dd.clean \in BOOLEAN /\ dd.capped \in BOOLEAN /\ (dd.pc \in Scanning => RunFits)
    BY <1>3, <2>1 DEF DedupeType
  <2>5. dd.pc \in Scanning => RunFits'
    <3> SUFFICES ASSUME dd.pc \in Scanning PROVE RunFits'
      OBVIOUS
    <3>1. RunFits
      BY <2>4
    <3>2. \A r : Listed(r)' <=> Listed(r)
      BY <2>2 DEF Listed
    <3>3. DOMAIN dd'.snap \subseteq 1..made'
      BY <2>1, <2>2, <3>1 DEF RunFits
    <3>4. \A r \in DOMAIN dd'.snap \intersect DOMAIN recs' : recs'[r].kind = dd'.snap[r].kind
      BY <2>2, <3>1 DEF RunFits
    <3> QED
      BY <2>2, <3>1, <3>2, <3>3, <3>4 DEF RunFits
  <2> QED
    BY <2>2, <2>3, <2>4, <2>5 DEF DedupeType
<1> QED
  BY <1>1, <1>2, <1>3

LEMMA TypeKept ==
    ASSUME CrmType, made' \in Nat, made <= made',
           recs' = [r \in DOMAIN recs' |-> recs'[r]], DOMAIN recs' \subseteq 1..made',
           \A r \in DOMAIN recs' : CrmRow(recs'[r]),
           \A r \in DOMAIN recs' : Parented(recs[r])',
           \A r \in DOMAIN recs' : r \in 1..made => r \in DOMAIN recs /\ recs'[r].kind = recs[r].kind,
           \A s \in subs' : SubRow(s), \A f \in refs' : RefRow(f),
           Overtaken \/ up' = up \/ up' = AtRest,
           wr' = wr \/ wr' = AtRest, del' = del \/ del' = AtRest, DedupeType'
    PROVE  CrmType'
<1>2. \/ up' = AtRest
      \/ /\ up' = [pc |-> "create", row |-> up'.row, raced |-> up'.raced] /\ up'.raced \in BOOLEAN
         /\ CrmRow(up'.row) /\ up'.row.parent <= made'
         /\ recordExists(up.row.parent)' => up'.row.parent \in Ids("account")'
  <2>1. CASE up = AtRest \/ up' = AtRest
    BY <2>1 DEF Overtaken, AtRest
  <2>2. CASE up # AtRest /\ up' # AtRest
    <3>1. /\ up = [pc |-> "create", row |-> up.row, raced |-> up.raced] /\ up.raced \in BOOLEAN
          /\ CrmRow(up.row) /\ up.row.parent <= made
          /\ recordExists(up.row.parent) => up.row.parent \in Ids("account")
      BY <2>2 DEF CrmType
    <3>2. /\ up' = [pc |-> "create", row |-> up'.row, raced |-> up'.raced] /\ up'.raced \in BOOLEAN
          /\ up'.row = up.row
      <4>1. up' = up \/ up' = [up EXCEPT !.raced = TRUE]
        BY <2>2, <3>1 DEF Overtaken
      <4>2. CASE up' = up
        BY <3>1, <4>2
      <4>3. CASE up' = [up EXCEPT !.raced = TRUE]
        <5>1. up' = [pc |-> "create", row |-> up.row, raced |-> TRUE]
          <6>1. PICK row, raced : up = [pc |-> "create", row |-> row, raced |-> raced]
            BY <3>1
          <6> QED
            BY <4>3, <6>1
        <5> QED
          BY <5>1
      <4> QED
        BY <4>1, <4>2, <4>3
    <3>3. up.row.parent \in Nat /\ made \in Nat
      BY <3>1 DEF CrmRow, CrmType
    <3>4. up.row.parent \in DOMAIN recs' => up.row.parent \in 1..made
      BY <3>1, <3>3
    <3>5. up.row.parent \in DOMAIN recs' => recs'[up.row.parent].kind = "account"
      BY <3>1, <3>4 DEF recordExists, Ids
    <3> QED
      BY <3>1, <3>2, <3>3, <3>5 DEF recordExists, Ids
  <2> QED
    BY <2>1, <2>2
<1>3. wr' = AtRest \/ (wr'.pc = "insert" /\ wr'.table \in {"note", "value", "tag"} /\ wr'.rec \in 1..made')
  BY DEF CrmType
<1>4. \/ del' = AtRest
      \/ /\ del' = [pc |-> del'.pc, rec |-> del'.rec] /\ del'.pc \in {"unlink", "subs", "row"}
         /\ del'.rec \in 1..made'
  BY DEF CrmType
<1> QED
  BY <1>2, <1>3, <1>4 DEF CrmType

(* A record more.                                                          *)
LEMMA WithType ==
    ASSUME CrmType, NEW row, CrmRow(row), row.parent <= made,
           recordExists(row.parent) => row.parent \in Ids("account"),
           row.parent = 0 \/ recordExists(row.parent),
           made' = made + 1, recs' = With(row), subs' = subs \union {Created}, refs' = refs,
           Overtaken \/ up' = AtRest, wr' = wr, del' = del, Touched
    PROVE  CrmType'
<1>1. made \in Nat /\ DOMAIN recs \subseteq 1..made
  BY DEF CrmType
<1>2. /\ DOMAIN recs' = DOMAIN recs \union {made + 1} /\ recs' = [r \in DOMAIN recs' |-> recs'[r]]
      /\ recs'[made + 1] = row /\ \A r \in DOMAIN recs : recs'[r] = recs[r]
  BY <1>1 DEF With
<1>3. \A r \in DOMAIN recs' : CrmRow(recs'[r])
  BY <1>2 DEF CrmType
<1>4. \A r \in Ids("account") : r \in Ids("account")'
  BY <1>2 DEF Ids
<1>5. \A r \in DOMAIN recs' : Parented(recs[r])'
  BY <1>2, <1>4 DEF CrmType, Parented
<1>6. SubRow(Created)
  BY DEF SubRow, Created, SubTables, Poly
<1>7. \A s \in subs' : SubRow(s)
  BY <1>6 DEF CrmType
<1>8. \A f \in refs' : RefRow(f)
  BY DEF CrmType
<1>9. /\ made' \in Nat /\ made <= made' /\ DOMAIN recs' \subseteq 1..made'
      /\ \A r \in DOMAIN recs' : r \in 1..made => r \in DOMAIN recs /\ recs'[r].kind = recs[r].kind
  BY <1>1, <1>2
<1>10. DedupeType'
  BY <1>9, RunKept
<1> QED
  BY <1>2, <1>3, <1>5, <1>7, <1>8, <1>9, <1>10, TypeKept

LEMMA ProposedRow ==
    ASSUME CrmType, NEW row \in Proposable
    PROVE  /\ CrmRow(row) /\ Parented(row) /\ row.parent <= made
           /\ recordExists(row.parent) => row.parent \in Ids("account")
<1>1. made \in Nat /\ DOMAIN recs \subseteq 1..made
  BY DEF CrmType
<1>2. row.parent \in Ids("account") \union {0} /\ row \in AccountRow \union DealRow \union ContactRow
  BY DEF Proposable
<1>3. row.parent \in Nat /\ row.parent <= made
  BY <1>1, <1>2 DEF Ids
<1>4. CrmRow(row)
  BY <1>2, <1>3 DEF CrmRow, AccountRow, DealRow, ContactRow
<1>5. row.parent = 0 => ~recordExists(row.parent)
  BY <1>1 DEF recordExists
<1> QED
  BY <1>2, <1>3, <1>4, <1>5 DEF Parented

(* Records the same, or fewer, or renamed, and rows below them.            *)
LEMMA FewerType ==
    ASSUME CrmType, made' = made,
           recs' = [r \in DOMAIN recs' |-> recs'[r]], DOMAIN recs' \subseteq DOMAIN recs,
           \A r \in DOMAIN recs' : /\ CrmRow(recs'[r]) /\ recs'[r].kind = recs[r].kind
                                   /\ recs'[r].parent \in {recs[r].parent, 0} \union DOMAIN recs',
           \A r \in DOMAIN recs' : recs'[r].parent \in DOMAIN recs => recs'[r].parent \in DOMAIN recs',
           \A r \in DOMAIN recs' : recs'[r].parent # recs[r].parent => Parented(recs'[r]),
           \A s \in subs' : SubRow(s), \A f \in refs' : RefRow(f),
           Overtaken \/ up' = up \/ up' = AtRest,
           wr' = wr \/ wr' = AtRest, del' = del \/ del' = AtRest, DedupeType'
    PROVE  CrmType'
<1>1. made \in Nat /\ DOMAIN recs \subseteq 1..made
  BY DEF CrmType
<1>2. \A r \in DOMAIN recs' : Parented(recs'[r])
  BY DEF CrmType, Parented
<1>3. \A r \in DOMAIN recs' : Parented(recs[r])'
  BY <1>2 DEF Parented, Ids
<1>4. /\ made' \in Nat /\ made <= made' /\ DOMAIN recs' \subseteq 1..made'
      /\ \A r \in DOMAIN recs' : r \in 1..made => r \in DOMAIN recs /\ recs'[r].kind = recs[r].kind
  BY <1>1
<1> QED
  BY <1>3, <1>4, TypeKept

LEMMA RecordsType ==
    ASSUME CrmType,
           \/ \E row \in Proposable : createAccount(row) \/ createDeal(row) \/ createContact(row)
           \/ \E row \in Proposable : UpsertFind(row)
           \/ UpsertCreate
           \/ \E r \in DOMAIN recs : \E n \in Names[recs[r].kind] : updateRecord(r, n)
    PROVE  CrmType'
<1>1. ASSUME NEW row \in Proposable, createAccount(row) \/ createDeal(row) \/ createContact(row)
      PROVE  CrmType'
  <2>1. Insert(row)
    BY <1>1 DEF createAccount, createDeal, createContact
  <2> QED
    BY <2>1, ProposedRow, WithType DEF Insert, Parented, Ids, recordExists
<1>2. ASSUME NEW row \in Proposable, UpsertFind(row) PROVE CrmType'
  <2>1. up' = [pc |-> "create", row |-> row, raced |-> FALSE]
    BY <1>2 DEF UpsertFind
  <2>2. CrmRow(row) /\ row.parent <= made /\ (recordExists(row.parent) => row.parent \in Ids("account"))
    BY ProposedRow
  <2>3. UNCHANGED <<recs, made, subs, refs, wr, del, dd>>
    BY <1>2 DEF UpsertFind
  <2> HIDE DEF CrmRow
  <2>4. DedupeType'
    BY <2>3 DEF CrmType, DedupeType, RunFits, Listed
  <2> QED
    BY <2>1, <2>2, <2>3, <2>4 DEF CrmType, Parented, Ids, recordExists
<1>3. CASE UpsertCreate
  <2>1. up # AtRest
    BY <1>3 DEF UpsertCreate, AtRest
  <2>2. /\ CrmRow(up.row) /\ up.row.parent <= made
        /\ recordExists(up.row.parent) => up.row.parent \in Ids("account")
    BY <2>1 DEF CrmType
  <2>3. CASE up.row.parent = 0 \/ recordExists(up.row.parent)
    BY <1>3, <2>2, <2>3, WithType DEF UpsertCreate
  <2>4. CASE ~(up.row.parent = 0 \/ recordExists(up.row.parent))
    <3>1. UNCHANGED <<recs, made, subs, refs, wr, del, dd>> /\ up' = AtRest
      BY <1>3, <2>4 DEF UpsertCreate
    <3>2. DedupeType'
      BY <3>1 DEF CrmType, DedupeType, RunFits, Listed
    <3> QED
      BY <3>1, <3>2 DEF CrmType, Parented, Ids
  <2> QED
    BY <2>3, <2>4
<1>4. ASSUME NEW r \in DOMAIN recs, NEW n, updateRecord(r, n) PROVE CrmType'
  <2>1. /\ recs' = [recs EXCEPT ![r].name = n] /\ made' = made /\ refs' = refs /\ wr' = wr /\ del' = del
        /\ Overtaken /\ Touched
        /\ subs' = subs \union {[table |-> "activity", rec |-> r, item |-> ops', late |-> Late(r)]}
    BY <1>4 DEF updateRecord
  <2>2. PICK row : row = recs[r]
    OBVIOUS
  <2>3. CrmRow(row) /\ recs = [q \in DOMAIN recs |-> recs[q]]
    BY <2>2 DEF CrmType
  <2>4. PICK new : new = [kind |-> row.kind, name |-> n, key |-> row.key, parent |-> row.parent]
    OBVIOUS
  <2>5. /\ DOMAIN recs' = DOMAIN recs /\ recs' = [q \in DOMAIN recs' |-> recs'[q]]
        /\ \A q \in DOMAIN recs : q # r => recs'[q] = recs[q]
    BY <2>1, <2>3
  <2>6. recs'[r] = [row EXCEPT !.name = n]
    BY <2>1, <2>2, <2>3
  <2>7. recs'[r] = new
    <3>1. PICK a, b, c, d : row = [kind |-> a, name |-> b, key |-> c, parent |-> d]
      BY <2>3 DEF CrmRow
    <3> QED
      BY <2>4, <2>6, <3>1
  <2>8. CrmRow(new) /\ new.kind = row.kind /\ new.parent = row.parent
    BY <2>3, <2>4 DEF CrmRow
  <2>9. \A q \in DOMAIN recs' : CrmRow(recs'[q]) /\ recs'[q].kind = recs[q].kind /\ recs'[q].parent = recs[q].parent
    BY <2>2, <2>5, <2>7, <2>8 DEF CrmType
  <2>10. \A s \in subs' : SubRow(s)
    <3>1. PICK s : s = [table |-> "activity", rec |-> r, item |-> ops', late |-> Late(r)]
      OBVIOUS
    <3>2. SubRow(s)
      <4>1. Late(r) \in BOOLEAN
        BY DEF Late
      <4>2. PICK b \in BOOLEAN : b = Late(r)
        BY <4>1
      <4> QED
        BY <3>1, <4>2 DEF SubRow, SubTables, Poly
    <3> QED
      BY <2>1, <3>1, <3>2 DEF CrmType
  <2>11. \A f \in refs' : RefRow(f)
    BY <2>1 DEF CrmType
  <2>12. DedupeType'
    <3>1. made' \in Nat /\ made <= made'
      BY <2>1 DEF CrmType
    <3> QED
      BY <2>1, <2>5, <2>9, <3>1, RunKept
  <2> QED
    BY <2>1, <2>5, <2>9, <2>10, <2>11, <2>12, FewerType
<1> QED
  BY <1>1, <1>2, <1>3, <1>4

LEMMA LateBoolean == \A r : Late(r) \in BOOLEAN /\ Going(r) \in BOOLEAN
BY DEF Late, Going

(* The records stay as they are: rows below them, and the requests about    *)
(* them, change.                                                           *)
LEMMA RowsSame ==
    ASSUME CrmType, UNCHANGED <<recs, made>>, Overtaken \/ up' = up,
           \A s \in subs' : SubRow(s), \A f \in refs' : RefRow(f),
           \/ wr' \in {wr, AtRest}
           \/ wr'.pc = "insert" /\ wr'.table \in {"note", "value", "tag"} /\ wr'.rec \in 1..made,
           \/ del' \in {del, AtRest}
           \/ /\ del' = [pc |-> del'.pc, rec |-> del'.rec] /\ del'.pc \in {"unlink", "subs", "row"}
              /\ del'.rec \in 1..made,
           DedupeType'
    PROVE  CrmType'
<1>1. \/ up' = AtRest
      \/ /\ up' = [pc |-> "create", row |-> up'.row, raced |-> up'.raced] /\ up'.raced \in BOOLEAN
         /\ CrmRow(up'.row) /\ up'.row.parent <= made
         /\ recordExists(up'.row.parent) => up'.row.parent \in Ids("account")
  <2>1. CASE up = AtRest \/ up' = up
    BY <2>1 DEF CrmType, Overtaken, AtRest
  <2>2. CASE up # AtRest /\ up' # up
    <3>1. PICK row, raced : up = [pc |-> "create", row |-> row, raced |-> raced]
      BY <2>2 DEF CrmType
    <3>2. up' = [up EXCEPT !.raced = TRUE]
      BY <2>2 DEF Overtaken
    <3>3. up' = [pc |-> "create", row |-> row, raced |-> TRUE]
      BY <3>1, <3>2
    <3>4. CrmRow(row) /\ row.parent <= made /\ (recordExists(row.parent) => row.parent \in Ids("account"))
      BY <2>2, <3>1 DEF CrmType
    <3> QED
      BY <3>3, <3>4
  <2> QED
    BY <2>1, <2>2
<1>2. /\ wr' = AtRest \/ (wr'.pc = "insert" /\ wr'.table \in {"note", "value", "tag"} /\ wr'.rec \in 1..made')
      /\ \/ del' = AtRest
         \/ /\ del' = [pc |-> del'.pc, rec |-> del'.rec] /\ del'.pc \in {"unlink", "subs", "row"}
            /\ del'.rec \in 1..made'
  BY DEF CrmType
<1> QED
  BY <1>1, <1>2 DEF CrmType, Parented, Ids, recordExists

LEMMA RecordsSame ==
    ASSUME CrmType, UNCHANGED <<recs, made, up>>,
           \A s \in subs' : SubRow(s), \A f \in refs' : RefRow(f),
           \/ wr' \in {wr, AtRest}
           \/ wr'.pc = "insert" /\ wr'.table \in {"note", "value", "tag"} /\ wr'.rec \in 1..made,
           \/ del' \in {del, AtRest}
           \/ /\ del' = [pc |-> del'.pc, rec |-> del'.rec] /\ del'.pc \in {"unlink", "subs", "row"}
              /\ del'.rec \in 1..made,
           dd' = dd \/ Touched \/ dd' = NoRun
    PROVE  CrmType'
<1>1. made' \in Nat /\ made <= made'
  BY DEF CrmType
<1>2. DedupeType'
  BY <1>1, RunKept
<1> QED
  BY <1>2, RowsSame

LEMMA WriteType ==
    ASSUME CrmType,
           \/ \E r \in 1..made :
                \/ PostNote(r) \/ ApprovedWrite("note", 0, r)
                \/ \E f \in FieldIds : PutField(f, r) \/ ApprovedWrite("value", f, r)
                \/ \E t \in Tags : PostTag(t, r)
           \/ WriteRow
           \/ \E t \in Tags, r \in DOMAIN recs : untagRecord(t, r)
           \/ \E r \in DOMAIN recs : \E t \in RefTables(recs[r].kind) : LinkRow(t, r)
    PROVE  CrmType'
<1>0. (\A s \in subs : SubRow(s)) /\ (\A f \in refs : RefRow(f))
  BY DEF CrmType
<1>1. ASSUME NEW r \in 1..made, NEW table \in {"note", "value", "tag"}, NEW item,
             CheckWrite(table, item, r) \/ ApprovedWrite(table, item, r)
      PROVE  CrmType'
  <2>1. /\ wr'.pc = "insert" /\ wr'.table = table /\ wr'.rec = r
        /\ UNCHANGED <<recs, made, subs, refs, up, del, dd>>
    BY <1>1 DEF CheckWrite, ApprovedWrite
  <2> QED
    BY <1>0, <2>1, RecordsSame
<1>2. CASE WriteRow
  <2>1. wr' = AtRest /\ UNCHANGED <<recs, made, refs, up, del, dd>>
        /\ subs' \subseteq subs \union RowsOf(wr.table, wr.item, wr.rec, wr.n)
    BY <1>2 DEF WriteRow
  <2>2. \A s \in RowsOf(wr.table, wr.item, wr.rec, wr.n) : SubRow(s)
    <3>1. PICK b \in BOOLEAN : b = Late(wr.rec)
      BY LateBoolean
    <3>2. SubRow(recordActivity(wr.rec, wr.n)) /\ SubRow(addNote(wr.rec, wr.n))
          /\ SubRow(setFieldValue(wr.item, wr.rec)) /\ SubRow(tagRecord(wr.item, wr.rec))
      BY <3>1 DEF SubRow, SubTables, Poly, recordActivity, addNote, setFieldValue, tagRecord
    <3> QED
      BY <3>2 DEF RowsOf
  <2> QED
    BY <1>0, <2>1, <2>2, RecordsSame
<1>3. ASSUME NEW t, NEW r, untagRecord(t, r) PROVE CrmType'
  <2>1. subs' \subseteq subs /\ UNCHANGED <<recs, made, refs, up, wr, del, dd>>
    BY <1>3 DEF untagRecord
  <2> QED
    BY <1>0, <2>1, RecordsSame
<1>4. ASSUME NEW t, NEW r, LinkRow(t, r) PROVE CrmType'
  <2>1. PICK b \in BOOLEAN : b = Late(r)
    BY LateBoolean
  <2>2. PICK f : f = [table |-> t, rec |-> r, late |-> b]
    OBVIOUS
  <2>3. refs' = refs \union {f} /\ UNCHANGED <<recs, made, subs, up, wr, del, dd>>
    BY <1>4, <2>1, <2>2 DEF LinkRow
  <2>4. RefRow(f)
    BY <2>2 DEF RefRow
  <2> QED
    BY <1>0, <2>3, <2>4, RecordsSame
<1>5. ASSUME NEW r \in 1..made, PostNote(r) \/ ApprovedWrite("note", 0, r) PROVE CrmType'
  BY <1>1, <1>5 DEF PostNote
<1>6. ASSUME NEW r \in 1..made, NEW f, PutField(f, r) \/ ApprovedWrite("value", f, r) PROVE CrmType'
  BY <1>1, <1>6 DEF PutField
<1>7. ASSUME NEW r \in 1..made, NEW t, PostTag(t, r) PROVE CrmType'
  BY <1>1, <1>7 DEF PostTag
<1> QED
  BY <1>2, <1>3, <1>4, <1>5, <1>6, <1>7

LEMMA DeleteType ==
    ASSUME CrmType,
           \/ \E r \in 1..made : DeleteAsked(r) \/ DeleteApproved(r)
           \/ DeleteUnlink \/ deleteCrmSubData \/ DeleteRecord
    PROVE  CrmType'
<1>0. (\A s \in subs : SubRow(s)) /\ (\A f \in refs : RefRow(f))
  BY DEF CrmType
<1>1. ASSUME NEW r \in 1..made, DeleteAsked(r) \/ DeleteApproved(r) PROVE CrmType'
  <2>1. del' = [pc |-> "unlink", rec |-> r] /\ Touched /\ UNCHANGED <<recs, made, subs, refs, up, wr>>
    BY <1>1 DEF DeleteAsked, DeleteApproved
  <2>2. del' = [pc |-> del'.pc, rec |-> del'.rec] /\ del'.pc = "unlink" /\ del'.rec = r
    BY <2>1
  <2> QED
    BY <1>0, <2>1, <2>2, RecordsSame
<1>2. CASE DeleteUnlink \/ deleteCrmSubData
  <2>1. /\ del.pc \in {"unlink", "subs"} /\ subs' \subseteq subs /\ refs' \subseteq refs
        /\ del' = [del EXCEPT !.pc = "subs"] \/ del' = [del EXCEPT !.pc = "row"]
        /\ UNCHANGED <<recs, made, up, wr, dd>>
    BY <1>2 DEF DeleteUnlink, deleteCrmSubData
  <2>2. del = [pc |-> del.pc, rec |-> del.rec] /\ del.rec \in 1..made
    BY <2>1 DEF CrmType, AtRest
  <2>3. del' = [pc |-> del'.pc, rec |-> del'.rec] /\ del'.pc \in {"subs", "row"} /\ del'.rec = del.rec
    BY <2>1, <2>2
  <2> QED
    BY <1>0, <2>1, <2>2, <2>3, RecordsSame
<1>3. CASE DeleteRecord
  <2>1. del' = AtRest /\ UNCHANGED <<made, subs, refs, up, wr, dd>>
    BY <1>3 DEF DeleteRecord
  <2>2. CASE recs' = recs
    BY <1>0, <2>1, <2>2, RecordsSame
  <2>3. CASE recs' # recs
    <3>1. recs' = [r \in DOMAIN recs \ {del.rec} |-> recs[r]] /\ ~Held(del.rec)
      BY <1>3, <2>3 DEF DeleteRecord
    <3>2. \A r \in DOMAIN recs' : recs'[r] = recs[r] /\ recs'[r].parent # del.rec
      BY <3>1 DEF Held, accountHasChildren
    <3>3. recs' = [r \in DOMAIN recs' |-> recs'[r]] /\ DOMAIN recs' \subseteq DOMAIN recs
      BY <3>1
    <3>4. \A r \in DOMAIN recs' : recs'[r].parent \in DOMAIN recs => recs'[r].parent \in DOMAIN recs'
      BY <3>1, <3>2
    <3>5. \A r \in DOMAIN recs' : CrmRow(recs'[r])
      BY <3>2, <3>3 DEF CrmType
    <3>6. DedupeType'
      <4>1. made' \in Nat /\ made <= made'
        BY <2>1 DEF CrmType
      <4> QED
        BY <2>1, <3>2, <3>3, <4>1, RunKept
    <3> QED
      BY <1>0, <2>1, <3>2, <3>3, <3>4, <3>5, <3>6, FewerType
  <2> QED
    BY <2>2, <2>3
<1> QED
  BY <1>1, <1>2, <1>3

(* A step of the run below the record alone: rows move, and one field of   *)
(* the run's state says so.                                                *)
LEMMA MovedRows ==
    ASSUME \A s \in subs : SubRow(s), NEW tables, NEW t \in Moved(tables)
    PROVE  /\ SubRow(t)
           /\ \E s \in subs :
                /\ t.table = s.table
                /\ IF s.rec = dd.dup /\ s.table \in tables
                   THEN t.rec = dd.canon /\ (t.late <=> s.late \/ Going(dd.canon)) ELSE t = s
<1>1. CASE \E s \in subs : ~(s.rec = dd.dup /\ s.table \in tables) /\ t = s
  BY <1>1
<1>2. CASE \E s \in subs : /\ s.rec = dd.dup /\ s.table \in tables
                           /\ t = [s EXCEPT !.rec = dd.canon, !.late = s.late \/ Going(dd.canon)]
  <2>1. PICK s \in subs : /\ s.rec = dd.dup /\ s.table \in tables
                          /\ t = [s EXCEPT !.rec = dd.canon, !.late = s.late \/ Going(dd.canon)]
    BY <1>2
  <2>2. PICK b \in BOOLEAN : b = (s.late \/ Going(dd.canon))
    OBVIOUS
  <2>3. SubRow(s)
    BY <2>1
  <2>4. PICK x, y, z, w : s = [table |-> x, rec |-> y, item |-> z, late |-> w]
    BY <2>3 DEF SubRow
  <2>5. t = [table |-> x, rec |-> dd.canon, item |-> z, late |-> b]
    BY <2>1, <2>2, <2>4
  <2>6. t.table = s.table /\ t.rec = dd.canon /\ t.late = b /\ SubRow(t)
    BY <2>3, <2>4, <2>5 DEF SubRow
  <2>7. t.late <=> s.late \/ Going(dd.canon)
    BY <2>2, <2>6
  <2> QED
    BY <2>1, <2>6, <2>7
<1> QED
  BY <1>1, <1>2 DEF Moved

(* The least of a set of numbers, and the keys of a row, as the scan of a   *)
(* list uses them.                                                         *)
LEMMA LeastIn == ASSUME NEW S \in SUBSET Nat, S # {} PROVE Min(S) \in S /\ \A i \in S : Min(S) <= i
BY LeastNumber DEF Min

LEMMA KeyNumbers == \A row : DOMAIN RowKeys(row) \subseteq Nat
BY DEF RowKeys

(* A run under way.                                                        *)
LEMMA RunFields ==
    ASSUME DedupeType, dd.pc # "idle"
    PROVE  /\ dd = [pc |-> dd.pc, turn |-> dd.turn, budget |-> dd.budget, rows |-> dd.rows,
                    snap |-> dd.snap, by |-> dd.by, dup |-> dd.dup, canon |-> dd.canon,
                    capped |-> dd.capped, clean |-> dd.clean]
           /\ dd.pc \in {"load", "done"} \union Scanning /\ dd.turn \in 1..3 /\ dd.rows \in Seq(Nat)
           /\ dd.clean \in BOOLEAN /\ dd.capped \in BOOLEAN /\ (dd.pc \in Scanning => RunFits)
BY DEF DedupeType, NoRun

(* It goes on to another step of the same merge, or from the last back to  *)
(* the list.                                                               *)
LEMMA PcStep ==
    ASSUME CrmType, dd.pc \in Merging, NEW x \in Scanning, dd' = [dd EXCEPT !.pc = x], made' = made,
           \A r \in DOMAIN recs' : r \in DOMAIN recs /\ recs'[r].kind = recs[r].kind
    PROVE  /\ DedupeType'
           /\ dd'.pc = x /\ dd'.turn = dd.turn /\ dd'.rows = dd.rows /\ dd'.snap = dd.snap
           /\ dd'.by = dd.by /\ dd'.dup = dd.dup /\ dd'.canon = dd.canon /\ dd'.capped = dd.capped
           /\ dd'.clean = dd.clean
<1>1. dd.pc # "idle" /\ dd.pc \in Scanning
  BY DEF Merging, Scanning
<1>2. /\ dd = [pc |-> dd.pc, turn |-> dd.turn, budget |-> dd.budget, rows |-> dd.rows,
               snap |-> dd.snap, by |-> dd.by, dup |-> dd.dup, canon |-> dd.canon,
               capped |-> dd.capped, clean |-> dd.clean]
      /\ dd.turn \in 1..3 /\ dd.rows \in Seq(Nat)
      /\ dd.clean \in BOOLEAN /\ dd.capped \in BOOLEAN /\ RunFits
  BY <1>1, RunFields DEF CrmType
<1>3. dd' = [pc |-> x, turn |-> dd.turn, budget |-> dd.budget, rows |-> dd.rows,
             snap |-> dd.snap, by |-> dd.by, dup |-> dd.dup, canon |-> dd.canon,
             capped |-> dd.capped, clean |-> dd.clean]
  BY <1>2
<1>4. /\ dd'.pc = x /\ dd'.turn = dd.turn /\ dd'.rows = dd.rows /\ dd'.snap = dd.snap
      /\ dd'.by = dd.by /\ dd'.dup = dd.dup /\ dd'.canon = dd.canon /\ dd'.capped = dd.capped
      /\ dd'.clean = dd.clean /\ dd'.budget = dd.budget
  BY <1>3
<1>5. \A r : Listed(r)' <=> Listed(r)
  BY <1>4 DEF Listed
<1>6. RunFits'
  <2>1. DOMAIN dd'.snap \subseteq 1..made'
    BY <1>2, <1>4 DEF RunFits
  <2>2. \A r \in DOMAIN dd'.snap \intersect DOMAIN recs' : recs'[r].kind = dd'.snap[r].kind
    BY <1>2, <1>4 DEF RunFits
  <2> QED
    BY <1>2, <1>4, <1>5, <2>1, <2>2 DEF RunFits
<1>7. DedupeType'
  <2>1. dd' = [pc |-> dd'.pc, turn |-> dd'.turn, budget |-> dd'.budget, rows |-> dd'.rows,
               snap |-> dd'.snap, by |-> dd'.by, dup |-> dd'.dup, canon |-> dd'.canon,
               capped |-> dd'.capped, clean |-> dd'.clean]
    BY <1>3, <1>4
  <2> QED
    BY <1>2, <1>4, <1>6, <2>1 DEF DedupeType
<1> QED
  BY <1>4, <1>7

(* The merge of the first row that shares a key: who is canonical for what  *)
(* afterwards.                                                             *)
LEMMA MergeFields ==
    ASSUME CrmType, dd.pc = "scan", Hits # {},
           Merge(Min(Hits), Canon(Passed(Min(Hits)), ScanKeys(Min(Hits))))
    PROVE  /\ dd'.pc = "poly" /\ dd'.turn = dd.turn /\ dd'.snap = dd.snap /\ dd'.capped = dd.capped
           /\ dd'.clean = dd.clean
           /\ dd' = [pc |-> dd'.pc, turn |-> dd'.turn, budget |-> dd'.budget, rows |-> dd'.rows,
                     snap |-> dd'.snap, by |-> dd'.by, dup |-> dd'.dup, canon |-> dd'.canon,
                     capped |-> dd'.capped, clean |-> dd'.clean]
           /\ \E i \in 1..Len(dd.rows) :
                /\ \A j \in 1..(i - 1) : j \notin Hits
                /\ dd'.dup = dd.rows[i]
                /\ dd'.rows \in Seq(Nat) /\ DOMAIN dd'.rows = 1..(Len(dd.rows) - i)
                /\ \A n \in DOMAIN dd'.rows : n + i \in DOMAIN dd.rows /\ dd'.rows[n] = dd.rows[n + i]
                /\ DOMAIN dd.by \subseteq DOMAIN dd'.by
                /\ \A k \in DOMAIN dd.by : dd'.by[k] = dd.by[k]
                /\ \A j \in 1..(i - 1) : \A k \in Range(ScanKeys(j)) :
                     k \in DOMAIN dd'.by /\ dd'.by[k] = dd.rows[j]
                /\ \A k \in DOMAIN dd'.by \ DOMAIN dd.by :
                     dd'.by[k] = dd'.canon \/ \E j \in 1..(i - 1) : dd'.by[k] = dd.rows[j]
                /\ \/ \E k \in DOMAIN dd.by : dd'.canon = dd.by[k]
                   \/ \E j \in 1..(i - 1) : dd'.canon = dd.rows[j]
<1> DEFINE ks == ScanKeys(Min(Hits))
           p == Passed(Min(Hits))
           c == Canon(p, ks)
<1>1. /\ dd = [pc |-> dd.pc, turn |-> dd.turn, budget |-> dd.budget, rows |-> dd.rows,
               snap |-> dd.snap, by |-> dd.by, dup |-> dd.dup, canon |-> dd.canon,
               capped |-> dd.capped, clean |-> dd.clean]
      /\ dd.rows \in Seq(Nat)
  BY RunFields DEF CrmType, Scanning, Merging
<1>2. DOMAIN dd.rows = 1..Len(dd.rows) /\ Len(dd.rows) \in Nat
  BY <1>1
<1>3. PICK i : i = Min(Hits)
  OBVIOUS
<1>4. i \in Hits /\ (\A j \in Hits : i <= j) /\ i \in 1..Len(dd.rows)
  <2>1. Hits \in SUBSET Nat
    BY <1>2 DEF Hits
  <2> QED
    BY <1>2, <1>3, <2>1, LeastIn DEF Hits
<1>5. \A j \in 1..(i - 1) : j \notin Hits /\ j \in DOMAIN dd.rows
  BY <1>2, <1>4
<1>6. DOMAIN p = DOMAIN dd.by \union KeysBefore(i) /\ \A k \in DOMAIN dd.by : p[k] = dd.by[k]
  BY <1>3 DEF Passed
<1>7. \A j \in 1..(i - 1) : \A k \in Range(ScanKeys(j)) : k \in DOMAIN p /\ p[k] = dd.rows[j]
  <2> SUFFICES ASSUME NEW j \in 1..(i - 1), NEW k \in Range(ScanKeys(j))
               PROVE  k \in DOMAIN p /\ p[k] = dd.rows[j]
    OBVIOUS
  <2>1. k \in KeysBefore(i)
    BY DEF KeysBefore
  <2>2. k \notin DOMAIN dd.by
    BY <1>5 DEF Hits
  <2>3. \A m \in 1..(i - 1) : k \in Range(ScanKeys(m)) => m = j
    <3> SUFFICES ASSUME NEW m \in 1..(i - 1), k \in Range(ScanKeys(m)), m # j PROVE FALSE
      OBVIOUS
    <3>1. CASE m < j
      <4>1. k \in KeysBefore(j)
        BY <1>4, <3>1 DEF KeysBefore
      <4> QED
        BY <1>5, <4>1 DEF Hits
    <3>2. CASE j < m
      <4>1. k \in KeysBefore(m)
        BY <1>4, <3>2 DEF KeysBefore
      <4> QED
        BY <1>5, <4>1 DEF Hits
    <3> QED
      BY <1>4, <3>1, <3>2
  <2>4. (CHOOSE m \in 1..(i - 1) : k \in Range(ScanKeys(m))) = j
    BY <2>3
  <2> QED
    BY <1>3, <1>6, <2>1, <2>2, <2>4 DEF Passed
<1>8. \A k \in DOMAIN p \ DOMAIN dd.by : \E j \in 1..(i - 1) : p[k] = dd.rows[j]
  BY <1>6, <1>7 DEF KeysBefore
<1>9. \E k \in DOMAIN p : c = p[k]
  <2> DEFINE known == {n \in DOMAIN ks : ks[n] \in DOMAIN p}
  <2>1. known # {}
    <3>1. PICK k \in Range(ScanKeys(i)) : k \in DOMAIN p
      BY <1>4, <1>6 DEF Hits
    <3>2. PICK n \in DOMAIN ks : ks[n] = k
      BY <1>3, <3>1 DEF Range
    <3> QED
      BY <3>1, <3>2
  <2>2. known \in SUBSET Nat
    BY KeyNumbers DEF ScanKeys
  <2> HIDE DEF p, ks
  <2>3. Min(known) \in known
    <3>1. PICK K \in SUBSET Nat : K = known
      BY <2>2
    <3>2. Min(K) \in K
      BY <2>1, <3>1, LeastIn
    <3> QED
      BY <3>1, <3>2
  <2>4. c = p[ks[Min(known)]]
    BY <2>1 DEF Canon
  <2>5. ks[Min(known)] \in DOMAIN p
    BY <2>3
  <2> QED
    BY <2>4, <2>5
<1>10. PICK by : by = Lent(p, ks, c)
  OBVIOUS
<1>11. /\ DOMAIN p \subseteq DOMAIN by /\ \A k \in DOMAIN p : by[k] = p[k]
       /\ \A k \in DOMAIN by \ DOMAIN p : by[k] = c
  BY <1>10 DEF Lent
<1>12. PICK rest : rest = SubSeq(dd.rows, i + 1, Len(dd.rows))
  OBVIOUS
<1>13. /\ rest \in Seq(Nat) /\ DOMAIN rest = 1..(Len(dd.rows) - i)
       /\ \A n \in DOMAIN rest : n + i \in DOMAIN dd.rows /\ rest[n] = dd.rows[n + i]
  <2>0. i + 1 \in Int /\ Len(dd.rows) \in Int
    BY <1>2, <1>4
  <2>1. PICK t \in Seq(Nat), m \in Int, n \in Int :
          t = dd.rows /\ m = i + 1 /\ n = Len(dd.rows)
    BY <1>1, <2>0
  <2>2. \A x \in m..n : x \in 1..Len(t)
    BY <1>2, <1>4, <2>1
  <2>3. /\ SubSeq(t, m, n) \in Seq(Nat) /\ Len(SubSeq(t, m, n)) = (IF m <= n THEN n - m + 1 ELSE 0)
        /\ \A x \in 1..(n - m + 1) : SubSeq(t, m, n)[x] = t[m + x - 1]
    BY <2>2, SubSeqProperties
  <2>4. rest \in Seq(Nat) /\ Len(rest) = Len(dd.rows) - i
    BY <1>2, <1>4, <1>12, <2>1, <2>3
  <2>5. DOMAIN rest = 1..(Len(dd.rows) - i)
    BY <2>4
  <2>6. \A x \in DOMAIN rest : x + i \in DOMAIN dd.rows /\ rest[x] = dd.rows[x + i]
    BY <1>2, <1>4, <1>12, <2>1, <2>3, <2>5
  <2> QED
    BY <2>4, <2>5, <2>6
<1>14. dd' = [dd EXCEPT !.pc = "poly", !.dup = dd.rows[i], !.canon = c, !.by = by, !.rows = rest,
                        !.budget = dd.budget - 1]
  BY <1>3, <1>10, <1>12 DEF Merge
<1> HIDE DEF c, p, ks
<1>15. dd' = [pc |-> "poly", turn |-> dd.turn, budget |-> dd.budget - 1, rows |-> rest, snap |-> dd.snap,
              by |-> by, dup |-> dd.rows[i], canon |-> c, capped |-> dd.capped, clean |-> dd.clean]
  BY <1>1, <1>14
<1>16. /\ dd'.pc = "poly" /\ dd'.turn = dd.turn /\ dd'.snap = dd.snap /\ dd'.capped = dd.capped
       /\ dd'.clean = dd.clean /\ dd'.rows = rest /\ dd'.by = by /\ dd'.dup = dd.rows[i] /\ dd'.canon = c
       /\ dd'.budget = dd.budget - 1
  BY <1>15
<1>17. dd' = [pc |-> dd'.pc, turn |-> dd'.turn, budget |-> dd'.budget, rows |-> dd'.rows,
              snap |-> dd'.snap, by |-> dd'.by, dup |-> dd'.dup, canon |-> dd'.canon,
              capped |-> dd'.capped, clean |-> dd'.clean]
  BY <1>15, <1>16
<1>18. DOMAIN dd.by \subseteq DOMAIN by /\ \A k \in DOMAIN dd.by : by[k] = dd.by[k]
  BY <1>6, <1>11
<1>19. \A j \in 1..(i - 1) : \A k \in Range(ScanKeys(j)) : k \in DOMAIN by /\ by[k] = dd.rows[j]
  BY <1>7, <1>11
<1>20. \A k \in DOMAIN by \ DOMAIN dd.by : by[k] = c \/ \E j \in 1..(i - 1) : by[k] = dd.rows[j]
  BY <1>8, <1>11
<1>21. (\E k \in DOMAIN dd.by : c = dd.by[k]) \/ \E j \in 1..(i - 1) : c = dd.rows[j]
  BY <1>6, <1>8, <1>9
<1>22. \A j \in 1..(i - 1) : j \notin Hits
  BY <1>5
<1> QED
  BY <1>4, <1>13, <1>16, <1>17, <1>18, <1>19, <1>20, <1>21, <1>22

LEMMA ScanType ==
    ASSUME CrmType,
           OpsDedupe \/ ApprovedDedupe \/ DedupeLoad \/ DedupeScan
    PROVE  DedupeType'
<1>1. CASE OpsDedupe \/ ApprovedDedupe
  <2>1. PICK cap : DedupeStart(cap)
    BY <1>1 DEF OpsDedupe, ApprovedDedupe
  <2>2. PICK b \in BOOLEAN : b = (up.pc = "idle" /\ del.pc = "idle")
    OBVIOUS
  <2>3. dd' = [pc |-> "load", turn |-> 1, budget |-> cap, rows |-> <<>>, snap |-> <<>>,
               by |-> <<>>, dup |-> 0, canon |-> 0, capped |-> FALSE, clean |-> b]
    BY <2>1, <2>2 DEF DedupeStart
  <2> QED
    BY <2>3 DEF DedupeType, Scanning, Merging
<1>2. CASE DedupeLoad
  <2>1. PICK order \in Orders(Kinds[dd.turn]) :
          dd' = [dd EXCEPT !.pc = "scan", !.rows = order, !.snap = recs, !.by = <<>>]
    BY <1>2 DEF DedupeLoad
  <2>2. /\ dd = [pc |-> dd.pc, turn |-> dd.turn, budget |-> dd.budget, rows |-> dd.rows,
                 snap |-> dd.snap, by |-> dd.by, dup |-> dd.dup, canon |-> dd.canon,
                 capped |-> dd.capped, clean |-> dd.clean]
        /\ dd.turn \in 1..3 /\ dd.clean \in BOOLEAN /\ dd.capped \in BOOLEAN
    BY <1>2, RunFields DEF CrmType, DedupeLoad
  <2>3. dd' = [pc |-> "scan", turn |-> dd.turn, budget |-> dd.budget, rows |-> order, snap |-> recs,
               by |-> <<>>, dup |-> dd.dup, canon |-> dd.canon, capped |-> dd.capped,
               clean |-> dd.clean]
    BY <2>1, <2>2
  <2>4. PICK ids : ids = Ids(Kinds[dd.turn])
    OBVIOUS
  <2>5. ids \subseteq 1..made /\ made \in Nat /\ IsFiniteSet(ids)
    <3>1. ids \subseteq 1..made /\ made \in Nat
      BY <2>4 DEF Ids, CrmType
    <3> QED
      <4>1. PICK a \in Int, b \in Int : a = 1 /\ b = made
        BY <3>1
      <4>2. IsFiniteSet(a..b)
        BY FS_Interval
      <4>3. IsFiniteSet(1..made)
        BY <4>1, <4>2
      <4> QED
        BY <3>1, <4>3, FS_Subset
  <2>6. PICK n \in Nat : n = Cardinality(ids)
    BY <2>5, FS_CardinalityType
  <2>7. order \in [1..n -> ids] /\ \A i, j \in 1..n : order[i] = order[j] => i = j
    BY <2>1, <2>4, <2>6 DEF Orders, Bijection, Injection, IsInjective
  <2>8. order \in Seq(Nat)
    <3>1. order \in [1..n -> Nat]
      <4>1. ids \subseteq Nat
        BY <2>5
      <4> QED
        BY <2>7, <4>1
    <3> QED
      BY <3>1, SeqDef
  <2>9. RunFits'
    <3>1. /\ dd'.pc = "scan" /\ dd'.turn = dd.turn /\ dd'.rows = order /\ dd'.snap = recs
          /\ dd'.by = <<>> /\ recs' = recs /\ made' = made
      BY <1>2, <2>3 DEF DedupeLoad
    <3>2. \A i \in 1..n : order[i] \in DOMAIN recs /\ recs[order[i]].kind = Kinds[dd.turn]
      BY <2>4, <2>7 DEF Ids
    <3>3. DOMAIN dd'.by = {}
      BY <3>1
    <3>4. \A i \in DOMAIN dd'.rows : Listed(dd.rows[i])'
      BY <2>7, <3>1, <3>2 DEF Listed
    <3>5. dd'.pc \notin Merging /\ DOMAIN dd'.rows = 1..n
      BY <2>7, <3>1 DEF Merging
    <3>6. DOMAIN dd'.snap \subseteq 1..made'
      BY <3>1 DEF CrmType
    <3> QED
      BY <2>7, <3>1, <3>3, <3>4, <3>5, <3>6 DEF RunFits
  <2>10. dd'.pc = "scan" /\ dd' = [pc |-> dd'.pc, turn |-> dd'.turn, budget |-> dd'.budget, rows |-> dd'.rows,
               snap |-> dd'.snap, by |-> dd'.by, dup |-> dd'.dup, canon |-> dd'.canon,
               capped |-> dd'.capped, clean |-> dd'.clean]
          /\ dd'.rows = order /\ dd'.turn = dd.turn /\ dd'.clean = dd.clean /\ dd'.capped = dd.capped
    BY <2>3
  <2> QED
    BY <2>2, <2>8, <2>9, <2>10 DEF DedupeType, Scanning
<1>3. CASE DedupeScan /\ NextKind
  <2>1. /\ dd = [pc |-> dd.pc, turn |-> dd.turn, budget |-> dd.budget, rows |-> dd.rows,
                 snap |-> dd.snap, by |-> dd.by, dup |-> dd.dup, canon |-> dd.canon,
                 capped |-> dd.capped, clean |-> dd.clean]
        /\ dd.turn \in 1..3 /\ dd.clean \in BOOLEAN /\ dd.capped \in BOOLEAN
    BY <1>3, RunFields DEF CrmType, DedupeScan
  <2>2. PICK pc \in {"load", "done"}, turn \in 1..3, capped \in BOOLEAN :
          /\ pc = (IF dd.turn = Len(Kinds) THEN "done" ELSE "load")
          /\ turn = (IF dd.turn = Len(Kinds) THEN dd.turn ELSE dd.turn + 1)
          /\ capped = (dd.capped \/ dd.budget = 0)
    <3>1. Len(Kinds) = 3
      BY DEF Kinds
    <3>2. (IF dd.turn = Len(Kinds) THEN dd.turn ELSE dd.turn + 1) \in 1..3
      BY <2>1, <3>1
    <3>3. (dd.capped \/ dd.budget = 0) \in BOOLEAN
      OBVIOUS
    <3>4. (IF dd.turn = Len(Kinds) THEN "done" ELSE "load") \in {"load", "done"}
      OBVIOUS
    <3> QED
      BY <3>2, <3>3, <3>4
  <2>3. dd' = [dd EXCEPT !.pc = pc, !.turn = turn, !.capped = capped, !.rows = <<>>, !.snap = <<>>, !.by = <<>>]
    BY <1>3, <2>2 DEF NextKind
  <2>4. dd' = [pc |-> pc, turn |-> turn, budget |-> dd.budget, rows |-> <<>>, snap |-> <<>>, by |-> <<>>,
               dup |-> dd.dup, canon |-> dd.canon, capped |-> capped, clean |-> dd.clean]
    BY <2>1, <2>3
  <2> QED
    BY <2>1, <2>4 DEF DedupeType, Scanning, Merging
<1>4. CASE DedupeScan /\ ~NextKind
  <2>1. /\ dd.pc = "scan" /\ Hits # {} /\ Merge(Min(Hits), Canon(Passed(Min(Hits)), ScanKeys(Min(Hits))))
        /\ UNCHANGED <<recs, made>>
    BY <1>4 DEF DedupeScan
  <2>2. RunFits /\ dd.turn \in 1..3 /\ dd.clean \in BOOLEAN /\ dd.capped \in BOOLEAN
        /\ dd.rows \in Seq(Nat)
    BY <2>1, RunFields DEF CrmType, Scanning
  <2>3. /\ dd'.pc = "poly" /\ dd'.turn = dd.turn /\ dd'.snap = dd.snap /\ dd'.capped = dd.capped
        /\ dd'.clean = dd.clean
        /\ dd' = [pc |-> dd'.pc, turn |-> dd'.turn, budget |-> dd'.budget, rows |-> dd'.rows,
                  snap |-> dd'.snap, by |-> dd'.by, dup |-> dd'.dup, canon |-> dd'.canon,
                  capped |-> dd'.capped, clean |-> dd'.clean]
    BY <2>1, MergeFields
  <2>4. PICK i \in 1..Len(dd.rows) :
          /\ dd'.dup = dd.rows[i]
          /\ dd'.rows \in Seq(Nat) /\ DOMAIN dd'.rows = 1..(Len(dd.rows) - i)
          /\ \A n \in DOMAIN dd'.rows : n + i \in DOMAIN dd.rows /\ dd'.rows[n] = dd.rows[n + i]
          /\ \A k \in DOMAIN dd.by : dd'.by[k] = dd.by[k]
          /\ \A k \in DOMAIN dd'.by \ DOMAIN dd.by :
               dd'.by[k] = dd'.canon \/ \E j \in 1..(i - 1) : dd'.by[k] = dd.rows[j]
          /\ \/ \E k \in DOMAIN dd.by : dd'.canon = dd.by[k]
             \/ \E j \in 1..(i - 1) : dd'.canon = dd.rows[j]
    BY <2>1, MergeFields
  <2>5. DOMAIN dd.rows = 1..Len(dd.rows) /\ Len(dd.rows) \in Nat
    BY <2>2
  <2>6. \A r : Listed(r)' <=> Listed(r)
    BY <2>3 DEF Listed
  <2>7. \A j \in 1..(i - 1) : /\ j \in DOMAIN dd.rows /\ j # i
                              /\ \A n \in DOMAIN dd'.rows : j # n + i
    BY <2>4, <2>5
  <2>8. \A n \in DOMAIN dd'.rows : n + i # i /\ n \in Int
    BY <2>4
  <2>9. Listed(dd'.canon) /\ dd'.canon # dd'.dup /\ \A n \in DOMAIN dd'.rows : dd'.canon # dd'.rows[n]
    <3>1. CASE \E k \in DOMAIN dd.by : dd'.canon = dd.by[k]
      <4>1. PICK k \in DOMAIN dd.by : dd'.canon = dd.by[k]
        BY <3>1
      <4>2. Listed(dd.by[k]) /\ \A n \in DOMAIN dd.rows : dd.by[k] # dd.rows[n]
        BY <2>2 DEF RunFits
      <4>3. i \in DOMAIN dd.rows
        BY <2>5
      <4>4. \A n \in DOMAIN dd'.rows : dd'.canon # dd'.rows[n]
        BY <2>4, <4>1, <4>2
      <4> QED
        BY <2>4, <4>1, <4>2, <4>3, <4>4
    <3>2. CASE \E j \in 1..(i - 1) : dd'.canon = dd.rows[j]
      <4>1. PICK j \in 1..(i - 1) : dd'.canon = dd.rows[j]
        BY <3>2
      <4>2. j \in DOMAIN dd.rows /\ i \in DOMAIN dd.rows /\ j # i
        BY <2>5, <2>7
      <4> QED
        BY <2>2, <2>4, <2>7, <4>1, <4>2 DEF RunFits
    <3> QED
      BY <2>4, <3>1, <3>2
  <2>10. \A k \in DOMAIN dd'.by : Listed(dd'.by[k]) /\ \A n \in DOMAIN dd'.rows : dd'.by[k] # dd'.rows[n]
    <3> SUFFICES ASSUME NEW k \in DOMAIN dd'.by
                 PROVE  Listed(dd'.by[k]) /\ \A n \in DOMAIN dd'.rows : dd'.by[k] # dd'.rows[n]
      OBVIOUS
    <3>1. CASE k \in DOMAIN dd.by
      BY <2>2, <2>4, <3>1 DEF RunFits
    <3>2. CASE dd'.by[k] = dd'.canon
      BY <2>9, <3>2
    <3>3. CASE \E j \in 1..(i - 1) : dd'.by[k] = dd.rows[j]
      BY <2>2, <2>4, <2>7, <3>3 DEF RunFits
    <3> QED
      BY <2>4, <3>1, <3>2, <3>3
  <2>11. \A m, n \in DOMAIN dd'.rows : dd'.rows[m] = dd'.rows[n] => m = n
    <3> SUFFICES ASSUME NEW m \in DOMAIN dd'.rows, NEW n \in DOMAIN dd'.rows, dd'.rows[m] = dd'.rows[n]
                 PROVE  m = n
      OBVIOUS
    <3>1. m + i = n + i
      BY <2>2, <2>4 DEF RunFits
    <3> QED
      BY <2>4, <2>5, <3>1
  <2>12. \A n \in DOMAIN dd'.rows : Listed(dd'.rows[n])
    BY <2>2, <2>4 DEF RunFits
  <2>13. Listed(dd'.dup)
    BY <2>2, <2>4, <2>5 DEF RunFits
  <2>14. DOMAIN dd'.snap \subseteq 1..made' /\ \A r \in DOMAIN dd'.snap \intersect DOMAIN recs' : recs'[r].kind = dd'.snap[r].kind
    BY <2>1, <2>2, <2>3 DEF RunFits
  <2>15. RunFits'
    BY <2>6, <2>9, <2>10, <2>11, <2>12, <2>13, <2>14 DEF RunFits
  <2> QED
    BY <2>2, <2>3, <2>4, <2>15 DEF DedupeType, Scanning, Merging
<1> QED
  BY <1>1, <1>2, <1>3, <1>4

(* The children of a duplicate follow it: who has one is an account, and    *)
(* so is the record that stays.                                            *)
LEMMA ChildrenMove ==
    ASSUME CrmType, dd.pc \in Merging, Held(dd.dup) => recordExists(dd.canon),
           NEW r \in DOMAIN recs, recs[r].parent = dd.dup
    PROVE  dd.canon \in Ids("account") /\ dd.canon \in Nat /\ recs[r].kind # "account" /\ Kinds[dd.turn] = "account"
<1>1. RunFits /\ dd.dup \in DOMAIN dd.snap /\ dd.canon \in DOMAIN dd.snap
      /\ dd.snap[dd.dup].kind = dd.snap[dd.canon].kind /\ dd.snap[dd.dup].kind = Kinds[dd.turn]
  <2>1. dd.pc # "idle" /\ dd.pc \in Scanning
    BY DEF Merging, Scanning
  <2> QED
    BY <2>1, RunFields DEF CrmType, RunFits, Listed
<1>2. dd.dup \in 1..made /\ dd.canon \in 1..made /\ made \in Nat
  BY <1>1 DEF RunFits, CrmType
<1>3. dd.dup \in Ids("account") /\ recs[r].kind # "account"
  BY <1>2 DEF CrmType, CrmRow, Parented
<1>4. dd.canon \in DOMAIN recs
  BY DEF Held, accountHasChildren, recordExists
<1>5. recs[dd.dup].kind = dd.snap[dd.dup].kind /\ recs[dd.canon].kind = dd.snap[dd.canon].kind
  BY <1>1, <1>3, <1>4 DEF RunFits, Ids
<1> QED
  BY <1>1, <1>2, <1>3, <1>4, <1>5 DEF Ids

LEMMA DropRecord ==
    ASSUME CrmType, NEW q, ~Held(q), recs' = [r \in DOMAIN recs \ {q} |-> recs[r]]
    PROVE  /\ recs' = [r \in DOMAIN recs' |-> recs'[r]] /\ DOMAIN recs' = DOMAIN recs \ {q}
           /\ \A r \in DOMAIN recs' : recs'[r] = recs[r] /\ CrmRow(recs'[r])
           /\ \A r \in DOMAIN recs' : recs'[r].parent \in DOMAIN recs => recs'[r].parent \in DOMAIN recs'
<1>1. \A r \in DOMAIN recs' : r \in DOMAIN recs /\ recs'[r] = recs[r] /\ recs'[r].parent # q
  BY DEF Held, accountHasChildren
<1> QED
  BY <1>1 DEF CrmType

LEMMA DedupeTypeStep ==
    ASSUME CrmType,
           \/ OpsDedupe \/ ApprovedDedupe
           \/ DedupeLoad \/ DedupeScan \/ repointPoly \/ repointFieldValues \/ repointTags
           \/ repointRefs \/ dropDuplicate \/ DedupeCut
    PROVE  CrmType'
<1>0. (\A s \in subs : SubRow(s)) /\ (\A f \in refs : RefRow(f)) /\ made \in Nat
      /\ recs = [r \in DOMAIN recs |-> recs[r]] /\ \A r \in DOMAIN recs : CrmRow(recs[r])
  BY DEF CrmType
<1>1. CASE OpsDedupe \/ ApprovedDedupe \/ DedupeLoad \/ DedupeScan
  <2>1. UNCHANGED <<recs, made, subs, refs, up, wr, del>>
    BY <1>1 DEF OpsDedupe, ApprovedDedupe, DedupeStart, DedupeLoad, DedupeScan
  <2> QED
    BY <1>0, <1>1, <2>1, ScanType, RowsSame
<1>2. CASE repointPoly \/ repointFieldValues \/ repointTags
  <2>0. PICK tables : \E pc \in Merging : subs' = Moved(tables) /\ dd' = [dd EXCEPT !.pc = pc]
    <3>1. CASE repointPoly
      BY <3>1 DEF repointPoly, Merging
    <3>2. CASE repointFieldValues
      BY <3>2 DEF repointFieldValues, Merging
    <3>3. CASE repointTags
      BY <3>3 DEF repointTags, Merging
    <3> QED
      BY <1>2, <3>1, <3>2, <3>3
  <2>1. PICK pc \in Merging : subs' = Moved(tables) /\ dd' = [dd EXCEPT !.pc = pc]
    BY <2>0
  <2>2. UNCHANGED <<recs, made, refs, up, wr, del>> /\ dd.pc \in Merging
    BY <1>2 DEF repointPoly, repointFieldValues, repointTags, Merging
  <2>3. DedupeType'
    BY <2>1, <2>2, PcStep DEF Scanning
  <2>4. \A s \in subs' : SubRow(s)
    BY <1>0, <2>1, MovedRows
  <2> QED
    BY <1>0, <2>2, <2>3, <2>4, RowsSame
<1>3. CASE dd' = NoRun /\ (repointRefs \/ dropDuplicate \/ DedupeCut)
  <2>1. UNCHANGED <<made, subs, wr, del>> /\ (Overtaken \/ up' = up)
    BY <1>3 DEF repointRefs, dropDuplicate, DedupeCut
  <2>2. dd # NoRun /\ dd.pc \in Merging
    <3>1. dd.pc \in Merging
      BY <1>3 DEF repointRefs, dropDuplicate, DedupeCut, Merging
    <3> QED
      BY <3>1 DEF Merging, NoRun
  <2>3. recs' = recs /\ refs' = refs
    <3>1. \A x : x # "idle" => [dd EXCEPT !.pc = x] # NoRun
      <4>1. PICK a, b, c, d, e, f, g, h, i, j :
              dd = [pc |-> a, turn |-> b, budget |-> c, rows |-> d, snap |-> e,
                    by |-> f, dup |-> g, canon |-> h, capped |-> i, clean |-> j]
        BY <2>2 DEF CrmType, DedupeType
      <4>2. \A x : [dd EXCEPT !.pc = x].pc = x
        BY <4>1
      <4> QED
        BY <4>2 DEF NoRun
    <3> QED
      BY <1>3, <3>1 DEF repointRefs, dropDuplicate, DedupeCut
  <2>4. DedupeType'
    BY <1>3 DEF DedupeType
  <2> QED
    BY <1>0, <2>1, <2>3, <2>4, RowsSame
<1>4. CASE repointRefs /\ dd' # NoRun
  <2>1. /\ recs' = [r \in DOMAIN recs |->
                      IF recs[r].parent = dd.dup THEN [recs[r] EXCEPT !.parent = dd.canon] ELSE recs[r]]
        /\ refs' = {[f EXCEPT !.rec = IF f.rec = dd.dup THEN dd.canon ELSE f.rec,
                              !.late = f.late \/ (f.rec = dd.dup /\ Going(dd.canon))] : f \in refs}
        /\ dd' = [dd EXCEPT !.pc = "drop"] /\ (Held(dd.dup) => recordExists(dd.canon))
        /\ dd.pc \in Merging /\ Overtaken /\ UNCHANGED <<made, subs, wr, del>>
    BY <1>4 DEF repointRefs, Merging
  <2>2. /\ DOMAIN recs' = DOMAIN recs /\ recs' = [r \in DOMAIN recs' |-> recs'[r]]
        /\ \A r \in DOMAIN recs : recs[r].parent # dd.dup => recs'[r] = recs[r]
    BY <2>1
  <2>3. \A r \in DOMAIN recs : recs[r].parent = dd.dup =>
          /\ recs'[r] = [kind |-> recs[r].kind, name |-> recs[r].name, key |-> recs[r].key, parent |-> dd.canon]
          /\ CrmRow(recs'[r]) /\ recs'[r].kind = recs[r].kind /\ recs'[r].parent = dd.canon
          /\ dd.canon \in Ids("account")
    <3> SUFFICES ASSUME NEW r \in DOMAIN recs, recs[r].parent = dd.dup
                 PROVE /\ recs'[r] = [kind |-> recs[r].kind, name |-> recs[r].name, key |-> recs[r].key, parent |-> dd.canon]
                       /\ CrmRow(recs'[r]) /\ recs'[r].kind = recs[r].kind /\ recs'[r].parent = dd.canon
                       /\ dd.canon \in Ids("account")
      OBVIOUS
    <3>1. dd.canon \in Ids("account") /\ dd.canon \in Nat /\ recs[r].kind # "account"
      BY <2>1, ChildrenMove
    <3>2. recs'[r] = [recs[r] EXCEPT !.parent = dd.canon]
      BY <2>1
    <3>3. CrmRow(recs[r])
      BY <1>0
    <3>4. PICK a, b, c, d : recs[r] = [kind |-> a, name |-> b, key |-> c, parent |-> d]
      BY <3>3 DEF CrmRow
    <3>5. recs'[r] = [kind |-> a, name |-> b, key |-> c, parent |-> dd.canon]
      BY <3>2, <3>4
    <3> QED
      BY <3>1, <3>3, <3>4, <3>5 DEF CrmRow
  <2>4. \A r \in DOMAIN recs' : /\ CrmRow(recs'[r]) /\ recs'[r].kind = recs[r].kind
                                /\ recs'[r].parent \in {recs[r].parent, 0} \union DOMAIN recs'
                                /\ recs'[r].parent # recs[r].parent => Parented(recs'[r])
    BY <1>0, <2>2, <2>3 DEF Ids, Parented
  <2>5. \A f \in refs' : RefRow(f)
    <3> SUFFICES ASSUME NEW f \in refs,
                        NEW g, g = [f EXCEPT !.rec = IF f.rec = dd.dup THEN dd.canon ELSE f.rec,
                                             !.late = f.late \/ (f.rec = dd.dup /\ Going(dd.canon))]
                 PROVE  RefRow(g)
      BY <2>1
    <3>1. PICK a, b, c : f = [table |-> a, rec |-> b, late |-> c]
      BY <1>0 DEF RefRow
    <3>2. PICK l \in BOOLEAN : l = (f.late \/ (f.rec = dd.dup /\ Going(dd.canon)))
      OBVIOUS
    <3>3. g = [table |-> a, rec |-> IF f.rec = dd.dup THEN dd.canon ELSE f.rec, late |-> l]
      BY <3>1, <3>2
    <3> QED
      BY <3>3 DEF RefRow
  <2>6. DedupeType'
    BY <2>1, <2>2, <2>4, PcStep DEF Scanning, Merging
  <2> QED
    BY <1>0, <2>1, <2>2, <2>4, <2>5, <2>6, FewerType
<1>5. CASE dropDuplicate /\ dd' # NoRun
  <2>1. /\ dd' = [dd EXCEPT !.pc = "scan"] /\ ~Held(dd.dup) /\ dd.pc \in Merging
        /\ recs' = [r \in DOMAIN recs \ {dd.dup} |-> recs[r]] /\ UNCHANGED <<made, subs, refs, up, wr, del>>
    BY <1>5 DEF dropDuplicate, Merging
  <2>2. /\ recs' = [r \in DOMAIN recs' |-> recs'[r]] /\ DOMAIN recs' = DOMAIN recs \ {dd.dup}
        /\ \A r \in DOMAIN recs' : recs'[r] = recs[r] /\ CrmRow(recs'[r])
        /\ \A r \in DOMAIN recs' : recs'[r].parent \in DOMAIN recs => recs'[r].parent \in DOMAIN recs'
    BY <2>1, DropRecord
  <2>3. DedupeType'
    BY <2>1, <2>2, PcStep DEF Scanning
  <2> QED
    BY <1>0, <2>1, <2>2, <2>3, FewerType
<1>6. CASE DedupeCut
  BY <1>3, <1>6 DEF DedupeCut
<1> QED
  BY <1>1, <1>2, <1>3, <1>4, <1>5, <1>6

LEMMA CrmTypeStep == CrmType /\ [CrmNext]_crmVars => CrmType'
<1> SUFFICES ASSUME CrmType, [CrmNext]_crmVars PROVE CrmType'
  OBVIOUS
<1>1. CASE UNCHANGED crmVars
  <2>1. UNCHANGED <<recs, made, subs, refs, up, wr, del, dd>>
    BY <1>1 DEF crmVars
  <2>2. (\A s \in subs : SubRow(s)) /\ (\A f \in refs : RefRow(f))
    BY DEF CrmType
  <2> QED
    BY <2>1, <2>2, RecordsSame
<1> QED
  BY <1>1, RecordsType, WriteType, DeleteType, DedupeTypeStep DEF CrmNext

LEMMA TouchedSame ==
    ASSUME CrmType, Touched
    PROVE  /\ dd'.pc = dd.pc /\ dd'.clean = FALSE
           /\ dd.pc # "idle" => /\ dd'.turn = dd.turn /\ dd'.rows = dd.rows /\ dd'.snap = dd.snap
                                /\ dd'.by = dd.by /\ dd'.dup = dd.dup /\ dd'.canon = dd.canon
                                /\ dd'.capped = dd.capped
<1>1. CASE dd = NoRun
  BY <1>1 DEF Touched, NoRun
<1>2. CASE dd # NoRun
  <2>1. PICK a, b, c, d, e, f, g, h, i, j :
          dd = [pc |-> a, turn |-> b, budget |-> c, rows |-> d, snap |-> e,
                by |-> f, dup |-> g, canon |-> h, capped |-> i, clean |-> j]
    BY <1>2 DEF CrmType, DedupeType
  <2>2. dd' = [pc |-> a, turn |-> b, budget |-> c, rows |-> d, snap |-> e,
               by |-> f, dup |-> g, canon |-> h, capped |-> i, clean |-> FALSE]
    BY <2>1 DEF Touched
  <2> QED
    BY <2>1, <2>2
<1> QED
  BY <1>1, <1>2

LEMMA DupKnown == ASSUME CrmType, dd.pc \in Merging PROVE dd.dup \in 1..made /\ dd.dup # dd.canon
<1>1. dd.pc # "idle" /\ dd.pc \in Scanning
  BY DEF Merging, Scanning
<1>2. RunFits
  BY <1>1, RunFields DEF CrmType
<1> QED
  BY <1>2 DEF RunFits, Listed

(* A row written below a record that is neither gone nor going can stay.   *)
LEMMA RowsAdded ==
    ASSUME CrmType, DanglingInv, DOMAIN recs \subseteq DOMAIN recs', erased' = erased,
           del' = del, dd' = dd \/ Touched,
           \A s \in subs' : \/ s \in subs \/ s.late
                            \/ /\ s.rec \in DOMAIN recs' /\ ~(del.pc # "idle" /\ s.rec = del.rec)
                               /\ ~(dd.pc \in Merging /\ s.rec = dd.dup),
           \A f \in refs' : \/ f \in refs \/ f.late
                            \/ f.rec \in DOMAIN recs' /\ ~(dd.pc \in Merging /\ f.rec = dd.dup)
    PROVE  DanglingInv'
<1>1. dd'.pc = dd.pc /\ (dd.pc \in Merging => dd'.dup = dd.dup)
  BY TouchedSame DEF Merging
<1>2. \A t : Behind(t)' <=> Behind(t)
  BY <1>1 DEF Behind
<1>3. NoDangling'
  BY DEF DanglingInv, NoDangling, recordExists
<1>4. dd'.pc = "drop" => \A f \in refs' : f.rec = dd'.dup => f.late
  BY <1>1 DEF DanglingInv, Merging
<1>5. dd'.pc \in Merging => \A s \in subs' : s.rec = dd'.dup /\ Behind(s.table)' => s.late
  BY <1>1, <1>2 DEF DanglingInv
<1>6. del'.pc = "row" => \A s \in subs' : s.rec = del'.rec => s.late
  BY DEF DanglingInv
<1> QED
  BY <1>3, <1>4, <1>5, <1>6 DEF DanglingInv

LEMMA RecordsDangling ==
    ASSUME CrmType, DanglingInv,
           \/ \E row \in Proposable : createAccount(row) \/ createDeal(row) \/ createContact(row)
           \/ \E row \in Proposable : UpsertFind(row)
           \/ UpsertCreate
           \/ \E r \in DOMAIN recs : \E n \in Names[recs[r].kind] : updateRecord(r, n)
    PROVE  DanglingInv'
<1>0. made \in Nat /\ DOMAIN recs \subseteq 1..made
  BY DEF CrmType
<1>1. ASSUME NEW row, recs' = With(row), subs' = subs \union {Created},
             UNCHANGED <<refs, erased, del>>, Touched
      PROVE  DanglingInv'
  <2>1. DOMAIN recs' = DOMAIN recs \union {made + 1}
    BY <1>1 DEF With
  <2>2. Created.rec = made + 1
    BY DEF Created
  <2>3. del.pc # "idle" => del.rec \in 1..made
    BY DEF CrmType, AtRest
  <2>4. ~(dd.pc \in Merging /\ Created.rec = dd.dup) /\ ~(del.pc # "idle" /\ Created.rec = del.rec)
    BY <1>0, <2>2, <2>3, DupKnown
  <2> QED
    BY <1>1, <2>1, <2>2, <2>4, RowsAdded
<1>2. ASSUME NEW row, createAccount(row) \/ createDeal(row) \/ createContact(row) PROVE DanglingInv'
  BY <1>1, <1>2 DEF createAccount, createDeal, createContact, Insert
<1>3. ASSUME NEW row, UpsertFind(row) PROVE DanglingInv'
  BY <1>3, RowsAdded DEF UpsertFind
<1>4. CASE UpsertCreate
  <2>1. CASE up.row.parent = 0 \/ recordExists(up.row.parent)
    BY <1>1, <1>4, <2>1 DEF UpsertCreate
  <2>2. CASE ~(up.row.parent = 0 \/ recordExists(up.row.parent))
    BY <1>4, <2>2, RowsAdded DEF UpsertCreate
  <2> QED
    BY <2>1, <2>2
<1>5. ASSUME NEW r \in DOMAIN recs, NEW n, updateRecord(r, n) PROVE DanglingInv'
  <2>1. PICK b \in BOOLEAN : b = Late(r)
    BY LateBoolean
  <2>2. PICK s : s = [table |-> "activity", rec |-> r, item |-> ops', late |-> b]
    OBVIOUS
  <2>3. /\ subs' = subs \union {s} /\ DOMAIN recs' = DOMAIN recs /\ UNCHANGED <<refs, erased, del>> /\ Touched
    BY <1>5, <2>1, <2>2 DEF updateRecord
  <2>4. s.rec = r /\ s.late = b
    BY <2>2
  <2>5. \/ s.late
        \/ ~(del.pc # "idle" /\ s.rec = del.rec) /\ ~(dd.pc \in Merging /\ s.rec = dd.dup)
    BY <2>1, <2>4 DEF Late, Going
  <2> QED
    BY <2>3, <2>4, <2>5, RowsAdded
<1> QED
  BY <1>2, <1>3, <1>4, <1>5

LEMMA WriteDangling ==
    ASSUME CrmType, DanglingInv,
           \/ \E r \in 1..made :
                \/ PostNote(r) \/ ApprovedWrite("note", 0, r)
                \/ \E f \in FieldIds : PutField(f, r) \/ ApprovedWrite("value", f, r)
                \/ \E t \in Tags : PostTag(t, r)
           \/ WriteRow
           \/ \E t \in Tags, r \in DOMAIN recs : untagRecord(t, r)
           \/ \E r \in DOMAIN recs : \E t \in RefTables(recs[r].kind) : LinkRow(t, r)
    PROVE  DanglingInv'
<1>1. ASSUME NEW table, NEW item, NEW r, CheckWrite(table, item, r) \/ ApprovedWrite(table, item, r)
      PROVE  DanglingInv'
  BY <1>1, RowsAdded DEF CheckWrite, ApprovedWrite
<1>2. CASE WriteRow
  <2>1. UNCHANGED <<recs, refs, erased, del, dd>>
        /\ subs' \subseteq subs \union RowsOf(wr.table, wr.item, wr.rec, wr.n)
    BY <1>2 DEF WriteRow
  <2>2. PICK b \in BOOLEAN : b = Late(wr.rec)
    BY LateBoolean
  <2>3. \A s \in RowsOf(wr.table, wr.item, wr.rec, wr.n) : s.rec = wr.rec /\ s.late = b
    BY <2>2 DEF RowsOf, recordActivity, addNote, setFieldValue, tagRecord
  <2>4. \/ b
        \/ /\ wr.rec \in DOMAIN recs /\ ~(del.pc # "idle" /\ wr.rec = del.rec)
           /\ ~(dd.pc \in Merging /\ wr.rec = dd.dup)
    BY <2>2 DEF Late, Going
  <2> QED
    BY <2>1, <2>3, <2>4, RowsAdded
<1>3. ASSUME NEW t, NEW r, untagRecord(t, r) PROVE DanglingInv'
  BY <1>3, RowsAdded DEF untagRecord
<1>4. ASSUME NEW t, NEW r, LinkRow(t, r) PROVE DanglingInv'
  <2>1. PICK b \in BOOLEAN : b = Late(r)
    BY LateBoolean
  <2>2. PICK f : f = [table |-> t, rec |-> r, late |-> b]
    OBVIOUS
  <2>3. /\ refs' = refs \union {f} /\ UNCHANGED <<recs, subs, erased, del, dd>> /\ r \in DOMAIN recs
    BY <1>4, <2>1, <2>2 DEF LinkRow, recordExists
  <2>4. f.rec = r /\ f.late = b /\ (f.late \/ ~(dd.pc \in Merging /\ f.rec = dd.dup))
    BY <2>1, <2>2 DEF Late
  <2> QED
    BY <2>3, <2>4, RowsAdded
<1> QED
  BY <1>1, <1>2, <1>3, <1>4 DEF PostNote, PutField, PostTag

LEMMA DeleteDangling ==
    ASSUME CrmType, DanglingInv,
           \/ \E r \in 1..made : DeleteAsked(r) \/ DeleteApproved(r)
           \/ DeleteUnlink \/ deleteCrmSubData \/ DeleteRecord
    PROVE  DanglingInv'
<1>1. ASSUME NEW r, DeleteAsked(r) \/ DeleteApproved(r) PROVE DanglingInv'
  <2>1. del'.pc = "unlink" /\ UNCHANGED <<recs, subs, refs, erased>> /\ Touched
    BY <1>1 DEF DeleteAsked, DeleteApproved
  <2>2. dd'.pc = dd.pc /\ (dd.pc \in Merging => dd'.dup = dd.dup)
    BY <2>1, TouchedSame DEF Merging
  <2> QED
    BY <2>1, <2>2 DEF DanglingInv, NoDangling, Behind, recordExists, Merging
<1>2. CASE DeleteUnlink \/ deleteCrmSubData
  <2>1. /\ del.pc \in {"unlink", "subs"} /\ subs' \subseteq subs /\ refs' \subseteq refs
        /\ UNCHANGED <<recs, erased, dd>>
    BY <1>2 DEF DeleteUnlink, deleteCrmSubData
  <2>2. del'.pc = "row" => \A s \in subs' : s.rec # del'.rec
    <3>1. del = [pc |-> del.pc, rec |-> del.rec]
      BY <2>1 DEF CrmType, AtRest
    <3> QED
      BY <1>2, <3>1 DEF DeleteUnlink, deleteCrmSubData
  <2> QED
    BY <2>1, <2>2 DEF DanglingInv, NoDangling, Behind, recordExists
<1>3. CASE DeleteRecord
  <2>1. del' = AtRest /\ UNCHANGED <<subs, refs, dd>> /\ del.pc = "row"
    BY <1>3 DEF DeleteRecord
  <2>2. CASE UNCHANGED <<recs, erased>>
    BY <2>1, <2>2 DEF DanglingInv, NoDangling, Behind, recordExists, AtRest
  <2>3. CASE ~UNCHANGED <<recs, erased>>
    <3>1. /\ DOMAIN recs' = DOMAIN recs \ {del.rec} /\ erased' = erased \union {del.rec} /\ ~Held(del.rec)
      BY <1>3, <2>3 DEF DeleteRecord
    <3>2. NoDangling'
      BY <2>1, <3>1 DEF DanglingInv, NoDangling, recordExists, Held
    <3> QED
      BY <2>1, <3>2 DEF DanglingInv, Behind, AtRest
  <2> QED
    BY <2>2, <2>3
<1> QED
  BY <1>1, <1>2, <1>3

(* What a merge moves stands below the record that stays, and is late when  *)
(* that one is gone or going.                                              *)
LEMMA MovedDangling ==
    ASSUME CrmType, DanglingInv, NEW tables, NEW x \in Merging, dd.pc \in Merging,
           subs' = Moved(tables), dd' = [dd EXCEPT !.pc = x], x # "drop",
           UNCHANGED <<recs, made, refs, erased, del>>,
           \A t \in SubTables : Behind(t)' => t \in tables \/ Behind(t)
    PROVE  DanglingInv'
<1>1. dd'.pc = x /\ dd'.dup = dd.dup /\ dd'.canon = dd.canon
  BY PcStep DEF Scanning
<1>2. dd.dup # dd.canon
  BY DupKnown
<1>3. \A s \in subs : SubRow(s)
  BY DEF CrmType
<1>4. ASSUME NEW t \in subs'
      PROVE  /\ t.late \/ recordExists(t.rec)
             /\ del.pc = "row" /\ t.rec = del.rec => t.late
             /\ t.rec = dd.dup /\ Behind(t.table)' => t.late
  <2>1. PICK s \in subs :
          /\ t.table = s.table
          /\ IF s.rec = dd.dup /\ s.table \in tables
             THEN t.rec = dd.canon /\ (t.late <=> s.late \/ Going(dd.canon)) ELSE t = s
    BY <1>3, <1>4, MovedRows
  <2>2. CASE s.rec = dd.dup /\ s.table \in tables
    BY <1>2, <2>1, <2>2 DEF Going, recordExists
  <2>3. CASE ~(s.rec = dd.dup /\ s.table \in tables)
    BY <1>3, <2>1, <2>3 DEF DanglingInv, NoDangling, SubRow
  <2> QED
    BY <2>2, <2>3
<1> QED
  BY <1>1, <1>4 DEF DanglingInv, NoDangling, recordExists

LEMMA DedupeDangling ==
    ASSUME CrmType, DanglingInv,
           \/ OpsDedupe \/ ApprovedDedupe
           \/ DedupeLoad \/ DedupeScan \/ repointPoly \/ repointFieldValues \/ repointTags
           \/ repointRefs \/ dropDuplicate \/ DedupeCut
    PROVE  DanglingInv'
<1>0. \A s \in subs : SubRow(s)
  BY DEF CrmType
<1>1. ASSUME dd'.pc \notin Merging \ {"poly"}, UNCHANGED <<recs, subs, refs, erased, del>>
      PROVE  DanglingInv'
  BY <1>1 DEF DanglingInv, NoDangling, Behind, recordExists, Merging
<1>2. CASE OpsDedupe \/ ApprovedDedupe
  <2>1. dd'.pc = "load" /\ UNCHANGED <<recs, subs, refs, erased, del>>
    BY <1>2 DEF OpsDedupe, ApprovedDedupe, DedupeStart
  <2> QED
    BY <1>1, <2>1 DEF Merging
<1>3. CASE DedupeLoad
  <2>1. UNCHANGED <<recs, subs, refs, erased, del>> /\ dd.pc = "load"
    BY <1>3 DEF DedupeLoad
  <2>2. dd'.pc = "scan"
    <3>1. PICK a, b, c, d, e, f, g, h, i, j :
            dd = [pc |-> a, turn |-> b, budget |-> c, rows |-> d, snap |-> e,
                  by |-> f, dup |-> g, canon |-> h, capped |-> i, clean |-> j]
      BY <2>1, RunFields DEF CrmType
    <3> QED
      BY <1>3, <3>1 DEF DedupeLoad
  <2> QED
    BY <1>1, <2>1, <2>2 DEF Merging
<1>4. CASE DedupeScan
  <2>1. UNCHANGED <<recs, subs, refs, erased, del>> /\ dd.pc = "scan"
    BY <1>4 DEF DedupeScan
  <2>2. dd'.pc \in {"load", "done", "poly"}
    <3>1. PICK a, b, c, d, e, f, g, h, i, j :
            dd = [pc |-> a, turn |-> b, budget |-> c, rows |-> d, snap |-> e,
                  by |-> f, dup |-> g, canon |-> h, capped |-> i, clean |-> j]
      BY <2>1, RunFields DEF CrmType
    <3> QED
      BY <1>4, <3>1 DEF DedupeScan, NextKind, Merge
  <2> QED
    BY <1>1, <2>1, <2>2 DEF Merging
<1>5. CASE repointPoly
  <2>1. /\ dd.pc \in Merging /\ subs' = Moved(Poly) /\ dd' = [dd EXCEPT !.pc = "values"]
        /\ UNCHANGED <<recs, made, refs, erased, del>>
    BY <1>5 DEF repointPoly, Merging
  <2>2. dd'.pc = "values"
    BY <2>1, PcStep DEF Scanning, Merging
  <2> QED
    BY <2>1, <2>2, MovedDangling DEF Behind, Merging
<1>6. CASE repointFieldValues
  <2>1. /\ dd.pc = "values" /\ subs' = Moved({"value"}) /\ dd' = [dd EXCEPT !.pc = "tags"]
        /\ UNCHANGED <<recs, made, refs, erased, del>>
    BY <1>6 DEF repointFieldValues
  <2>2. dd'.pc = "tags"
    BY <2>1, PcStep DEF Scanning, Merging
  <2> QED
    BY <2>1, <2>2, MovedDangling DEF Behind, Merging
<1>7. CASE repointTags
  <2>1. /\ dd.pc = "tags" /\ subs' = Moved({"tag"}) /\ dd' = [dd EXCEPT !.pc = "refs"]
        /\ UNCHANGED <<recs, made, refs, erased, del>>
    BY <1>7 DEF repointTags
  <2>2. dd'.pc = "refs"
    BY <2>1, PcStep DEF Scanning, Merging
  <2> QED
    BY <2>1, <2>2, MovedDangling DEF Behind, Merging
<1>8. CASE (repointRefs \/ dropDuplicate) /\ recs' = recs /\ refs' = refs /\ dd' = NoRun
  BY <1>1, <1>8 DEF repointRefs, dropDuplicate, NoRun, Merging
<1>9. CASE repointRefs /\ ~(Held(dd.dup) /\ ~recordExists(dd.canon))
  <2>1. /\ dd.pc = "refs" /\ dd.pc \in Merging /\ DOMAIN recs' = DOMAIN recs
        /\ \A r \in DOMAIN recs : recs'[r] = IF recs[r].parent = dd.dup
                                             THEN [recs[r] EXCEPT !.parent = dd.canon] ELSE recs[r]
        /\ refs' = {[f EXCEPT !.rec = IF f.rec = dd.dup THEN dd.canon ELSE f.rec,
                              !.late = f.late \/ (f.rec = dd.dup /\ Going(dd.canon))] : f \in refs}
        /\ dd' = [dd EXCEPT !.pc = "drop"] /\ UNCHANGED <<made, subs, erased, del>>
    BY <1>9 DEF repointRefs, Merging
  <2>2. dd'.pc = "drop" /\ dd'.dup = dd.dup
    <3>1. PICK a, b, c, d, e, f, g, h, i, j :
            dd = [pc |-> a, turn |-> b, budget |-> c, rows |-> d, snap |-> e,
                  by |-> f, dup |-> g, canon |-> h, capped |-> i, clean |-> j]
      BY <2>1, RunFields DEF CrmType, Merging
    <3> QED
      BY <2>1, <3>1
  <2>3. dd.dup # dd.canon
    BY <2>1, DupKnown
  <2>4. ASSUME NEW g \in refs'
        PROVE  /\ \/ g.late \/ g.rec \in DOMAIN recs \/ (g.rec \in erased /\ g.table \notin Enforced)
               /\ g.rec # dd.dup
    <3>1. PICK f \in refs : g = [f EXCEPT !.rec = IF f.rec = dd.dup THEN dd.canon ELSE f.rec,
                                          !.late = f.late \/ (f.rec = dd.dup /\ Going(dd.canon))]
      BY <2>1, <2>4
    <3>2. RefRow(f)
      BY DEF CrmType
    <3>3. PICK a, b, c : f = [table |-> a, rec |-> b, late |-> c]
      BY <3>2 DEF RefRow
    <3>4. PICK l \in BOOLEAN : l = (f.late \/ (f.rec = dd.dup /\ Going(dd.canon)))
      OBVIOUS
    <3>5. g = [table |-> a, rec |-> IF f.rec = dd.dup THEN dd.canon ELSE f.rec, late |-> l]
      BY <3>1, <3>3, <3>4
    <3>6. g.table = f.table /\ g.late = l /\ g.rec = (IF f.rec = dd.dup THEN dd.canon ELSE f.rec)
      BY <3>3, <3>5
    <3> QED
      BY <2>3, <3>4, <3>6 DEF DanglingInv, NoDangling, recordExists, Going
  <2>5. \A s \in subs : s.rec = dd.dup /\ Behind(s.table)' => s.late
    BY <1>0, <2>1, <2>2 DEF DanglingInv, Behind, SubRow, SubTables
  <2> QED
    BY <2>1, <2>2, <2>4, <2>5 DEF DanglingInv, NoDangling, recordExists
<1>10. CASE dropDuplicate /\ ~Held(dd.dup)
  <2>1. /\ dd.pc = "drop" /\ dd.pc \in Merging /\ DOMAIN recs' = DOMAIN recs \ {dd.dup}
        /\ dd' = [dd EXCEPT !.pc = "scan"] /\ UNCHANGED <<subs, refs, erased, del>>
    BY <1>10 DEF dropDuplicate, Merging
  <2>2. dd'.pc = "scan"
    <3>1. PICK a, b, c, d, e, f, g, h, i, j :
            dd = [pc |-> a, turn |-> b, budget |-> c, rows |-> d, snap |-> e,
                  by |-> f, dup |-> g, canon |-> h, capped |-> i, clean |-> j]
      BY <2>1, RunFields DEF CrmType, Merging
    <3> QED
      BY <2>1, <3>1
  <2>3. \A s \in subs : s.rec = dd.dup => s.late
    BY <1>0, <2>1 DEF DanglingInv, Behind, SubRow, SubTables
  <2> QED
    BY <2>1, <2>2, <2>3 DEF DanglingInv, NoDangling, recordExists, Merging, Behind
<1>11. CASE DedupeCut
  BY <1>1, <1>11 DEF DedupeCut, NoRun, Merging
<1> QED
  BY <1>2, <1>3, <1>4, <1>5, <1>6, <1>7, <1>8, <1>9, <1>10, <1>11 DEF repointRefs, dropDuplicate

LEMMA DanglingStep == CrmType /\ DanglingInv /\ [CrmNext]_crmVars => DanglingInv'
<1> SUFFICES ASSUME CrmType, DanglingInv, [CrmNext]_crmVars PROVE DanglingInv'
  OBVIOUS
<1>1. CASE UNCHANGED crmVars
  BY <1>1, RowsAdded DEF crmVars
<1> QED
  BY <1>1, RecordsDangling, WriteDangling, DeleteDangling, DedupeDangling DEF CrmNext

(* Two rows share a key when they share a domain or an e-mail, or a name    *)
(* under one parent.                                                       *)
LEMMA SharedKey ==
    ASSUME NEW a, NEW b, Range(RowKeys(a)) \intersect Range(RowKeys(b)) # {}
    PROVE  \/ b.key # NoKey /\ a.key = b.key
           \/ a.parent = b.parent /\ crmNormName(a.name) = crmNormName(b.name)
<1>1. \A row : \A k \in Range(RowKeys(row)) :
        k = NameKey(row) \/ (row.key # NoKey /\ k = <<"key", row.key>>)
  BY DEF Range, RowKeys
<1>2. PICK k : k \in Range(RowKeys(a)) /\ k \in Range(RowKeys(b))
  OBVIOUS
<1>3. k = NameKey(a) \/ k = <<"key", a.key>>
  BY <1>1, <1>2
<1>4. k = NameKey(b) \/ (b.key # NoKey /\ k = <<"key", b.key>>)
  BY <1>1, <1>2
<1>5. \A row, x : NameKey(row) # <<"key", x>>
  BY DEF NameKey
<1>6. CASE k = NameKey(a) /\ k = NameKey(b)
  BY <1>6 DEF NameKey
<1>7. CASE k = <<"key", a.key>> /\ k = <<"key", b.key>> /\ b.key # NoKey
  BY <1>7
<1> QED
  BY <1>3, <1>4, <1>5, <1>6, <1>7

LEMMA FoundApart ==
    ASSUME CrmType, NEW row, CrmRow(row), row.kind # "deal", Find(row) = {}, NEW r \in Ids(row.kind)
    PROVE  KeysOf(r) \intersect Range(RowKeys(row)) = {}
<1> SUFFICES ASSUME KeysOf(r) \intersect Range(RowKeys(row)) # {} PROVE FALSE
  OBVIOUS
<1>1. PICK a : a = recs[r]
  OBVIOUS
<1>2. \/ row.key # NoKey /\ a.key = row.key
      \/ a.parent = row.parent /\ crmNormName(a.name) = crmNormName(row.name)
  BY <1>1, SharedKey DEF KeysOf
<1>3. CASE row.kind = "account"
  BY <1>1, <1>2, <1>3 DEF Find, FindAccount, Ids
<1>4. CASE row.kind = "contact"
  BY <1>1, <1>2, <1>4 DEF Find, FindContact, Ids
<1> QED
  BY <1>3, <1>4 DEF CrmRow

LEMMA UpsertsStep ==
    ASSUME CrmType, UpsertsNeverDouble, CrmNext
    PROVE  UpsertsNeverDouble'
<1>1. ASSUME up' = up, \A r \in DOMAIN recs' : r \in DOMAIN recs /\ recs'[r] = recs[r]
      PROVE  UpsertsNeverDouble'
  BY <1>1 DEF UpsertsNeverDouble, Ids
<1>2. ASSUME up' = AtRest PROVE UpsertsNeverDouble'
  BY <1>2 DEF UpsertsNeverDouble, AtRest
<1>3. ASSUME Overtaken PROVE UpsertsNeverDouble'
  <2>1. CASE up = AtRest
    BY <1>2, <1>3, <2>1 DEF Overtaken, AtRest
  <2>2. CASE up # AtRest
    <3>1. PICK row, raced : up = [pc |-> "create", row |-> row, raced |-> raced]
      BY <2>2 DEF CrmType
    <3>2. up' = [pc |-> "create", row |-> row, raced |-> TRUE]
      BY <1>3, <3>1 DEF Overtaken
    <3> QED
      BY <3>2 DEF UpsertsNeverDouble
  <2> QED
    BY <2>1, <2>2
<1>4. ASSUME NEW row \in Proposable, UpsertFind(row) PROVE UpsertsNeverDouble'
  <2>1. up' = [pc |-> "create", row |-> row, raced |-> FALSE] /\ recs' = recs /\ Find(row) = {}
    BY <1>4 DEF UpsertFind
  <2>2. CrmRow(row)
    BY ProposedRow
  <2>3. row.kind # "deal" => \A r \in Ids(row.kind) : Range(RowKeys(recs[r])) \intersect Range(RowKeys(row)) = {}
    BY <2>1, <2>2, FoundApart DEF KeysOf
  <2>4. up'.row = row
    BY <2>1
  <2> QED
    BY <2>1, <2>3, <2>4 DEF UpsertsNeverDouble, Ids
<1>5. ASSUME NEW row, createAccount(row) \/ createDeal(row) \/ createContact(row) PROVE UpsertsNeverDouble'
  BY <1>3, <1>5 DEF createAccount, createDeal, createContact, Insert
<1>6. CASE UpsertCreate
  BY <1>2, <1>6 DEF UpsertCreate
<1>7. ASSUME NEW r, NEW n, updateRecord(r, n) PROVE UpsertsNeverDouble'
  BY <1>3, <1>7 DEF updateRecord
<1>8. ASSUME \/ \E r \in 1..made :
                  \/ PostNote(r) \/ ApprovedWrite("note", 0, r)
                  \/ \E f \in FieldIds : PutField(f, r) \/ ApprovedWrite("value", f, r)
                  \/ \E t \in Tags : PostTag(t, r)
             \/ WriteRow
             \/ \E t \in Tags, r \in DOMAIN recs : untagRecord(t, r)
             \/ \E r \in DOMAIN recs : \E t \in RefTables(recs[r].kind) : LinkRow(t, r)
      PROVE  UpsertsNeverDouble'
  <2>1. UNCHANGED <<recs, up>>
    BY <1>8 DEF PostNote, PutField, PostTag, CheckWrite, ApprovedWrite, WriteRow, untagRecord, LinkRow
  <2> QED
    BY <1>1, <2>1
<1>9. ASSUME \/ \E r \in 1..made : DeleteAsked(r) \/ DeleteApproved(r)
             \/ DeleteUnlink \/ deleteCrmSubData \/ DeleteRecord
      PROVE  UpsertsNeverDouble'
  <2>1. up' = up
    BY <1>9 DEF DeleteAsked, DeleteApproved, DeleteUnlink, deleteCrmSubData, DeleteRecord
  <2>2. \A r \in DOMAIN recs' : r \in DOMAIN recs /\ recs'[r] = recs[r]
    BY <1>9 DEF DeleteAsked, DeleteApproved, DeleteUnlink, deleteCrmSubData, DeleteRecord
  <2> QED
    BY <1>1, <2>1, <2>2
<1>10. ASSUME \/ OpsDedupe \/ ApprovedDedupe
              \/ DedupeLoad \/ DedupeScan \/ repointPoly \/ repointFieldValues \/ repointTags
              \/ dropDuplicate \/ DedupeCut
       PROVE  UpsertsNeverDouble'
  <2>1. up' = up
    BY <1>10 DEF OpsDedupe, ApprovedDedupe, DedupeStart, DedupeLoad, DedupeScan, repointPoly,
                 repointFieldValues, repointTags, dropDuplicate, DedupeCut
  <2>2. \A r \in DOMAIN recs' : r \in DOMAIN recs /\ recs'[r] = recs[r]
    BY <1>10 DEF OpsDedupe, ApprovedDedupe, DedupeStart, DedupeLoad, DedupeScan, repointPoly,
                 repointFieldValues, repointTags, dropDuplicate, DedupeCut
  <2> QED
    BY <1>1, <2>1, <2>2
<1>11. CASE repointRefs
  BY <1>3, <1>11 DEF repointRefs
<1> QED
  BY <1>4, <1>5, <1>6, <1>7, <1>8, <1>9, <1>10, <1>11 DEF CrmNext

(* The records a run has to do with stay as they are while one is merged.   *)
LEMMA CleanKept ==
    ASSUME CrmType, dd.clean, CleanRun, dd.pc \in Merging, NEW x \in Scanning, dd' = [dd EXCEPT !.pc = x],
           made' = made, del' = del,
           \A r \in DOMAIN recs' : r \in DOMAIN recs /\ recs'[r].kind = recs[r].kind,
           \A u \in 1..3 : u <= dd.turn => \A r \in DOMAIN recs' : recs[r].kind = Kinds[u] => recs'[r] = recs[r],
           x \in Merging \/ dd.dup \notin DOMAIN recs'
    PROVE  CleanRun'
<1>1. /\ dd'.pc = x /\ dd'.turn = dd.turn /\ dd'.rows = dd.rows /\ dd'.snap = dd.snap
      /\ dd'.by = dd.by /\ dd'.dup = dd.dup /\ dd'.canon = dd.canon /\ dd'.capped = dd.capped
  BY PcStep
<1>2. dd.turn \in 1..3 /\ dd.pc \in Scanning /\ dd.pc # "done" /\ x # "done"
  BY RunFields DEF CrmType, Merging, Scanning
<1>3. \A u \in 1..3 : u <= dd.turn => \A r \in Ids(Kinds[u])' : r \in Ids(Kinds[u]) /\ recs'[r] = recs[r]
  BY DEF Ids
<1>4. ~dd'.capped => \A u \in 1..3 : u < dd'.turn \/ dd'.pc = "done" => Apart(Kinds[u])'
  <2> SUFFICES ASSUME ~dd'.capped, NEW u \in 1..3, u < dd'.turn PROVE Apart(Kinds[u])'
    BY <1>1, <1>2
  <2>1. Apart(Kinds[u]) /\ u <= dd.turn
    BY <1>1, <1>2 DEF CleanRun
  <2>2. \A r \in Ids(Kinds[u])' : r \in Ids(Kinds[u]) /\ recs'[r] = recs[r]
    BY <1>3, <2>1
  <2> QED
    BY <2>1, <2>2 DEF Apart, KeysOf
<1>5. \A r \in Ids(Kinds[dd.turn])' :
         /\ r \in DOMAIN dd'.snap /\ recs'[r] = dd'.snap[r]
         /\ r \in Range(dd'.rows) \/ (dd'.pc \in Merging /\ r = dd'.dup) \/ Settled(r)'
  <2> SUFFICES ASSUME NEW r \in Ids(Kinds[dd.turn])'
               PROVE  /\ r \in DOMAIN dd.snap /\ recs'[r] = dd.snap[r]
                      /\ r \in Range(dd.rows) \/ (x \in Merging /\ r = dd.dup) \/ Settled(r)'
    BY <1>1
  <2>1. r \in Ids(Kinds[dd.turn]) /\ recs'[r] = recs[r] /\ r \in DOMAIN recs'
    BY <1>2, <1>3 DEF Ids
  <2>2. /\ r \in DOMAIN dd.snap /\ recs[r] = dd.snap[r]
        /\ r \in Range(dd.rows) \/ r = dd.dup \/ Settled(r)
    BY <1>2, <2>1 DEF CleanRun
  <2>3. Settled(r) => Settled(r)'
    BY <1>1, <2>1 DEF Settled, KeysOf
  <2> QED
    BY <2>1, <2>2, <2>3
<1>6. del'.pc = "idle"
  BY DEF CleanRun
<1> QED
  BY <1>4, <1>5, <1>6 DEF CleanRun

(* The list is done and nothing in it shares a key: the kind has no doubles. *)
LEMMA ListApart ==
    ASSUME CrmType, CleanRun, dd.pc = "scan", Hits = {}
    PROVE  Apart(Kinds[dd.turn])
<1>1. dd.rows \in Seq(Nat) /\ dd.pc \in Scanning
  BY RunFields DEF CrmType, Scanning, Merging
<1>2. ASSUME NEW r \in Ids(Kinds[dd.turn]), ~Settled(r)
      PROVE  \E i \in DOMAIN dd.rows : r = dd.rows[i] /\ KeysOf(r) = Range(ScanKeys(i))
  <2>1. r \in Range(dd.rows) /\ recs[r] = dd.snap[r]
    BY <1>1, <1>2 DEF CleanRun, Merging
  <2> QED
    BY <2>1 DEF Range, KeysOf, ScanKeys
<1>3. \A i \in DOMAIN dd.rows : Range(ScanKeys(i)) \intersect (DOMAIN dd.by \union KeysBefore(i)) = {}
  BY DEF Hits
<1> SUFFICES ASSUME NEW r \in Ids(Kinds[dd.turn]), NEW q \in Ids(Kinds[dd.turn]), r # q,
                    NEW k, k \in KeysOf(r), k \in KeysOf(q)
             PROVE  FALSE
  BY DEF Apart
<1>4. CASE Settled(r) /\ Settled(q)
  BY <1>4 DEF Settled
<1>5. CASE Settled(r) /\ ~Settled(q)
  BY <1>2, <1>3, <1>5 DEF Settled
<1>6. CASE ~Settled(r) /\ Settled(q)
  BY <1>2, <1>3, <1>6 DEF Settled
<1>7. CASE ~Settled(r) /\ ~Settled(q)
  <2>1. PICK i \in DOMAIN dd.rows : r = dd.rows[i] /\ k \in Range(ScanKeys(i))
    BY <1>2, <1>7
  <2>2. PICK j \in DOMAIN dd.rows : q = dd.rows[j] /\ k \in Range(ScanKeys(j))
    BY <1>2, <1>7
  <2>3. DOMAIN dd.rows = 1..Len(dd.rows) /\ i # j
    BY <1>1, <2>1, <2>2
  <2>4. i < j => k \in KeysBefore(j)
    BY <2>1, <2>3 DEF KeysBefore
  <2>5. j < i => k \in KeysBefore(i)
    BY <2>2, <2>3 DEF KeysBefore
  <2> QED
    BY <1>1, <1>3, <2>1, <2>2, <2>3, <2>4, <2>5
<1> QED
  BY <1>4, <1>5, <1>6, <1>7

(* A row the list passes is settled; the next one that shares a key is the  *)
(* duplicate.                                                              *)
LEMMA MergeClean ==
    ASSUME CrmType, CleanRun, dd.pc = "scan", Hits # {}, UNCHANGED <<recs, del>>,
           Merge(Min(Hits), Canon(Passed(Min(Hits)), ScanKeys(Min(Hits))))
    PROVE  CleanRun'
<1>1. /\ dd'.pc = "poly" /\ dd'.turn = dd.turn /\ dd'.snap = dd.snap /\ dd'.capped = dd.capped
  BY MergeFields
<1>2. PICK i \in 1..Len(dd.rows) :
        /\ dd'.dup = dd.rows[i]
        /\ dd'.rows \in Seq(Nat) /\ DOMAIN dd'.rows = 1..(Len(dd.rows) - i)
        /\ \A n \in DOMAIN dd'.rows : n + i \in DOMAIN dd.rows /\ dd'.rows[n] = dd.rows[n + i]
        /\ DOMAIN dd.by \subseteq DOMAIN dd'.by
        /\ \A k \in DOMAIN dd.by : dd'.by[k] = dd.by[k]
        /\ \A j \in 1..(i - 1) : \A k \in Range(ScanKeys(j)) :
             k \in DOMAIN dd'.by /\ dd'.by[k] = dd.rows[j]
  BY MergeFields
<1>3. dd.rows \in Seq(Nat) /\ dd.turn \in 1..3 /\ dd.pc \in Scanning /\ dd.pc \notin Merging
  BY RunFields DEF CrmType, Scanning, Merging
<1>4. DOMAIN dd.rows = 1..Len(dd.rows) /\ Len(dd.rows) \in Nat
  BY <1>3
<1>5. ASSUME NEW r \in Ids(Kinds[dd.turn])
      PROVE  /\ r \in DOMAIN dd.snap /\ recs[r] = dd.snap[r]
             /\ r \in Range(dd'.rows) \/ r = dd'.dup \/ Settled(r)'
  <2>1. /\ r \in DOMAIN dd.snap /\ recs[r] = dd.snap[r]
        /\ r \in Range(dd.rows) \/ Settled(r)
    BY <1>3 DEF CleanRun
  <2>2. CASE Settled(r)
    BY <1>2, <2>1, <2>2 DEF Settled, KeysOf
  <2>3. CASE r \in Range(dd.rows)
    <3>1. PICK m \in 1..Len(dd.rows) : r = dd.rows[m]
      BY <1>4, <2>3 DEF Range
    <3>2. CASE m < i
      <4>1. m \in 1..(i - 1) /\ KeysOf(r) = Range(ScanKeys(m))
        BY <2>1, <3>1, <3>2 DEF KeysOf, ScanKeys
      <4>2. \A k \in KeysOf(r) : k \in DOMAIN dd'.by /\ dd'.by[k] = r
        BY <1>2, <3>1, <4>1
      <4> QED
        BY <2>1, <4>2 DEF Settled, KeysOf
    <3>3. CASE m = i
      BY <1>2, <2>1, <3>1, <3>3
    <3>4. CASE m > i
      <4>1. m - i \in DOMAIN dd'.rows /\ (m - i) + i = m
        BY <1>2, <1>4, <3>4
      <4>2. dd'.rows[m - i] = r
        BY <1>2, <3>1, <4>1
      <4> QED
        BY <2>1, <4>1, <4>2 DEF Range
    <3> QED
      BY <3>2, <3>3, <3>4
  <2> QED
    BY <2>1, <2>2, <2>3
<1>6. ~dd'.capped => \A u \in 1..3 : u < dd'.turn \/ dd'.pc = "done" => Apart(Kinds[u])'
  BY <1>1 DEF CleanRun, Apart, Ids, KeysOf
<1>7. \A r \in Ids(Kinds[dd.turn])' :
        /\ r \in DOMAIN dd'.snap /\ recs'[r] = dd'.snap[r]
        /\ r \in Range(dd'.rows) \/ (dd'.pc \in Merging /\ r = dd'.dup) \/ Settled(r)'
  BY <1>1, <1>5 DEF Ids, Merging
<1>8. del'.pc = "idle"
  BY DEF CleanRun
<1> QED
  BY <1>6, <1>7, <1>8 DEF CleanRun

LEMMA CleanScan ==
    ASSUME CrmType, dd.clean => CleanRun,
           OpsDedupe \/ ApprovedDedupe \/ DedupeLoad \/ DedupeScan, dd'.clean
    PROVE  CleanRun'
<1>1. CASE OpsDedupe \/ ApprovedDedupe
  <2>1. PICK cap : DedupeStart(cap)
    BY <1>1 DEF OpsDedupe, ApprovedDedupe
  <2>2. PICK b \in BOOLEAN : b = (up.pc = "idle" /\ del.pc = "idle")
    OBVIOUS
  <2>3. dd' = [pc |-> "load", turn |-> 1, budget |-> cap, rows |-> <<>>, snap |-> <<>>,
               by |-> <<>>, dup |-> 0, canon |-> 0, capped |-> FALSE, clean |-> b]
    BY <2>1, <2>2 DEF DedupeStart
  <2>4. dd'.pc = "load" /\ dd'.turn = 1 /\ dd'.clean = b /\ del' = del
    <3>1. del' = del
      BY <2>1 DEF DedupeStart
    <3> QED
      BY <2>3, <3>1
  <2>5. del.pc = "idle"
    BY <2>2, <2>4
  <2> QED
    BY <2>4, <2>5 DEF CleanRun, Scanning, Merging
<1>2. CASE DedupeLoad
  <2>1. PICK order \in Orders(Kinds[dd.turn]) :
          dd' = [dd EXCEPT !.pc = "scan", !.rows = order, !.snap = recs, !.by = <<>>]
    BY <1>2 DEF DedupeLoad
  <2>2. dd.pc = "load" /\ UNCHANGED <<recs, del>>
    BY <1>2 DEF DedupeLoad
  <2>3. PICK a, b, c, d, e, f, g, h, i, j :
          dd = [pc |-> a, turn |-> b, budget |-> c, rows |-> d, snap |-> e,
                by |-> f, dup |-> g, canon |-> h, capped |-> i, clean |-> j]
    BY <2>2, RunFields DEF CrmType
  <2>4. /\ dd'.pc = "scan" /\ dd'.turn = dd.turn /\ dd'.rows = order /\ dd'.snap = recs
        /\ dd'.capped = dd.capped /\ dd'.clean = dd.clean
    BY <2>1, <2>3
  <2>5. CleanRun
    BY <2>4
  <2>6. Range(order) = Ids(Kinds[dd.turn])
    BY <2>1 DEF Orders, Bijection, Surjection, Range
  <2>7. ~dd'.capped => \A u \in 1..3 : u < dd'.turn \/ dd'.pc = "done" => Apart(Kinds[u])'
    BY <2>2, <2>4, <2>5 DEF CleanRun, Apart, Ids, KeysOf
  <2>8. \A r \in Ids(Kinds[dd.turn])' :
          r \in DOMAIN dd'.snap /\ recs'[r] = dd'.snap[r] /\ r \in Range(dd'.rows)
    BY <2>2, <2>4, <2>6 DEF Ids
  <2> QED
    BY <2>2, <2>5, <2>7, <2>8 DEF CleanRun
<1>3. CASE DedupeScan /\ NextKind
  <2>1. UNCHANGED <<recs, del>> /\ dd.pc = "scan"
    BY <1>3 DEF DedupeScan
  <2>0. PICK capped \in BOOLEAN : capped = (dd.capped \/ dd.budget = 0)
    OBVIOUS
  <2>2. PICK pc, turn :
          /\ pc = (IF dd.turn = Len(Kinds) THEN "done" ELSE "load")
          /\ turn = (IF dd.turn = Len(Kinds) THEN dd.turn ELSE dd.turn + 1)
    OBVIOUS
  <2>3. dd' = [dd EXCEPT !.pc = pc, !.turn = turn, !.capped = capped, !.rows = <<>>, !.snap = <<>>, !.by = <<>>]
    BY <1>3, <2>0, <2>2 DEF NextKind
  <2>4. PICK a, b, c, d, e, f, g, h, i, j :
          dd = [pc |-> a, turn |-> b, budget |-> c, rows |-> d, snap |-> e,
                by |-> f, dup |-> g, canon |-> h, capped |-> i, clean |-> j]
    BY <2>1, RunFields DEF CrmType
  <2>5. dd'.pc = pc /\ dd'.turn = turn /\ dd'.capped = capped /\ dd'.clean = dd.clean
    BY <2>3, <2>4
  <2>6. CleanRun /\ dd.turn \in 1..3
    BY <2>1, <2>5, RunFields DEF CrmType
  <2>7. Len(Kinds) = 3
    BY DEF Kinds
  <2>8. ASSUME ~capped, NEW u \in 1..3, u < turn \/ pc = "done" PROVE Apart(Kinds[u])
    <3>1. u <= dd.turn /\ ~dd.capped /\ dd.budget # 0
      <4>1. ~dd.capped /\ dd.budget # 0
        BY <2>0, <2>8
      <4> QED
        BY <2>2, <2>6, <2>7, <2>8, <4>1
    <3>2. CASE Hits = {}
      <4>1. Apart(Kinds[dd.turn])
        BY <2>1, <2>6, <3>2, ListApart
      <4>2. u < dd.turn => Apart(Kinds[u])
        BY <2>6, <3>1 DEF CleanRun
      <4>3. u = dd.turn \/ u < dd.turn
        BY <2>6, <3>1
      <4> QED
        BY <4>1, <4>2, <4>3
    <3>3. CASE Hits # {}
      <4>1. Merge(Min(Hits), Canon(Passed(Min(Hits)), ScanKeys(Min(Hits))))
        BY <1>3, <3>1, <3>3 DEF DedupeScan
      <4>2. dd'.pc = "poly"
        BY <2>1, <3>3, <4>1, MergeFields
      <4> QED
        BY <2>2, <2>5, <4>2
    <3> QED
      BY <3>2, <3>3
  <2>9. ~dd'.capped => \A u \in 1..3 : u < dd'.turn \/ dd'.pc = "done" => Apart(Kinds[u])'
    BY <2>1, <2>5, <2>8 DEF Apart, Ids, KeysOf
  <2>10. dd'.pc \notin Scanning
    BY <2>2, <2>5 DEF Scanning, Merging
  <2> QED
    BY <2>1, <2>6, <2>9, <2>10 DEF CleanRun
<1>4. CASE DedupeScan /\ ~NextKind
  <2>1. /\ dd.pc = "scan" /\ Hits # {} /\ Merge(Min(Hits), Canon(Passed(Min(Hits)), ScanKeys(Min(Hits))))
        /\ UNCHANGED <<recs, del>>
    BY <1>4 DEF DedupeScan
  <2>2. dd'.clean = dd.clean
    BY <2>1, MergeFields
  <2> QED
    BY <2>1, <2>2, MergeClean
<1> QED
  BY <1>1, <1>2, <1>3, <1>4

LEMMA CleanMerge ==
    ASSUME CrmType, dd.clean => CleanRun, dd'.clean,
           repointPoly \/ repointFieldValues \/ repointTags \/ repointRefs \/ dropDuplicate \/ DedupeCut
    PROVE  CleanRun'
<1>1. dd' # NoRun
  BY DEF NoRun
<1>2. CASE repointPoly \/ repointFieldValues \/ repointTags
  <2>1. PICK pc \in Merging : dd' = [dd EXCEPT !.pc = pc]
    BY <1>2 DEF repointPoly, repointFieldValues, repointTags, Merging
  <2>2. UNCHANGED <<recs, made, del>> /\ dd.pc \in Merging
    BY <1>2 DEF repointPoly, repointFieldValues, repointTags, Merging
  <2>3. dd'.clean = dd.clean
    BY <2>1, <2>2, PcStep DEF Scanning
  <2> QED
    BY <2>1, <2>2, <2>3, CleanKept DEF Scanning
<1>3. CASE repointRefs
  <2>1. /\ recs' = [r \in DOMAIN recs |->
                      IF recs[r].parent = dd.dup THEN [recs[r] EXCEPT !.parent = dd.canon] ELSE recs[r]]
        /\ dd' = [dd EXCEPT !.pc = "drop"] /\ (Held(dd.dup) => recordExists(dd.canon))
        /\ dd.pc \in Merging /\ UNCHANGED <<made, del>>
    BY <1>1, <1>3 DEF repointRefs, Merging
  <2>2. \A r \in DOMAIN recs : recs[r].parent = dd.dup =>
          recs[r].kind # "account" /\ Kinds[dd.turn] = "account"
    BY <2>1, ChildrenMove
  <2>3. DOMAIN recs' = DOMAIN recs /\ \A r \in DOMAIN recs : recs[r].parent # dd.dup => recs'[r] = recs[r]
    BY <2>1
  <2>4. \A r \in DOMAIN recs : recs'[r].kind = recs[r].kind
    <3> SUFFICES ASSUME NEW r \in DOMAIN recs, recs[r].parent = dd.dup PROVE recs'[r].kind = recs[r].kind
      BY <2>3
    <3>1. PICK a, b, c, d : recs[r] = [kind |-> a, name |-> b, key |-> c, parent |-> d]
      BY DEF CrmType, CrmRow
    <3>2. recs'[r] = [recs[r] EXCEPT !.parent = dd.canon]
      BY <2>1
    <3> QED
      BY <3>1, <3>2
  <2>5. dd.turn \in 1..3
    BY <2>1, RunFields DEF CrmType, Merging
  <2>6. Kinds[dd.turn] = "account" => dd.turn = 1
    BY <2>5 DEF Kinds
  <2>7. Kinds[1] = "account"
    BY DEF Kinds
  <2>8. ASSUME NEW u \in 1..3, u <= dd.turn, NEW r \in DOMAIN recs, recs[r].kind = Kinds[u]
        PROVE  recs'[r] = recs[r]
    <3> SUFFICES ASSUME recs[r].parent = dd.dup PROVE FALSE
      BY <2>3
    <3>1. u = 1 /\ recs[r].kind # "account"
      BY <2>2, <2>5, <2>6, <2>8
    <3> QED
      BY <2>7, <2>8, <3>1
  <2>9. dd'.clean = dd.clean
    BY <2>1, <2>3, <2>4, PcStep DEF Scanning, Merging
  <2>10. "drop" \in Merging /\ "drop" \in Scanning
    BY DEF Merging, Scanning
  <2> QED
    BY <2>1, <2>3, <2>4, <2>8, <2>9, <2>10, CleanKept
<1>4. CASE dropDuplicate
  <2>1. /\ dd' = [dd EXCEPT !.pc = "scan"] /\ dd.pc \in Merging
        /\ recs' = [r \in DOMAIN recs \ {dd.dup} |-> recs[r]] /\ UNCHANGED <<made, del>>
    BY <1>1, <1>4 DEF dropDuplicate, Merging
  <2>2. /\ dd.dup \notin DOMAIN recs'
        /\ \A r \in DOMAIN recs' : r \in DOMAIN recs /\ recs'[r] = recs[r]
    BY <2>1
  <2>3. dd'.clean = dd.clean
    BY <2>1, <2>2, PcStep DEF Scanning
  <2> QED
    BY <2>1, <2>2, <2>3, CleanKept DEF Scanning
<1>5. CASE DedupeCut
  BY <1>1, <1>5 DEF DedupeCut
<1> QED
  BY <1>2, <1>3, <1>4, <1>5

LEMMA DoublesStep == CrmType /\ DoublesInv /\ [CrmNext]_crmVars => DoublesInv'
<1> SUFFICES ASSUME CrmType, DoublesInv, [CrmNext]_crmVars PROVE DoublesInv'
  OBVIOUS
<1>0. UpsertsNeverDouble /\ (dd.clean => CleanRun)
  BY DEF DoublesInv
<1>1. CASE UNCHANGED crmVars
  <2>1. UNCHANGED <<recs, up, dd, del>>
    BY <1>1 DEF crmVars
  <2> QED
    BY <1>0, <2>1 DEF DoublesInv, UpsertsNeverDouble, CleanRun, Apart, Settled, KeysOf, Ids
<1>2. CASE CrmNext
  <2>1. UpsertsNeverDouble'
    BY <1>0, <1>2, UpsertsStep
  <2>2. SUFFICES ASSUME dd'.clean PROVE CleanRun'
    BY <2>1 DEF DoublesInv
  <2>3. ASSUME UNCHANGED <<recs, dd, del>> PROVE CleanRun'
    BY <1>0, <2>2, <2>3 DEF CleanRun, Apart, Settled, KeysOf, Ids
  <2>4. ~Touched
    BY <2>2, TouchedSame
  <2>5. ASSUME \/ \E row \in Proposable : createAccount(row) \/ createDeal(row) \/ createContact(row)
               \/ \E row \in Proposable : UpsertFind(row)
               \/ UpsertCreate
               \/ \E r \in DOMAIN recs : \E n \in Names[recs[r].kind] : updateRecord(r, n)
        PROVE  UNCHANGED <<recs, dd, del>>
    BY <2>4, <2>5 DEF createAccount, createDeal, createContact, Insert, UpsertFind, UpsertCreate, updateRecord
  <2>6. ASSUME \/ \E r \in 1..made :
                    \/ PostNote(r) \/ ApprovedWrite("note", 0, r)
                    \/ \E f \in FieldIds : PutField(f, r) \/ ApprovedWrite("value", f, r)
                    \/ \E t \in Tags : PostTag(t, r)
               \/ WriteRow
               \/ \E t \in Tags, r \in DOMAIN recs : untagRecord(t, r)
               \/ \E r \in DOMAIN recs : \E t \in RefTables(recs[r].kind) : LinkRow(t, r)
        PROVE  UNCHANGED <<recs, dd, del>>
    BY <2>6 DEF PostNote, PutField, PostTag, CheckWrite, ApprovedWrite, WriteRow, untagRecord, LinkRow
  <2>7. ASSUME NEW r, DeleteAsked(r) \/ DeleteApproved(r) PROVE FALSE
    BY <2>4, <2>7 DEF DeleteAsked, DeleteApproved
  <2>8. ASSUME DeleteUnlink \/ deleteCrmSubData \/ DeleteRecord PROVE FALSE
    <3>1. dd' = dd /\ del.pc # "idle"
      BY <2>8 DEF DeleteUnlink, deleteCrmSubData, DeleteRecord
    <3> QED
      BY <1>0, <2>2, <3>1 DEF CleanRun
  <2> QED
    BY <1>0, <1>2, <2>2, <2>3, <2>5, <2>6, <2>7, <2>8, CleanScan, CleanMerge DEF CrmNext
<1> QED
  BY <1>1, <1>2

(* crm.ts, crm-dedupe.ts 159-217, crm-notes, crm-activity, crm-fields and   *)
(* crm-tags: whatever overlaps, a row below a record or one that names it  *)
(* names a record that is there, unless it was written late.               *)
THEOREM NoDanglingHolds == CrmSpec => []NoDangling
<1>1. DanglingInv => NoDangling
  BY DEF DanglingInv
<1> QED
  BY <1>1, CrmStart, CrmTypeStep, DanglingStep, PTL DEF CrmSpec

(* crm-dedupe.ts 159-217 and the upserts of crm.ts: a dedupe run that had   *)
(* the CRM for itself and was not capped leaves no doubles, and no upsert  *)
(* makes one of an account or a contact.                                   *)
THEOREM NoDoublesHolds == CrmSpec => []NoDoubles
<1>1. DoublesInv => NoDoubles
  <2> SUFFICES ASSUME DoublesInv PROVE NoDoubles
    OBVIOUS
  <2>1. ASSUME dd.pc = "done", dd.clean, ~dd.capped PROVE \A u \in 1..3 : Apart(Kinds[u])
    BY <2>1 DEF DoublesInv, CleanRun
  <2>2. Range(Kinds) = {Kinds[u] : u \in 1..3}
    BY DEF Range, Kinds
  <2>3. DedupeComplete
    BY <2>1, <2>2 DEF DedupeComplete, Apart, KeysOf
  <2> QED
    BY <2>3 DEF NoDoubles, DoublesInv
<1> QED
  BY <1>1, CrmStart, CrmTypeStep, DoublesStep, PTL DEF CrmSpec

-----------------------------------------------------------------------------
(* Imports: sensitive columns.                                             *)

Hides(columns) == \A c \in Range(columns) : c.sensitive => c.samples = {}

LEMMA ColumnHides ==
    ASSUME NEW n, NEW cells, ParsedColumn(n, cells).sensitive
    PROVE  ParsedColumn(n, cells).samples = {}
  BY DEF ParsedColumn

LEMMA ParsedHides == ASSUME NEW m PROVE Hides(parseWorkbook(m).columns)
<1> DEFINE h == detectHeaderRow(m)
           names == dedupeHeaders(m[h])
           rows == bodyRows(m, h, names)
           cells(c) == [k \in DOMAIN rows |-> rows[k][names[c]]]
<1>1. parseWorkbook(m).columns = [c \in DOMAIN names |-> ParsedColumn(names[c], cells(c))]
  BY DEF parseWorkbook
<1> HIDE DEF h, names, rows, cells
<1> QED
  BY <1>1, ColumnHides DEF Hides, Range

(* A stored row keeps the cells of a sensitive column among those it shows *)
(* masked.                                                                 *)
LEMMA SplitHides ==
    ASSUME NEW s, NEW row, NEW c \in Range(s.columns), c.sensitive,
           NEW v \in readRow(splitCells(s, row)), v[1] = c.name
    PROVE  v[2] = Masked
<1> DEFINE hidden == {k.name : k \in {d \in Range(s.columns) : d.sensitive}}
           shown == {<<n, row[n]>> : n \in {m \in DOMAIN row \ hidden : row[m] # Empty}}
           kept == {<<n, row[n]>> : n \in {m \in DOMAIN row \cap hidden : row[m] # Empty}}
<1>1. splitCells(s, row).cells = shown /\ splitCells(s, row).enc = kept
  BY DEF splitCells
<1>2. c.name \in hidden
  OBVIOUS
<1>3. v \notin shown
  BY <1>2
<1> HIDE DEF hidden, shown, kept
<1>4. v \in shown \cup {<<d[1], Masked>> : d \in kept}
  BY <1>1 DEF readRow
<1> QED
  BY <1>3, <1>4

(* The two ways a sheet comes to be. *)
SheetHides(sh) ==
    /\ Hides(sh.columns)
    /\ \A st \in Range(sh.store) : \E row : st = splitCells(sh, row)

LEMMA HidesEnough == ASSUME sheet # NoSheet => SheetHides(sheet) PROVE SensitiveHidden
<1> SUFFICES ASSUME sheet # NoSheet, NEW c \in Range(sheet.columns), c.sensitive
             PROVE  /\ c.samples = {}
                    /\ groups(sheet, Range(sheet.store), c.name) = {}
                    /\ \A st \in Range(sheet.store) : \A v \in readRow(st) : v[1] = c.name => v[2] = Masked
  BY DEF SensitiveHidden
<1>1. c.samples = {}
  BY DEF SheetHides, Hides
<1>2. groups(sheet, Range(sheet.store), c.name) = {}
  BY DEF groups
<1>3. ASSUME NEW st \in Range(sheet.store), NEW v \in readRow(st), v[1] = c.name PROVE v[2] = Masked
  <2>1. PICK row : st = splitCells(sheet, row)
    BY DEF SheetHides
  <2> QED
    BY <1>3, <2>1, SplitHides
<1> QED
  BY <1>1, <1>2, <1>3

HiddenInv == sheet # NoSheet => SheetHides(sheet)

LEMMA HiddenStep ==
    ASSUME HiddenInv, [ImpNext]_impVars
    PROVE  HiddenInv'
<1>1. ASSUME NEW m \in Sheets, ingestTable(m) PROVE HiddenInv'
  <2> DEFINE p == parseWorkbook(m)
  <2>1. /\ sheet' = [source |-> "table", columns |-> p.columns, rows |-> p.rows,
                     confidence |-> [i \in DOMAIN p.rows |-> 10],
                     store |-> [i \in DOMAIN p.rows |-> splitCells(p, p.rows[i])]]
    BY <1>1 DEF ingestTable
  <2>2. Hides(p.columns)
    BY ParsedHides
  <2>3. \A row : splitCells(sheet', row) = splitCells(p, row)
    BY <2>1 DEF splitCells
  <2> HIDE DEF p
  <2>4. \A st \in Range(sheet'.store) : \E row : st = splitCells(sheet', row)
    BY <2>1, <2>3 DEF Range
  <2> QED
    BY <2>1, <2>2, <2>4 DEF HiddenInv, SheetHides
<1>2. ASSUME NEW t \in Texts, NEW src \in {"json", "model"}, NEW ok \in BOOLEAN, stageExtracted(src, t, ok)
      PROVE  HiddenInv'
  <2> DEFINE extracted == extractEntities(src, t, ok)
             cols == [i \in DOMAIN StdColumns |->
                        [name |-> StdColumns[i], samples |-> {},
                         sensitive |-> StdColumns[i] \in {"contact.email", "contact.phone"}]]
  <2>1. sheet' = [source |-> src, columns |-> cols,
                  rows |-> [i \in DOMAIN extracted |-> extracted[i].cells],
                  confidence |-> [i \in DOMAIN extracted |-> extracted[i].confidence],
                  store |-> [i \in DOMAIN extracted |-> splitCells([columns |-> cols], extracted[i].cells)]]
    BY <1>2 DEF stageExtracted
  <2>2. Hides(cols)
    BY DEF Hides, Range
  <2> HIDE DEF extracted, cols
  <2>3. \A row : splitCells(sheet', row) = splitCells([columns |-> cols], row)
    BY <2>1 DEF splitCells
  <2>4. \A st \in Range(sheet'.store) : \E row : st = splitCells(sheet', row)
    BY <2>1, <2>3 DEF Range
  <2> QED
    BY <2>1, <2>2, <2>4 DEF HiddenInv, SheetHides
<1>3. CASE sheet' = sheet
  BY <1>3 DEF HiddenInv
<1>4. \/ \E m \in Sheets : ingestTable(m)
      \/ \E t \in Texts, src \in {"json", "model"}, ok \in BOOLEAN : stageExtracted(src, t, ok)
      \/ sheet' = sheet
  BY DEF ImpNext, impVars, Store, InsertChunk, BatchReady, saveMapping, startImport, ingestText, WorkerStep,
         SliceRowFails, CutOff, ImportTick, tickToDone, TickJob, BeginFlush, ReadJob, SetRunning, LoadSlice,
         SliceRow, FinishSlice, EnqueueReview, LoadHeld, FinishFlush
<1> QED
  BY <1>1, <1>2, <1>3, <1>4

(* No value of a sensitive column is sampled, queryable, grouped by or     *)
(* read in the clear (import-parse.ts, import-store.ts, tables-repo.ts):   *)
(* what classifies a column, what stores its cells and what reads them     *)
(* agree, for every sheet and text.                                        *)
THEOREM SensitiveHiddenHolds == ImpSpec => []SensitiveHidden
<1>1. ImpInit => HiddenInv
  BY DEF ImpInit, HiddenInv
<1>2. HiddenInv => SensitiveHidden
  BY HidesEnough DEF HiddenInv
<1> QED
  BY <1>1, <1>2, HiddenStep, PTL DEF ImpSpec

-----------------------------------------------------------------------------
(* Imports: the inductive invariants.                                      *)

Steps == {"idle", "read", "running", "load", "rows", "review", "loadheld", "flush"}
Slices == [job : Nat, snap : JobRow \cup {<<>>}, rows : Seq(Nat), loaded : Nat, known : SUBSET Nat,
           ingest : BOOLEAN, created : Nat, updated : Nat, held : Nat, failed : Nat]

Recorded(c) ==
    /\ Len(c) \in Nat /\ c = [i \in 1..Len(c) |-> c[i]]
    /\ \A i \in 1..Len(c) :
         /\ c[i] = [kind |-> c[i].kind, name |-> c[i].name, key |-> c[i].key,
                    parent |-> c[i].parent, row |-> c[i].row]
         /\ c[i].kind = "account" => c[i].parent = 0

KeysMapped(spec) ==
    /\ spec.account # "domain" => columnsFor(spec, "account.domain") = {}
    /\ spec.contact # "email" => columnsFor(spec, "contact.email") = {}

SheetType ==
    IF sheet = NoSheet THEN staged = 0 /\ batch = "none"
    ELSE /\ Len(sheet.rows) \in Nat /\ staged <= Len(sheet.rows)
         /\ sheet.source = "table" => \A r \in 1..Len(sheet.rows) : sheet.confidence[r] = 10

StoreType ==
    /\ staged \in Nat /\ mark \in [1..staged -> ImportRowStatus] /\ batch \in BatchStatus
    /\ SheetType

MappingType ==
    IF mapping = NoMapping THEN jobs = <<>>
    ELSE /\ mapping = [spec |-> mapping.spec, approved |-> mapping.approved]
         /\ KeysMapped(mapping.spec) /\ sheet # NoSheet

JobsType ==
    /\ jobs \in Seq(JobRow) /\ Recorded(crm) /\ MappingType
    /\ review \in {"none", "pending", "executing"} /\ sliceRaced \in BOOLEAN
    /\ spent \in [failures : Nat, cutoffs : Nat]

WorkerType(w) ==
    /\ wpc[w] \in Steps /\ work[w] \in Slices
    /\ wpc[w] \notin {"idle", "review"} => work[w].job \in DOMAIN jobs
    /\ wpc[w] \notin {"idle", "read", "review"} => work[w].snap \in JobRow
    /\ \A i \in DOMAIN work[w].rows : work[w].rows[i] \in DOMAIN mark
    /\ work[w].known \subseteq DOMAIN crm

WorkersType ==
    /\ wpc = [w \in Workers |-> wpc[w]] /\ work = [w \in Workers |-> work[w]]
    /\ \A w \in Workers : WorkerType(w)

ImpType == StoreType /\ JobsType /\ WorkersType

OneImporter == \A v, w \in Workers : Importing(v) /\ Importing(w) => v = w

(* Without an overlap a worker's maps are what the tables hold. *)
MapsInv ==
    /\ NoDuplicates
    /\ ~sliceRaced => /\ OneImporter
                      /\ \A w \in Workers : wpc[w] \in {"rows", "flush"} => work[w].known = DOMAIN crm

Seen(n) == n <= staged /\ \A r \in 1..n : mark[r] # "new"

(* How far a worker's slice has come. *)
Reached(k) == k.snap.cursor + k.loaded - Len(k.rows)

JobSeen(i) ==
    /\ Seen(jobs[i].cursor)
    /\ jobs[i].ready => batch = "ready" /\ jobs[i].total = staged
    /\ jobs[i].ready /\ jobs[i].status = "done" => jobs[i].cursor >= staged

SliceSeen(k) ==
    /\ Len(k.rows) <= k.loaded /\ k.snap.cursor + k.loaded <= staged /\ Seen(Reached(k))
    /\ \A i \in DOMAIN k.rows : k.rows[i] = Reached(k) + i
    /\ k.loaded = 0 /\ k.snap.ready => k.snap.cursor >= staged

SnapSeen(k) ==
    k.snap.ready = jobs[k.job].ready /\ k.snap.total = jobs[k.job].total /\ Seen(k.snap.cursor)

WorkerSeen(w) ==
    wpc[w] \in {"running", "load", "rows"} =>
        SnapSeen(work[w]) /\ (wpc[w] = "rows" => SliceSeen(work[w]))

SeenInv == (\A i \in DOMAIN jobs : JobSeen(i)) /\ (\A w \in Workers : WorkerSeen(w))

Dealt(k) == k.created + k.updated + k.held + k.failed

SameCounts(s, j) ==
    /\ s.cursor = j.cursor /\ s.created = j.created /\ s.updated = j.updated
    /\ s.held = j.held /\ s.failed = j.failed

(* What the only importer has counted, and the held rows it knows of.      *)
WorkerCounts(w) ==
    LET k == work[w]
    IN  /\ SameCounts(k.snap, jobs[k.job])
        /\ wpc[w] \in {"running", "load"} => Dealt(k) = 0
        /\ wpc[w] = "rows" => Dealt(k) = k.loaded - Len(k.rows)
        /\ wpc[w] = "loadheld" => Dealt(k) = 0
        /\ IF wpc[w] \in {"loadheld", "flush"}
           THEN /\ Cardinality(HeldRows) + k.created + k.updated <= k.snap.held
                /\ \A i \in DOMAIN k.rows : mark[k.rows[i]] = "held"
                /\ \A i, l \in DOMAIN k.rows : k.rows[i] = k.rows[l] => i = l
           ELSE Cardinality(HeldRows) <= k.snap.held + k.held

HeldInv ==
    /\ jobs = <<>> => HeldRows = {}
    /\ sheet # NoSheet /\ sheet.source = "table" =>
         /\ HeldRows = {}
         /\ \A i \in DOMAIN jobs : jobs[i].minConfidence = 0
         /\ \A w \in Workers : Importing(w) => work[w].snap.minConfidence = 0
    /\ sheet # NoSheet /\ sheet.source # "table" => Len(jobs) <= 1
    /\ \A w \in Workers : wpc[w] = "read" => Dealt(work[w]) = 0

Counted ==
    /\ \A i \in DOMAIN jobs : Dealt(jobs[i]) = jobs[i].cursor
    /\ \A w \in Workers : Importing(w) => WorkerCounts(w)
    /\ (\A w \in Workers : ~Importing(w)) => \A i \in DOMAIN jobs : Cardinality(HeldRows) <= jobs[i].held

CountInv == HeldInv /\ (~sliceRaced /\ spent.cutoffs = 0 => Counted)

-----------------------------------------------------------------------------
(* Imports: sequences as functions.                                        *)

LEMMA SeqOf ==
    ASSUME NEW c, NEW n \in Nat, c = [i \in 1..n |-> c[i]]
    PROVE  /\ c \in Seq(Range(c)) /\ Len(c) = n /\ DOMAIN c = 1..n
<1>1. c \in [1..n -> Range(c)]
  BY DEF Range
<1>2. c \in Seq(Range(c))
  BY <1>1
<1> QED
  BY <1>1, <1>2, LenProperties

LEMMA AppendOf ==
    ASSUME NEW c, NEW n \in Nat, c = [i \in 1..n |-> c[i]], NEW e
    PROVE  /\ Append(c, e) = [i \in 1..(n + 1) |-> IF i = n + 1 THEN e ELSE c[i]]
           /\ Len(Append(c, e)) = n + 1
<1> DEFINE S == Range(c) \cup {e}
<1>1. c \in Seq(S) /\ Len(c) = n
  <2>1. c \in [1..n -> S]
    BY DEF Range
  <2> HIDE DEF S
  <2>2. c \in Seq(S)
    BY <2>1
  <2> QED
    BY <2>2, SeqOf
<1> HIDE DEF S
<1>2. e \in S
  BY DEF S
<1>3. /\ Append(c, e) \in Seq(S) /\ Len(Append(c, e)) = n + 1
      /\ \A i \in 1..n : Append(c, e)[i] = c[i]
      /\ Append(c, e)[n + 1] = e
  BY <1>1, <1>2, AppendProperties
<1>4. DOMAIN Append(c, e) = 1..(n + 1)
  BY <1>3, LenProperties
<1>5. Append(c, e) = [i \in 1..(n + 1) |-> Append(c, e)[i]]
  BY <1>3, <1>4
<1>6. \A i \in 1..(n + 1) : Append(c, e)[i] = IF i = n + 1 THEN e ELSE c[i]
  BY <1>3
<1> QED
  BY <1>3, <1>5, <1>6

LEMMA InOrderLen ==
    ASSUME NEW S, IsFiniteSet(S)
    PROVE  /\ Cardinality(S) \in Nat /\ Len(InOrder(S)) = Cardinality(S)
           /\ DOMAIN InOrder(S) = 1..Cardinality(S)
<1>1. PICK n \in Nat : n = Cardinality(S)
  BY FS_CardinalityType
<1>2. InOrder(S) = [k \in 1..n |-> InOrder(S)[k]]
  BY <1>1 DEF InOrder
<1> QED
  BY <1>1, <1>2, SeqOf

-----------------------------------------------------------------------------
(* Imports: the writes of a row.                                           *)

(* A step of resolveRow over a worker's maps.                              *)
Sound(s) ==
    /\ s = [crm |-> s.crm, known |-> s.known, outcome |-> s.outcome]
    /\ Recorded(s.crm) /\ s.known \subseteq DOMAIN s.crm

KeysApart(c) ==
    \A i, k \in DOMAIN c :
        i # k /\ c[i].kind = c[k].kind /\ c[i].kind \in {"contact", "account"}
            => c[i].key = Empty \/ c[i].key # c[k].key

Record(kind, name, key, parent, r) ==
    [kind |-> kind, name |-> name, key |-> key, parent |-> parent, row |-> r]

(* What a step does to the records and the maps.                           *)
Extends(s, t) ==
    /\ Sound(t) /\ DOMAIN s.crm \subseteq DOMAIN t.crm
    /\ s.known = DOMAIN s.crm => t.known = DOMAIN t.crm
    /\ s.known = DOMAIN s.crm /\ KeysApart(s.crm) => KeysApart(t.crm)

LEMMA ExtendsSelf == ASSUME NEW s, Sound(s) PROVE Extends(s, s)
  BY DEF Extends

LEMMA ExtendsTwice ==
    ASSUME NEW s, NEW t, NEW u, Extends(s, t), Extends(t, u)
    PROVE  Extends(s, u)
  BY DEF Extends

LEMMA CreateExtends ==
    ASSUME NEW s, Sound(s), NEW kind, NEW name, NEW key, NEW parent, NEW r,
           kind = "account" => parent = 0,
           kind \in {"contact", "account"} /\ key # Empty
              => \A i \in s.known : s.crm[i].kind = kind => s.crm[i].key # key
    PROVE  Extends(s, Create(s, Record(kind, name, key, parent, r)))
<1> DEFINE rec == Record(kind, name, key, parent, r)
           t == Create(s, rec)
<1>1. PICK n \in Nat : n = Len(s.crm)
  BY DEF Sound, Recorded
<1>2. s.crm = [i \in 1..n |-> s.crm[i]] /\ DOMAIN s.crm = 1..n
  BY <1>1 DEF Sound, Recorded
<1>3. t = [crm |-> Append(s.crm, rec), known |-> s.known \cup {n + 1}, outcome |-> s.outcome]
  <2>1. PICK c, known, outcome : s = [crm |-> c, known |-> known, outcome |-> outcome]
    BY DEF Sound
  <2>2. s.crm = c /\ s.known = known /\ s.outcome = outcome
    BY <2>1
  <2>3. PICK a : a = Append(c, rec)
    OBVIOUS
  <2>4. PICK k : k = known \cup {n + 1}
    OBVIOUS
  <2>5. t = [s EXCEPT !.crm = a, !.known = k]
    BY <1>1, <2>2, <2>3, <2>4 DEF Create
  <2> HIDE DEF rec, t
  <2>6. \A x : x = [s EXCEPT !.crm = a] =>
              x = [crm |-> a, known |-> known, outcome |-> outcome]
    BY <2>1
  <2>7. PICK x : x = [crm |-> a, known |-> known, outcome |-> outcome]
    OBVIOUS
  <2>8. [x EXCEPT !.known = k] = [crm |-> a, known |-> k, outcome |-> outcome]
    BY <2>7
  <2>9. [s EXCEPT !.crm = a, !.known = k] = [x EXCEPT !.known = k]
    BY <2>6, <2>7
  <2> QED
    BY <2>2, <2>3, <2>4, <2>5, <2>8, <2>9
<1> HIDE DEF rec, t
<1>4. /\ t.crm = [i \in 1..(n + 1) |-> IF i = n + 1 THEN rec ELSE s.crm[i]]
      /\ Len(t.crm) = n + 1
  BY <1>2, <1>3, AppendOf
<1>5. DOMAIN t.crm = 1..(n + 1)
  BY <1>4
<1>6. /\ t.crm[n + 1] = rec
      /\ \A i \in 1..n : t.crm[i] = s.crm[i]
  BY <1>4
<1>7. rec = [kind |-> rec.kind, name |-> rec.name, key |-> rec.key, parent |-> rec.parent, row |-> rec.row]
      /\ rec.kind = kind /\ rec.key = key /\ rec.parent = parent
  BY DEF rec, Record
<1>8. Recorded(t.crm)
  <2>1. ASSUME NEW i \in 1..(n + 1)
        PROVE  /\ t.crm[i] = [kind |-> t.crm[i].kind, name |-> t.crm[i].name, key |-> t.crm[i].key,
                              parent |-> t.crm[i].parent, row |-> t.crm[i].row]
               /\ t.crm[i].kind = "account" => t.crm[i].parent = 0
    <3>1. CASE i = n + 1
      BY <1>6, <1>7, <3>1
    <3>2. CASE i \in 1..n
      BY <1>1, <1>6, <3>2 DEF Sound, Recorded
    <3> QED
      BY <3>1, <3>2
  <2>2. t.crm = [i \in 1..(n + 1) |-> t.crm[i]]
    BY <1>4
  <2> QED
    BY <1>4, <2>1, <2>2 DEF Recorded
<1>9. Sound(t)
  <2>1. s.known \subseteq 1..n
    BY <1>2 DEF Sound
  <2>2. t.known \subseteq 1..(n + 1)
    BY <1>3, <2>1
  <2> QED
    BY <1>3, <1>5, <1>8, <2>2 DEF Sound
<1>10. DOMAIN s.crm \subseteq DOMAIN t.crm
  BY <1>2, <1>5
<1>11. s.known = DOMAIN s.crm => t.known = DOMAIN t.crm
  BY <1>2, <1>3, <1>5
<1>12. ASSUME s.known = DOMAIN s.crm, KeysApart(s.crm) PROVE KeysApart(t.crm)
  <2> SUFFICES ASSUME NEW i \in 1..(n + 1), NEW k \in 1..(n + 1), i # k,
                      t.crm[i].kind = t.crm[k].kind, t.crm[i].kind \in {"contact", "account"}
               PROVE  t.crm[i].key = Empty \/ t.crm[i].key # t.crm[k].key
    BY <1>5 DEF KeysApart
  <2>1. CASE i = n + 1
    <3>1. k \in 1..n /\ k \in s.known
      BY <1>2, <1>12, <2>1
    <3> QED
      BY <1>6, <1>7, <2>1, <3>1
  <2>2. CASE k = n + 1
    <3>1. i \in 1..n /\ i \in s.known
      BY <1>2, <1>12, <2>2
    <3> QED
      BY <1>6, <1>7, <2>2, <3>1
  <2>3. CASE i \in 1..n /\ k \in 1..n
    BY <1>2, <1>6, <1>12, <2>3 DEF KeysApart
  <2> QED
    BY <2>1, <2>2, <2>3
<1> QED
  BY <1>9, <1>10, <1>11, <1>12 DEF Extends, t, rec

LEMMA AccountExtends ==
    ASSUME NEW s, Sound(s), NEW name, NEW domain, NEW r,
           mapping.spec.account # "domain" => domain = Empty
    PROVE  Extends(s, upsertAccount(s, name, domain, r))
<1> DEFINE byDomain == IF mapping.spec.account = "domain" /\ domain # Empty
                       THEN Known(s, "account", domain, 0) ELSE {}
           byName == IF name = Empty THEN {} ELSE Known(s, "account", name, 0)
           hit == IF byDomain # {} THEN byDomain ELSE byName
           keep == hit # {} \/ (name = Empty /\ domain = Empty)
           called == IF name = Empty THEN domain ELSE name
<1>1. upsertAccount(s, name, domain, r)
        = IF keep THEN s ELSE Create(s, Record("account", called, domain, 0, r))
  BY DEF upsertAccount, Record
<1>2. ASSUME ~keep, domain # Empty, NEW i \in s.known, s.crm[i].kind = "account"
      PROVE  s.crm[i].key # domain
  <2>1. Known(s, "account", domain, 0) = {}
    BY <1>2
  <2>2. s.crm[i].parent = 0
    BY <1>2 DEF Sound, Recorded
  <2> QED
    BY <1>2, <2>1, <2>2 DEF Known
<1> HIDE DEF keep, called
<1>3. CASE keep
  BY <1>1, <1>3, ExtendsSelf
<1>4. CASE ~keep
  <2>1. Extends(s, Create(s, Record("account", called, domain, 0, r)))
    BY <1>2, <1>4, CreateExtends
  <2> QED
    BY <1>1, <1>4, <2>1
<1> QED
  BY <1>3, <1>4

LEMMA ContactExtends ==
    ASSUME NEW s, Sound(s), NEW name, NEW email, NEW account, NEW r,
           mapping.spec.contact # "email" => email = Empty
    PROVE  Extends(s, upsertContact(s, name, email, account, r))
<1> DEFINE byEmail == mapping.spec.contact = "email" /\ email # Empty
                      /\ \E i \in s.known : s.crm[i].kind = "contact" /\ s.crm[i].key = email
           byName == mapping.spec.contact # "email"
                     /\ \E i \in s.known : /\ s.crm[i].kind = "contact" /\ s.crm[i].name = name
                                           /\ s.crm[i].parent = account
           keep == byEmail \/ byName
<1>1. upsertContact(s, name, email, account, r)
        = IF keep THEN s ELSE Create(s, Record("contact", name, email, account, r))
  BY DEF upsertContact, Record
<1>2. ASSUME ~keep, email # Empty, NEW i \in s.known, s.crm[i].kind = "contact"
      PROVE  s.crm[i].key # email
  BY <1>2
<1> HIDE DEF keep
<1>3. CASE keep
  BY <1>1, <1>3, ExtendsSelf
<1>4. CASE ~keep
  <2>1. Extends(s, Create(s, Record("contact", name, email, account, r)))
    BY <1>2, <1>4, CreateExtends
  <2> QED
    BY <1>1, <1>4, <2>1
<1> QED
  BY <1>3, <1>4

LEMMA DealExtends ==
    ASSUME NEW s, Sound(s), NEW name, NEW account, NEW r
    PROVE  Extends(s, createDealFor(s, name, account, r))
<1> DEFINE keep == name = Empty \/ account = 0 \/ Known(s, "deal", name, account) # {}
<1>1. createDealFor(s, name, account, r)
        = IF keep THEN s ELSE Create(s, Record("deal", name, Empty, account, r))
  BY DEF createDealFor, Record
<1>2. Extends(s, Create(s, Record("deal", name, Empty, account, r)))
  BY CreateExtends
<1> HIDE DEF keep
<1> QED
  BY <1>1, <1>2, ExtendsSelf

LEMMA TaskExtends ==
    ASSUME NEW s, Sound(s), NEW title, NEW r
    PROVE  Extends(s, createTaskFor(s, title, r))
<1>1. createTaskFor(s, title, r) = Create(s, Record("task", title, Empty, 0, r))
  BY DEF createTaskFor, Record
<1>2. Extends(s, Create(s, Record("task", title, Empty, 0, r)))
  BY CreateExtends
<1> QED
  BY <1>1, <1>2

LEMMA SlotUnmapped ==
    ASSUME NEW r, NEW target, columnsFor(mapping.spec, target) = {}
    PROVE  Slot(r, target) = Empty
  BY DEF Slot, first

Begun(w) == [crm |-> crm, known |-> work[w].known, outcome |-> "held"]

LEMMA ResolveExtends ==
    ASSUME NEW w, NEW r, Recorded(crm), work[w].known \subseteq DOMAIN crm, KeysMapped(mapping.spec)
    PROVE  /\ Extends(Begun(w), resolveRow(w, r))
           /\ resolveRow(w, r).outcome \in {"held", "created", "updated"}
<1> DEFINE name == Slot(r, "account.name")
           domain == Slot(r, "account.domain")
           email == Slot(r, "contact.email")
           deal == Slot(r, "deal.name")
           title == Slot(r, "task.title")
           full == Slot(r, "contact.name")
           contact == IF full # Empty THEN full ELSE email
           s0 == Begun(w)
           s1 == upsertAccount(s0, name, domain, r)
           acc == IF name = Empty /\ domain = Empty THEN 0 ELSE AccountOf(s1, name, domain)
           s2 == IF contact = Empty THEN s1 ELSE upsertContact(s1, contact, email, acc, r)
           s3 == createDealFor(s2, deal, acc, r)
           s4 == IF title = Empty THEN s3 ELSE createTaskFor(s3, title, r)
           out == IF contact # Empty THEN IF s2.crm # s1.crm THEN "created" ELSE "updated"
                  ELSE IF (deal # Empty /\ acc # 0) \/ title # Empty THEN "created"
                  ELSE IF acc # 0 THEN "updated" ELSE "held"
<1>1. resolveRow(w, r) = [s4 EXCEPT !.outcome = out]
  BY DEF resolveRow, Begun
<1>2. mapping.spec.account # "domain" => domain = Empty
  BY SlotUnmapped DEF KeysMapped
<1>3. mapping.spec.contact # "email" => email = Empty
  BY SlotUnmapped DEF KeysMapped
<1>4. out \in {"held", "created", "updated"}
  OBVIOUS
<1> HIDE DEF name, domain, email, deal, title, contact, acc, out
<1>5. Sound(s0)
  BY DEF Begun, Sound
<1> HIDE DEF s0
<1>6. Extends(s0, s1)
  BY <1>2, <1>5, AccountExtends
<1> HIDE DEF s1
<1>7. Extends(s1, s2)
  <2>1. Sound(s1)
    BY <1>6 DEF Extends
  <2>2. Extends(s1, upsertContact(s1, contact, email, acc, r))
    BY <1>3, <2>1, ContactExtends
  <2> QED
    BY <2>1, <2>2, ExtendsSelf
<1> HIDE DEF s2
<1>8. Extends(s2, s3)
  BY <1>7, DealExtends DEF Extends
<1> HIDE DEF s3
<1>9. Extends(s3, s4)
  <2>1. Sound(s3)
    BY <1>8 DEF Extends
  <2> QED
    BY <2>1, TaskExtends, ExtendsSelf
<1> HIDE DEF s4
<1>10. Extends(s0, s4)
  BY <1>6, <1>7, <1>8, <1>9, ExtendsTwice
<1>11. PICK c, known, outcome : s4 = [crm |-> c, known |-> known, outcome |-> outcome]
  BY <1>10 DEF Extends, Sound
<1>12. resolveRow(w, r) = [crm |-> s4.crm, known |-> s4.known, outcome |-> out]
  BY <1>1, <1>11
<1> QED
  BY <1>4, <1>10, <1>12 DEF Extends, Sound, s0

-----------------------------------------------------------------------------
(* Imports: what is staged.                                                *)

LEMMA LenOf ==
    ASSUME NEW c, NEW n \in Nat, DOMAIN c = 1..n, c = [i \in DOMAIN c |-> c[i]]
    PROVE  Len(c) = n
<1>1. c = [i \in 1..n |-> c[i]]
  OBVIOUS
<1> QED
  BY <1>1, SeqOf

LEMMA TableRows ==
    ASSUME NEW m \in Sheets
    PROVE  /\ Len(parseWorkbook(m).rows) \in Nat
           /\ DOMAIN parseWorkbook(m).rows = 1..Len(parseWorkbook(m).rows)
<1> DEFINE h == detectHeaderRow(m)
           names == dedupeHeaders(m[h])
           at(r, c) == IF c \in DOMAIN m[r] THEN m[r][c] ELSE Empty
           S == {r \in DOMAIN m : r > h /\ \E c \in DOMAIN names : at(r, c) # Empty}
           e(k) == [n \in Range(names) |-> at(InOrder(S)[k], CHOOSE c \in DOMAIN names : names[c] = n)]
           rows == [k \in DOMAIN InOrder(S) |-> e(k)]
<1>1. parseWorkbook(m).rows = rows
  BY DEF parseWorkbook, bodyRows
<1>2. IsFiniteSet(S)
  <2>1. S \subseteq DOMAIN m
    OBVIOUS
  <2> HIDE DEF S
  <2> QED
    BY <2>1, ImportsAssumption, FS_Subset
<1> HIDE DEF h, names, at, S, e
<1>3. PICK n \in Nat : DOMAIN InOrder(S) = 1..n
  BY <1>2, InOrderLen
<1>4. rows = [k \in 1..n |-> rows[k]] /\ DOMAIN rows = 1..n
  BY <1>3
<1> QED
  BY <1>1, <1>4, SeqOf

LEMMA TextRows ==
    ASSUME NEW t \in Texts, NEW src \in {"json", "model"}, NEW ok \in BOOLEAN
    PROVE  \E n \in Nat : DOMAIN extractEntities(src, t, ok) = 1..n
<1> DEFINE S == {i \in DOMAIN t : ~isEmptyRecord(t[i])}
<1>1. PICK n \in Nat : DOMAIN InOrder(S) = 1..n
  <2>1. IsFiniteSet(S)
    <3>1. S \subseteq DOMAIN t
      OBVIOUS
    <3> HIDE DEF S
    <3> QED
      BY <3>1, ImportsAssumption, FS_Subset
  <2> HIDE DEF S
  <2> QED
    BY <2>1, InOrderLen
<1>2. CASE src = "json"
  <2>1. extractEntities(src, t, ok) = structuredFromJson(t)
    BY <1>2 DEF extractEntities
  <2>2. DOMAIN structuredFromJson(t) = DOMAIN InOrder(S)
    BY DEF structuredFromJson
  <2> QED
    BY <1>1, <2>1, <2>2
<1>3. CASE src = "model" /\ ok
  <2>1. extractEntities(src, t, ok) = normalizeRecords(t)
    BY <1>3 DEF extractEntities
  <2>2. DOMAIN normalizeRecords(t) = DOMAIN InOrder(S)
    BY DEF normalizeRecords
  <2> QED
    BY <1>1, <2>1, <2>2
<1>4. CASE src = "model" /\ ~ok
  <2>1. extractEntities(src, t, ok) = <<>>
    BY <1>4 DEF extractEntities
  <2>2. DOMAIN extractEntities(src, t, ok) = 1..0
    BY <2>1
  <2> QED
    BY <2>2
<1> QED
  BY <1>2, <1>3, <1>4

LEMMA TableStaged ==
    ASSUME NEW m \in Sheets, StoreType, ingestTable(m)
    PROVE  StoreType' /\ sheet'.source = "table" /\ DOMAIN sheet'.rows = 1..Len(sheet'.rows)
<1> DEFINE p == parseWorkbook(m)
<1>1. /\ sheet' = [source |-> "table", columns |-> p.columns, rows |-> p.rows,
                   confidence |-> [i \in DOMAIN p.rows |-> 10],
                   store |-> [i \in DOMAIN p.rows |-> splitCells(p, p.rows[i])]]
      /\ sheet = NoSheet /\ batch' = "parsing" /\ staged' = staged /\ mark' = mark
  BY DEF ingestTable
<1>2. Len(p.rows) \in Nat /\ DOMAIN p.rows = 1..Len(p.rows)
  BY TableRows
<1> HIDE DEF p
<1>3. sheet'.source = "table" /\ sheet'.rows = p.rows
  BY <1>1
<1>4. \A r \in 1..Len(p.rows) : sheet'.confidence[r] = 10
  BY <1>1, <1>2
<1>5. sheet' # NoSheet
  BY <1>3 DEF NoSheet
<1>6. staged = 0
  BY <1>1 DEF StoreType, SheetType
<1> QED
  BY <1>1, <1>2, <1>3, <1>4, <1>5, <1>6 DEF StoreType, SheetType, BatchStatus

LEMMA TextStaged ==
    ASSUME NEW t \in Texts, NEW src \in {"json", "model"}, NEW ok \in BOOLEAN,
           StoreType, stageExtracted(src, t, ok)
    PROVE  StoreType' /\ sheet'.source # "table" /\ DOMAIN sheet'.rows = 1..Len(sheet'.rows)
<1> DEFINE extracted == extractEntities(src, t, ok)
           cols == [i \in DOMAIN StdColumns |->
                      [name |-> StdColumns[i], samples |-> {},
                       sensitive |-> StdColumns[i] \in {"contact.email", "contact.phone"}]]
           rows == [i \in DOMAIN extracted |-> extracted[i].cells]
           confidence == [i \in DOMAIN extracted |-> extracted[i].confidence]
           stored == [i \in DOMAIN extracted |-> splitCells([columns |-> cols], extracted[i].cells)]
<1>1. /\ sheet' = [source |-> src, columns |-> cols, rows |-> rows, confidence |-> confidence,
                   store |-> stored]
      /\ sheet = NoSheet /\ batch' = "parsing" /\ staged' = staged /\ mark' = mark
  BY DEF stageExtracted
<1>2. PICK n \in Nat : DOMAIN extracted = 1..n
  BY TextRows
<1>3. Len(rows) = n /\ DOMAIN rows = 1..n
  <2> HIDE DEF extracted
  <2>1. rows = [i \in 1..n |-> rows[i]]
    BY <1>2
  <2> HIDE DEF rows
  <2> QED
    BY <2>1, SeqOf
<1> HIDE DEF extracted, cols, rows, confidence, stored
<1>4. sheet'.source = src /\ sheet'.rows = rows
  BY <1>1
<1>5. sheet' # NoSheet /\ src # "table"
  BY <1>4 DEF NoSheet
<1>6. staged = 0
  BY <1>1 DEF StoreType, SheetType
<1> QED
  BY <1>1, <1>2, <1>3, <1>4, <1>5, <1>6 DEF StoreType, SheetType, BatchStatus

LEMMA ChunkStaged ==
    ASSUME StoreType, InsertChunk
    PROVE  /\ StoreType' /\ staged <= staged'
           /\ \A r \in 1..staged : mark'[r] = mark[r]
           /\ \A r \in 1..staged' : r > staged => mark'[r] = "new"
<1>1. staged \in Nat /\ mark \in [1..staged -> ImportRowStatus] /\ sheet # NoSheet /\ Len(sheet.rows) \in Nat
  BY DEF StoreType, SheetType, InsertChunk
<1>2. staged' \in Nat /\ staged <= staged' /\ staged' <= Len(sheet.rows)
  BY <1>1, ImportsAssumption DEF InsertChunk
<1>3. DOMAIN mark = 1..staged
  BY <1>1
<1>4. mark' = [i \in 1..staged' |-> IF i \in 1..staged THEN mark[i] ELSE "new"]
  BY <1>3 DEF InsertChunk
<1>5. mark' \in [1..staged' -> ImportRowStatus]
  BY <1>1, <1>4 DEF ImportRowStatus
<1>6. StoreType'
  BY <1>1, <1>2, <1>5 DEF StoreType, SheetType, InsertChunk
<1> QED
  BY <1>1, <1>2, <1>4, <1>6

LEMMA MarkStaged ==
    ASSUME StoreType, NEW r \in DOMAIN mark, NEW s \in ImportRowStatus,
           mark' = [mark EXCEPT ![r] = s], UNCHANGED <<sheet, staged, batch>>
    PROVE  StoreType'
  BY DEF StoreType, SheetType

LEMMA StoreKept == ASSUME StoreType, UNCHANGED <<sheet, staged, batch, mark>> PROVE StoreType'
  BY DEF StoreType, SheetType

-----------------------------------------------------------------------------
(* Imports: jobs.                                                          *)

JobOf(status, cursor, total, created, updated, held, bad, conf, ready) ==
    [status |-> status, cursor |-> cursor, total |-> total, created |-> created, updated |-> updated,
     held |-> held, failed |-> bad, minConfidence |-> conf, ready |-> ready]

LEMMA JobIs ==
    ASSUME NEW j \in JobRow
    PROVE  /\ j = JobOf(j.status, j.cursor, j.total, j.created, j.updated, j.held, j.failed,
                        j.minConfidence, j.ready)
           /\ j.status \in {"queued", "running", "done", "failed"} /\ j.cursor \in Nat /\ j.total \in Nat
           /\ j.created \in Nat /\ j.updated \in Nat /\ j.held \in Nat /\ j.failed \in Nat
           /\ j.minConfidence \in 0..10 /\ j.ready \in BOOLEAN
  BY DEF JobRow, JobOf

LEMMA JobTyped ==
    ASSUME NEW status \in {"queued", "running", "done", "failed"}, NEW cursor \in Nat, NEW total \in Nat,
           NEW created \in Nat, NEW updated \in Nat, NEW held \in Nat, NEW bad \in Nat,
           NEW conf \in 0..10, NEW ready \in BOOLEAN
    PROVE  JobOf(status, cursor, total, created, updated, held, bad, conf, ready) \in JobRow
  BY DEF JobRow, JobOf

LEMMA NewJobTyped ==
    ASSUME StoreType, NEW conf \in 0..10
    PROVE  NewJob(conf) \in JobRow
<1>1. PICK b \in BOOLEAN : b = (batch = "ready")
  OBVIOUS
<1>2. PICK n \in Nat : n = staged
  BY DEF StoreType
<1>3. NewJob(conf) = JobOf("queued", 0, n, 0, 0, 0, 0, conf, b)
  BY <1>1, <1>2 DEF NewJob, JobOf
<1> QED
  BY <1>3, JobTyped

LEMMA JobSet ==
    ASSUME NEW i \in DOMAIN jobs, NEW j \in JobRow, jobs \in Seq(JobRow), jobs' = [jobs EXCEPT ![i] = j]
    PROVE  /\ jobs' \in Seq(JobRow) /\ DOMAIN jobs' = DOMAIN jobs /\ Len(jobs') = Len(jobs)
           /\ jobs'[i] = j /\ \A x \in DOMAIN jobs : x # i => jobs'[x] = jobs[x]
<1>1. DOMAIN jobs = 1..Len(jobs) /\ Len(jobs) \in Nat
  BY LenProperties
<1>2. jobs' \in Seq(JobRow) /\ Len(jobs') = Len(jobs)
  BY <1>1, ExceptSeq
<1>3. DOMAIN jobs' = 1..Len(jobs)
  BY <1>2, LenProperties
<1> QED
  BY <1>1, <1>2, <1>3

LEMMA JobAdded ==
    ASSUME NEW j \in JobRow, jobs \in Seq(JobRow), jobs' = Append(jobs, j)
    PROVE  /\ jobs' \in Seq(JobRow) /\ Len(jobs) \in Nat /\ Len(jobs') = Len(jobs) + 1
           /\ DOMAIN jobs = 1..Len(jobs) /\ DOMAIN jobs' = 1..(Len(jobs) + 1) /\ jobs' # <<>>
           /\ jobs'[Len(jobs) + 1] = j /\ \A x \in DOMAIN jobs : jobs'[x] = jobs[x]
<1>1. DOMAIN jobs = 1..Len(jobs) /\ Len(jobs) \in Nat
  BY LenProperties
<1>2. /\ jobs' \in Seq(JobRow) /\ Len(jobs') = Len(jobs) + 1 /\ jobs' # <<>>
      /\ jobs'[Len(jobs) + 1] = j /\ \A x \in 1..Len(jobs) : jobs'[x] = jobs[x]
  BY AppendProperties
<1>3. DOMAIN jobs' = 1..(Len(jobs) + 1)
  BY <1>2, LenProperties
<1> QED
  BY <1>1, <1>2, <1>3

-----------------------------------------------------------------------------
(* Imports: workers.                                                       *)

SliceOf(job, snap, rows, taken, known, ingest, created, updated, held, bad) ==
    [job |-> job, snap |-> snap, rows |-> rows, loaded |-> taken, known |-> known, ingest |-> ingest,
     created |-> created, updated |-> updated, held |-> held, failed |-> bad]

LEMMA SliceIs ==
    ASSUME NEW k \in Slices
    PROVE  /\ k = SliceOf(k.job, k.snap, k.rows, k.loaded, k.known, k.ingest, k.created, k.updated,
                          k.held, k.failed)
           /\ k.job \in Nat /\ k.snap \in JobRow \cup {<<>>} /\ k.rows \in Seq(Nat) /\ k.loaded \in Nat
           /\ k.known \in SUBSET Nat /\ k.ingest \in BOOLEAN
           /\ k.created \in Nat /\ k.updated \in Nat /\ k.held \in Nat /\ k.failed \in Nat
  BY DEF Slices, SliceOf

LEMMA SliceTyped ==
    ASSUME NEW job \in Nat, NEW snap \in JobRow \cup {<<>>}, NEW rows \in Seq(Nat), NEW taken \in Nat,
           NEW known \in SUBSET Nat, NEW ingest \in BOOLEAN, NEW created \in Nat, NEW updated \in Nat,
           NEW held \in Nat, NEW bad \in Nat
    PROVE  SliceOf(job, snap, rows, taken, known, ingest, created, updated, held, bad) \in Slices
  BY DEF Slices, SliceOf

LEMMA NoSliceTyped ==
    ASSUME NEW job \in Nat, NEW ingest \in BOOLEAN
    PROVE  SliceOf(job, <<>>, <<>>, 0, {}, ingest, 0, 0, 0, 0) \in Slices
<1>1. PICK rows \in Seq(Nat) : rows = <<>>
  BY EmptySeq
<1>2. PICK snap \in JobRow \cup {<<>>} : snap = <<>>
  OBVIOUS
<1>3. SliceOf(job, snap, rows, 0, {}, ingest, 0, 0, 0, 0) \in Slices
  BY SliceTyped
<1> QED
  BY <1>1, <1>2, <1>3

(* Only the worker w acts.                                                 *)
OnlyOne(w) ==
    /\ wpc' = [x \in Workers |-> IF x = w THEN wpc'[w] ELSE wpc[x]]
    /\ work' = [x \in Workers |-> IF x = w THEN work'[w] ELSE work[x]]

Grown == DOMAIN jobs \subseteq DOMAIN jobs' /\ DOMAIN mark \subseteq DOMAIN mark'
         /\ DOMAIN crm \subseteq DOMAIN crm'

LEMMA OthersKept ==
    ASSUME WorkersType, NEW w \in Workers, OnlyOne(w), Grown, WorkerType(w)'
    PROVE  WorkersType'
<1>1. wpc' = [x \in Workers |-> wpc'[x]] /\ work' = [x \in Workers |-> work'[x]]
  BY DEF OnlyOne
<1>2. ASSUME NEW v \in Workers, v # w PROVE WorkerType(v)'
  <2>1. wpc'[v] = wpc[v] /\ work'[v] = work[v]
    BY <1>2 DEF OnlyOne
  <2>2. WorkerType(v)
    BY DEF WorkersType
  <2> QED
    BY <2>1, <2>2 DEF WorkerType, Grown
<1> QED
  BY <1>1, <1>2 DEF WorkersType

LEMMA AllKept == ASSUME WorkersType, UNCHANGED <<wpc, work>>, Grown PROVE WorkersType'
  BY DEF WorkersType, WorkerType, Grown

LEMMA SameSlice ==
    ASSUME WorkersType, NEW w \in Workers, NEW p, wpc' = [wpc EXCEPT ![w] = p]
    PROVE  wpc'[w] = p /\ wpc' = [x \in Workers |-> IF x = w THEN wpc'[w] ELSE wpc[x]]
  BY DEF WorkersType

LEMMA NewSlice ==
    ASSUME WorkersType, NEW w \in Workers, NEW k, work' = [work EXCEPT ![w] = k]
    PROVE  work'[w] = k /\ work' = [x \in Workers |-> IF x = w THEN work'[w] ELSE work[x]]
  BY DEF WorkersType

LEMMA WorkAt == ASSUME WorkersType, NEW w \in Workers PROVE w \in DOMAIN work /\ w \in DOMAIN wpc
  BY DEF WorkersType

-----------------------------------------------------------------------------
(* Imports: the type of everything, step by step.                          *)

Stepped(w, p, k) ==
    /\ wpc' = [wpc EXCEPT ![w] = p]
    /\ work' = [work EXCEPT ![w] = k]

LEMMA SteppedOne ==
    ASSUME WorkersType, NEW w \in Workers, NEW p, NEW k, Stepped(w, p, k)
    PROVE  OnlyOne(w) /\ wpc'[w] = p /\ work'[w] = k
  BY SameSlice, NewSlice DEF Stepped, OnlyOne

(* A worker that stays where it is, or keeps what it holds.                *)
LEMMA StaysPut == ASSUME WorkersType, NEW w \in Workers PROVE wpc = [wpc EXCEPT ![w] = wpc[w]]
  BY DEF WorkersType

LEMMA HoldsOn == ASSUME WorkersType, NEW w \in Workers PROVE work = [work EXCEPT ![w] = work[w]]
  BY DEF WorkersType

LEMMA NoSliceIs == NoSlice = SliceOf(0, <<>>, <<>>, 0, {}, FALSE, 0, 0, 0, 0)
  BY DEF NoSlice, SliceOf

(* A worker that ends, or has only a job yet.                              *)
LEMMA FreshWorker ==
    ASSUME WorkersType, NEW w \in Workers, NEW p \in {"idle", "read", "review"}, NEW job \in Nat,
           NEW ingest \in BOOLEAN, p = "read" => job \in DOMAIN jobs',
           Stepped(w, p, SliceOf(job, <<>>, <<>>, 0, {}, ingest, 0, 0, 0, 0)), Grown
    PROVE  WorkersType'
<1>1. PICK k : k = SliceOf(job, <<>>, <<>>, 0, {}, ingest, 0, 0, 0, 0)
  OBVIOUS
<1>2. k \in Slices
  BY <1>1, NoSliceTyped
<1>3. k.job = job /\ k.rows = <<>> /\ k.known = {}
  BY <1>1 DEF SliceOf
<1>4. OnlyOne(w) /\ wpc'[w] = p /\ work'[w] = k
  BY <1>1, SteppedOne
<1>5. WorkerType(w)'
  BY <1>2, <1>3, <1>4 DEF WorkerType, Steps
<1> QED
  BY <1>4, <1>5, OthersKept

LEMMA GrownSame == ASSUME UNCHANGED <<jobs, mark, crm>> PROVE Grown
  BY DEF Grown

LEMMA JobsKept ==
    ASSUME JobsType, UNCHANGED <<sheet, mapping, jobs, crm>>,
           review' \in {"none", "pending", "executing"}, sliceRaced' \in BOOLEAN,
           spent' \in [failures : Nat, cutoffs : Nat]
    PROVE  JobsType'
  BY DEF JobsType, MappingType

LEMMA JobsWritten ==
    ASSUME JobsType, NEW i \in DOMAIN jobs, NEW j \in JobRow, jobs' = [jobs EXCEPT ![i] = j],
           UNCHANGED <<sheet, mapping, crm, review, sliceRaced, spent>>
    PROVE  JobsType'
<1>1. jobs' \in Seq(JobRow)
  BY JobSet DEF JobsType
<1>2. mapping # NoMapping
  BY DEF JobsType, MappingType
<1> QED
  BY <1>1, <1>2 DEF JobsType, MappingType

LEMMA JobsAppended ==
    ASSUME JobsType, NEW j \in JobRow, jobs' = Append(jobs, j), mapping # NoMapping,
           mapping' = mapping \/ mapping' = [mapping EXCEPT !.approved = TRUE],
           UNCHANGED <<sheet, crm, review, sliceRaced, spent>>
    PROVE  JobsType'
<1>1. jobs' \in Seq(JobRow)
  BY JobAdded DEF JobsType
<1>2. PICK spec, approved : mapping = [spec |-> spec, approved |-> approved]
  BY DEF JobsType, MappingType
<1>3. KeysMapped(spec) /\ sheet # NoSheet
  BY <1>2 DEF JobsType, MappingType
<1>4. mapping' = [spec |-> spec, approved |-> mapping'.approved]
      /\ mapping'.spec = spec
      /\ mapping' # NoMapping
  <2>1. CASE mapping' = mapping
    BY <1>2, <2>1
  <2>2. CASE mapping' = [mapping EXCEPT !.approved = TRUE]
    BY <1>2, <2>2 DEF NoMapping
  <2> QED
    BY <2>1, <2>2
<1>5. MappingType'
  BY <1>3, <1>4 DEF MappingType
<1> QED
  BY <1>1, <1>5 DEF JobsType

LEMMA SuggestKeys == ASSUME NEW columns PROVE KeysMapped(suggestMapping(columns))
<1> DEFINE std(i) == guessStd(columns[i].name[1], columns[i].type)
           takes(i) == std(i) # "none" /\ \A j \in 1..(i - 1) : std(j) # std(i)
           taken == {std(i) : i \in {j \in DOMAIN columns : takes(j)}}
           cols == [i \in DOMAIN columns |->
                      [column |-> columns[i].name, target |-> IF takes(i) THEN std(i) ELSE "custom"]]
           spec == suggestMapping(columns)
<1>1. spec = [columns |-> cols,
              account |-> IF "account.domain" \in taken THEN "domain"
                          ELSE IF "account.name" \in taken THEN "name" ELSE "none",
              contact |-> IF "contact.email" \in taken THEN "email" ELSE "name"]
  BY DEF suggestMapping
<1>2. ASSUME NEW t, t # "custom", t \notin taken PROVE columnsFor(spec, t) = {}
  <2>1. \A i \in DOMAIN cols : cols[i].target # t
    <3> SUFFICES ASSUME NEW i \in DOMAIN columns
                 PROVE  (IF takes(i) THEN std(i) ELSE "custom") # t
      OBVIOUS
    <3> HIDE DEF std, takes
    <3> QED
      BY <1>2
  <2> HIDE DEF cols
  <2>2. spec.columns = cols
    BY <1>1
  <2> QED
    BY <2>1, <2>2 DEF columnsFor
<1> HIDE DEF cols, taken
<1>3. spec.account # "domain" => "account.domain" \notin taken
  BY <1>1
<1>4. spec.contact # "email" => "contact.email" \notin taken
  BY <1>1
<1> QED
  BY <1>2, <1>3, <1>4 DEF KeysMapped

LEMMA DraftKeys == KeysMapped(DraftSpec)
  BY SuggestKeys DEF DraftSpec, KeysMapped, extractionMapping

LEMMA MappingSaved ==
    ASSUME JobsType, saveMapping
    PROVE  JobsType'
<1>1. /\ mapping' = [spec |-> DraftSpec, approved |-> sheet.source # "table"]
      /\ mapping = NoMapping /\ sheet # NoSheet
      /\ UNCHANGED <<sheet, jobs, crm, review, sliceRaced, spent>>
  BY DEF saveMapping
<1>2. PICK d, b : d = DraftSpec /\ b = (sheet.source # "table")
  OBVIOUS
<1>3. mapping' = [spec |-> d, approved |-> b]
  BY <1>1, <1>2
<1>4. mapping'.spec = d /\ mapping'.approved = b
  BY <1>3
<1>5. KeysMapped(mapping'.spec)
  BY <1>2, <1>4, DraftKeys
<1>6. jobs = <<>>
  BY <1>1 DEF JobsType, MappingType
<1>7. MappingType'
  BY <1>1, <1>3, <1>4, <1>5, <1>6 DEF MappingType
<1> QED
  BY <1>1, <1>7 DEF JobsType

LEMMA BusyWorker ==
    ASSUME WorkersType, NEW w \in Workers, NEW p \in Steps, NEW k \in Slices, Stepped(w, p, k), Grown,
           p \notin {"idle", "review"} => k.job \in DOMAIN jobs',
           p \notin {"idle", "read", "review"} => k.snap \in JobRow,
           \A i \in DOMAIN k.rows : k.rows[i] \in DOMAIN mark',
           k.known \subseteq DOMAIN crm'
    PROVE  WorkersType'
<1>1. OnlyOne(w) /\ wpc'[w] = p /\ work'[w] = k
  BY SteppedOne
<1>2. WorkerType(w)'
  BY <1>1 DEF WorkerType
<1> QED
  BY <1>1, <1>2, OthersKept

JobSlice(job, ingest) == SliceOf(job, <<>>, <<>>, 0, {}, ingest, 0, 0, 0, 0)

LEMMA JobSlices ==
    ASSUME NEW job
    PROVE  /\ [NoSlice EXCEPT !.job = job] = JobSlice(job, FALSE)
           /\ [NoSlice EXCEPT !.job = job, !.ingest = TRUE] = JobSlice(job, TRUE)
           /\ NoSlice = JobSlice(0, FALSE)
<1>1. NoSlice = JobSlice(0, FALSE)
  BY DEF NoSlice, JobSlice, SliceOf
<1>2. PICK a, b, c : a = <<>> /\ b = {} /\ c = FALSE
  OBVIOUS
<1>3. NoSlice = [job |-> 0, snap |-> a, rows |-> a, loaded |-> 0, known |-> b, ingest |-> c,
                 created |-> 0, updated |-> 0, held |-> 0, failed |-> 0]
  BY <1>2 DEF NoSlice
<1>4. [NoSlice EXCEPT !.job = job]
        = [job |-> job, snap |-> a, rows |-> a, loaded |-> 0, known |-> b, ingest |-> c,
           created |-> 0, updated |-> 0, held |-> 0, failed |-> 0]
  BY <1>3
<1>5. PICK x : x = [NoSlice EXCEPT !.job = job]
  OBVIOUS
<1>6. [x EXCEPT !.ingest = TRUE] = JobSlice(job, TRUE)
  <2>1. PICK d : d = TRUE
    OBVIOUS
  <2>2. x = [job |-> job, snap |-> a, rows |-> a, loaded |-> 0, known |-> b, ingest |-> c,
             created |-> 0, updated |-> 0, held |-> 0, failed |-> 0]
    BY <1>4, <1>5
  <2>3. [x EXCEPT !.ingest = d]
          = [job |-> job, snap |-> a, rows |-> a, loaded |-> 0, known |-> b, ingest |-> d,
             created |-> 0, updated |-> 0, held |-> 0, failed |-> 0]
    BY <2>2
  <2>4. JobSlice(job, d)
          = [job |-> job, snap |-> a, rows |-> a, loaded |-> 0, known |-> b, ingest |-> d,
             created |-> 0, updated |-> 0, held |-> 0, failed |-> 0]
    BY <1>2 DEF JobSlice, SliceOf
  <2> QED
    BY <2>1, <2>3, <2>4
<1>7. [NoSlice EXCEPT !.job = job, !.ingest = TRUE] = [x EXCEPT !.ingest = TRUE]
  BY <1>5
<1> QED
  BY <1>1, <1>2, <1>4, <1>6, <1>7 DEF JobSlice, SliceOf

LEMMA StartTyped ==
    ASSUME ImpType, NEW w \in Workers, startImport(w) \/ ingestText(w)
    PROVE  ImpType' /\ (\E conf \in 0..10 : jobs' = Append(jobs, NewJob(conf)))
<1>1. StoreType /\ JobsType /\ WorkersType
  BY DEF ImpType
<1>2. StoreType'
  BY <1>1, StoreKept DEF startImport, ingestText, Store
<1>3. PICK conf \in 0..10 : jobs' = Append(jobs, NewJob(conf))
  <2>1. CASE startImport(w)
    BY <2>1 DEF startImport
  <2>2. CASE ingestText(w)
    <3>1. CASE sheet.source = "model"
      BY <2>2, <3>1, ImportsAssumption DEF ingestText
    <3>2. CASE sheet.source # "model"
      BY <2>2, <3>2 DEF ingestText
    <3> QED
      BY <3>1, <3>2
  <2> QED
    BY <2>1, <2>2
<1>4. PICK j \in JobRow : j = NewJob(conf)
  BY <1>1, NewJobTyped
<1>5. jobs' = Append(jobs, j)
  BY <1>3, <1>4
<1>6. JobsType'
  <2>1. /\ mapping # NoMapping /\ UNCHANGED <<sheet, crm, review, sliceRaced, spent>>
        /\ mapping' = mapping \/ mapping' = [mapping EXCEPT !.approved = TRUE]
    BY DEF startImport, ingestText, Store
  <2> QED
    BY <1>1, <1>5, <2>1, JobsAppended
<1>7. /\ Len(jobs) \in Nat /\ Len(jobs) + 1 \in DOMAIN jobs' /\ DOMAIN jobs \subseteq DOMAIN jobs'
  BY <1>1, <1>5, JobAdded DEF JobsType
<1>8. Grown
  BY <1>7 DEF Grown, startImport, ingestText, Store
<1>9. PICK ingest \in BOOLEAN : Stepped(w, "read", JobSlice(Len(jobs) + 1, ingest))
  BY JobSlices DEF startImport, ingestText, Stepped
<1>10. WorkersType'
  BY <1>1, <1>7, <1>8, <1>9, FreshWorker DEF JobSlice
<1> QED
  BY <1>2, <1>3, <1>6, <1>10 DEF ImpType

LEMMA TickTyped ==
    ASSUME ImpType, NEW w \in Workers, NEW j, TickJob(w, j)
    PROVE  ImpType'
<1>1. StoreType /\ JobsType /\ WorkersType
  BY DEF ImpType
<1>2. StoreType' /\ Grown
  BY <1>1, StoreKept, GrownSame DEF TickJob, Store
<1>3. JobsType'
  BY <1>1 DEF TickJob, Store, JobsType, MappingType
<1>4. j \in Nat /\ j \in DOMAIN jobs'
  <2>1. j \in 1..Len(jobs) /\ Len(jobs) \in Nat
    BY <1>1, LenProperties DEF TickJob, JobsType
  <2> QED
    BY <2>1 DEF TickJob
<1>5. Stepped(w, "read", JobSlice(j, FALSE))
  BY JobSlices DEF TickJob, Stepped
<1>6. WorkersType'
  BY <1>1, <1>2, <1>4, <1>5, FreshWorker DEF JobSlice
<1> QED
  BY <1>2, <1>3, <1>6 DEF ImpType

LEMMA RaceType ==
    ASSUME NEW w, sliceRaced \in BOOLEAN, Race(w)
    PROVE  /\ sliceRaced' \in BOOLEAN
           /\ ~sliceRaced' => ~sliceRaced /\ \A v \in Workers \ {w} : ~Importing(v)
  BY DEF Race

(* What reading the job does.                                              *)
Snapped(k, j) == SliceOf(k.job, j, k.rows, k.loaded, k.known, k.ingest, k.created, k.updated, k.held, k.failed)

LEMMA ReadTyped ==
    ASSUME ImpType, NEW w \in Workers, ReadJob(w)
    PROVE  /\ ImpType'
           /\ \/ /\ Stepped(w, "idle", JobSlice(0, FALSE)) /\ sliceRaced' = sliceRaced
              \/ /\ Stepped(w, "running", Snapped(work[w], jobs[work[w].job])) /\ Race(w)
<1>1. StoreType /\ JobsType /\ WorkersType /\ WorkerType(w)
  BY DEF ImpType, WorkersType
<1>2. StoreType' /\ Grown
  BY <1>1, StoreKept, GrownSame DEF ReadJob, Store
<1>3. PICK j \in JobRow : j = jobs[work[w].job]
  <2>1. work[w].job \in DOMAIN jobs /\ jobs \in Seq(JobRow)
    BY <1>1 DEF WorkerType, JobsType, ReadJob
  <2> QED
    BY <2>1, LenProperties
<1>4. sliceRaced' \in BOOLEAN /\ UNCHANGED <<sheet, mapping, jobs, crm, review, spent>>
  BY <1>1, RaceType DEF ReadJob, Store, JobsType
<1>5. JobsType'
  BY <1>1, <1>4 DEF JobsType, MappingType
<1>6. \/ /\ Stepped(w, "idle", JobSlice(0, FALSE)) /\ sliceRaced' = sliceRaced
      \/ /\ Stepped(w, "running", Snapped(work[w], j)) /\ Race(w)
  <2>1. CASE jobs[work[w].job].status \in {"done", "failed"}
    BY <2>1, JobSlices DEF ReadJob, Stepped
  <2>2. CASE jobs[work[w].job].status \notin {"done", "failed"}
    <3>1. work' = [work EXCEPT ![w].snap = j] /\ wpc' = [wpc EXCEPT ![w] = "running"] /\ Race(w)
      BY <1>3, <2>2 DEF ReadJob
    <3>2. PICK k \in Slices : k = work[w]
      BY <1>1 DEF WorkerType
    <3>3. [k EXCEPT !.snap = j] = Snapped(k, j)
      BY SliceIs DEF Snapped, SliceOf
    <3>4. work' = [work EXCEPT ![w] = [k EXCEPT !.snap = j]]
      BY <1>1, <3>1, <3>2, WorkAt
    <3> QED
      BY <3>1, <3>2, <3>3, <3>4 DEF Stepped
  <2> QED
    BY <2>1, <2>2
<1>7. WorkersType'
  <2>1. CASE Stepped(w, "idle", JobSlice(0, FALSE))
    BY <1>1, <1>2, <2>1, FreshWorker DEF JobSlice
  <2>2. CASE Stepped(w, "running", Snapped(work[w], j))
    <3>1. PICK k \in Slices : k = work[w]
      BY <1>1 DEF WorkerType
    <3>2. Snapped(k, j) \in Slices
      BY SliceIs, SliceTyped DEF Snapped
    <3>3. /\ Snapped(k, j).job = k.job /\ Snapped(k, j).snap = j /\ Snapped(k, j).rows = k.rows
          /\ Snapped(k, j).known = k.known
      BY DEF Snapped, SliceOf
    <3>4. /\ k.job \in DOMAIN jobs' /\ \A i \in DOMAIN k.rows : k.rows[i] \in DOMAIN mark'
          /\ k.known \subseteq DOMAIN crm'
      BY <1>1, <1>2, <3>1 DEF WorkerType, Grown, ReadJob
    <3> QED
      BY <1>1, <1>2, <2>2, <3>1, <3>2, <3>3, <3>4, BusyWorker DEF Steps
  <2> QED
    BY <1>6, <2>1, <2>2
<1> QED
  BY <1>2, <1>3, <1>5, <1>6, <1>7 DEF ImpType

(* The status alone is set to running.                                     *)
Run(j) == JobOf("running", j.cursor, j.total, j.created, j.updated, j.held, j.failed, j.minConfidence, j.ready)

LEMMA RunTyped ==
    ASSUME ImpType, NEW w \in Workers, SetRunning(w)
    PROVE  /\ ImpType' /\ work[w].job \in DOMAIN jobs /\ Stepped(w, "load", work[w])
           /\ Run(jobs[work[w].job]) \in JobRow
           /\ jobs' = [jobs EXCEPT ![work[w].job] = Run(jobs[work[w].job])]
<1>1. StoreType /\ JobsType /\ WorkersType /\ WorkerType(w)
  BY DEF ImpType, WorkersType
<1>2. PICK i \in DOMAIN jobs : i = work[w].job
  BY <1>1 DEF WorkerType, SetRunning
<1>3. PICK j \in JobRow : j = jobs[i]
  BY <1>1, <1>2, LenProperties DEF JobsType
<1>4. [j EXCEPT !.status = "running"] = Run(j) /\ Run(j) \in JobRow
  <2>1. [j EXCEPT !.status = "running"] = Run(j)
    BY JobIs DEF Run, JobOf
  <2>2. Run(j) \in JobRow
    BY JobIs, JobTyped DEF Run
  <2> QED
    BY <2>1, <2>2
<1>5. jobs' = [jobs EXCEPT ![i] = Run(j)]
  <2>1. jobs' = [jobs EXCEPT ![i].status = "running"]
    BY <1>2 DEF SetRunning
  <2>2. jobs' = [jobs EXCEPT ![i] = [j EXCEPT !.status = "running"]]
    BY <1>2, <1>3, <2>1
  <2> QED
    BY <1>4, <2>2
<1>6. JobsType'
  BY <1>1, <1>4, <1>5, JobsWritten DEF SetRunning, Store
<1>7. DOMAIN jobs' = DOMAIN jobs
  BY <1>1, <1>4, <1>5, JobSet DEF JobsType
<1>8. StoreType' /\ Grown
  BY <1>1, <1>7, StoreKept DEF SetRunning, Store, Grown
<1>9. Stepped(w, "load", work[w])
  BY <1>1, HoldsOn DEF Stepped, SetRunning
<1>10. WorkersType'
  <2>1. PICK k \in Slices : k = work[w]
    BY <1>1 DEF WorkerType
  <2>2. /\ k.job \in DOMAIN jobs' /\ k.snap \in JobRow
        /\ \A x \in DOMAIN k.rows : k.rows[x] \in DOMAIN mark'
        /\ k.known \subseteq DOMAIN crm'
    BY <1>1, <1>7, <1>8, <2>1 DEF WorkerType, Grown, SetRunning, Store
  <2> QED
    BY <1>1, <1>8, <1>9, <2>1, <2>2, BusyWorker DEF Steps
<1> QED
  BY <1>2, <1>3, <1>4, <1>5, <1>6, <1>8, <1>9, <1>10 DEF ImpType

(* The rows a slice loads.                                                 *)
LEMMA LoadedRows ==
    ASSUME StoreType, NEW from \in Nat
    PROVE  /\ loadRows(from) \in Seq(Nat) /\ Len(loadRows(from)) \in Nat
           /\ DOMAIN loadRows(from) = 1..Len(loadRows(from))
           /\ \A i \in DOMAIN loadRows(from) : loadRows(from)[i] = from + i /\ from + i \in 1..staged
           /\ from <= staged => from + Len(loadRows(from)) <= staged
           /\ Len(loadRows(from)) = 0 => from >= staged
<1>1. PICK s \in Nat : s = staged
  BY DEF StoreType
<1>2. PICK n \in Nat : /\ n = IF s <= from THEN 0 ELSE IF s - from < Slice THEN s - from ELSE Slice
  BY <1>1, ImportsAssumption
<1>3. 1..(IF s - from < Slice THEN s - from ELSE Slice) = 1..n
  BY <1>1, <1>2, ImportsAssumption
<1>4. loadRows(from) = [i \in 1..n |-> from + i]
  BY <1>1, <1>3 DEF loadRows
<1>5. loadRows(from) \in [1..n -> Nat]
  BY <1>4
<1>6. loadRows(from) \in Seq(Nat) /\ Len(loadRows(from)) = n
  <2>1. loadRows(from) \in Seq(Nat)
    BY <1>5
  <2> QED
    BY <1>5, <2>1, LenProperties
<1>7. \A i \in 1..n : loadRows(from)[i] = from + i /\ from + i \in 1..staged
  BY <1>1, <1>2, <1>4, ImportsAssumption
<1>8. from <= staged => from + n <= staged
  BY <1>1, <1>2, ImportsAssumption
<1>9. n = 0 => from >= staged
  BY <1>1, <1>2, ImportsAssumption
<1> QED
  BY <1>5, <1>6, <1>7, <1>8, <1>9

Loaded(k, rows, known) ==
    SliceOf(k.job, k.snap, rows, Len(rows), known, k.ingest, k.created, k.updated, k.held, k.failed)

LEMMA LoadTyped ==
    ASSUME ImpType, NEW w \in Workers, LoadSlice(w)
    PROVE  /\ ImpType' /\ work[w].snap \in JobRow
           /\ Stepped(w, "rows", Loaded(work[w], loadRows(work[w].snap.cursor), DOMAIN crm))
<1>1. StoreType /\ JobsType /\ WorkersType /\ WorkerType(w)
  BY DEF ImpType, WorkersType
<1>2. StoreType' /\ Grown
  BY <1>1, StoreKept, GrownSame DEF LoadSlice, Store
<1>3. JobsType'
  BY <1>1 DEF LoadSlice, Store, JobsType, MappingType
<1>4. PICK k \in Slices : k = work[w] /\ k.snap \in JobRow /\ k.job \in DOMAIN jobs
  BY <1>1 DEF WorkerType, LoadSlice
<1>5. PICK rows \in Seq(Nat) : rows = loadRows(k.snap.cursor) /\ \A i \in DOMAIN rows : rows[i] \in 1..staged
  <2>1. PICK c \in Nat : c = k.snap.cursor
    BY <1>4, JobIs
  <2>2. /\ loadRows(c) \in Seq(Nat)
        /\ \A i \in DOMAIN loadRows(c) : loadRows(c)[i] = c + i /\ c + i \in 1..staged
    BY <1>1, <2>1, LoadedRows
  <2> QED
    BY <2>1, <2>2
<1>6. Len(rows) \in Nat
  BY LenProperties
<1>7. PICK known \in SUBSET Nat : known = DOMAIN crm
  BY <1>1 DEF JobsType, Recorded
<1>8. [k EXCEPT !.known = known, !.rows = rows, !.loaded = Len(rows)] = Loaded(k, rows, known)
  <2>1. PICK n : n = Len(rows)
    OBVIOUS
  <2>2. k = SliceOf(k.job, k.snap, k.rows, k.loaded, k.known, k.ingest, k.created, k.updated, k.held, k.failed)
    BY SliceIs
  <2>3. PICK a1, a2, a3, a4, a5, a6, a7, a8, a9, a10 :
            k = [job |-> a1, snap |-> a2, rows |-> a3, loaded |-> a4, known |-> a5, ingest |-> a6,
                 created |-> a7, updated |-> a8, held |-> a9, failed |-> a10]
    BY <2>2 DEF SliceOf
  <2>4. PICK x : x = [k EXCEPT !.known = known]
    OBVIOUS
  <2>5. x = [job |-> a1, snap |-> a2, rows |-> a3, loaded |-> a4, known |-> known, ingest |-> a6,
             created |-> a7, updated |-> a8, held |-> a9, failed |-> a10]
    BY <2>3, <2>4
  <2>6. PICK y : y = [x EXCEPT !.rows = rows]
    OBVIOUS
  <2>7. y = [job |-> a1, snap |-> a2, rows |-> rows, loaded |-> a4, known |-> known, ingest |-> a6,
             created |-> a7, updated |-> a8, held |-> a9, failed |-> a10]
    BY <2>5, <2>6
  <2>8. [y EXCEPT !.loaded = n]
          = [job |-> a1, snap |-> a2, rows |-> rows, loaded |-> n, known |-> known, ingest |-> a6,
             created |-> a7, updated |-> a8, held |-> a9, failed |-> a10]
    BY <2>7
  <2>9. [k EXCEPT !.known = known, !.rows = rows, !.loaded = Len(rows)] = [y EXCEPT !.loaded = n]
    BY <2>1, <2>4, <2>6
  <2> QED
    BY <2>1, <2>3, <2>8, <2>9 DEF Loaded, SliceOf
<1>9. Stepped(w, "rows", Loaded(k, rows, known))
  <2>1. work' = [work EXCEPT ![w].known = known, ![w].rows = rows, ![w].loaded = Len(rows)]
    BY <1>4, <1>5, <1>7 DEF LoadSlice
  <2>2. work' = [work EXCEPT ![w] = [k EXCEPT !.known = known, !.rows = rows, !.loaded = Len(rows)]]
    <3>1. w \in DOMAIN work
      BY <1>1, WorkAt
    <3> QED
      BY <1>4, <2>1, <3>1
  <2> QED
    BY <1>8, <2>2 DEF Stepped, LoadSlice
<1>10. Loaded(k, rows, known) \in Slices
  BY <1>4, <1>6, SliceIs, SliceTyped DEF Loaded
<1>11. /\ Loaded(k, rows, known).job = k.job /\ Loaded(k, rows, known).snap = k.snap
       /\ Loaded(k, rows, known).rows = rows /\ Loaded(k, rows, known).known = known
  BY DEF Loaded, SliceOf
<1>12. /\ k.job \in DOMAIN jobs' /\ known \subseteq DOMAIN crm'
       /\ \A i \in DOMAIN rows : rows[i] \in DOMAIN mark'
  <2>1. DOMAIN mark = 1..staged
    BY <1>1 DEF StoreType
  <2> QED
    BY <1>4, <1>5, <1>7, <2>1 DEF LoadSlice, Store
<1>13. WorkersType'
  BY <1>1, <1>2, <1>4, <1>9, <1>10, <1>11, <1>12, BusyWorker DEF Steps
<1> QED
  BY <1>2, <1>3, <1>4, <1>5, <1>7, <1>9, <1>13 DEF ImpType

(* A row is taken from the slice and counted.                              *)
Tally(n, field, f) == IF field = f THEN n + 1 ELSE n

RowMoved(k, field, known) ==
    SliceOf(k.job, k.snap, Tail(k.rows), k.loaded, known, k.ingest, Tally(k.created, field, "created"),
            Tally(k.updated, field, "updated"), Tally(k.held, field, "held"),
            Tally(k.failed, field, "failed"))

Outcomes == {"held", "created", "updated", "failed"}

LEMMA CountMoved ==
    ASSUME NEW k \in Slices, NEW field \in Outcomes, NEW known
    PROVE  /\ Count([k EXCEPT !.rows = Tail(@)], field) = RowMoved(k, field, k.known)
           /\ [Count([k EXCEPT !.rows = Tail(@)], field) EXCEPT !.known = known] = RowMoved(k, field, known)
<1>1. PICK a1, a2, a3, a4, a5, a6, a7, a8, a9, a10 :
          k = [job |-> a1, snap |-> a2, rows |-> a3, loaded |-> a4, known |-> a5, ingest |-> a6,
               created |-> a7, updated |-> a8, held |-> a9, failed |-> a10]
  BY SliceIs DEF SliceOf
<1>2. PICK rest : rest = Tail(k.rows)
  OBVIOUS
<1>3. PICK x : x = [k EXCEPT !.rows = Tail(@)]
  OBVIOUS
<1>4. x = [job |-> a1, snap |-> a2, rows |-> rest, loaded |-> a4, known |-> a5, ingest |-> a6,
           created |-> a7, updated |-> a8, held |-> a9, failed |-> a10]
  <2>1. x = [k EXCEPT !.rows = rest]
    BY <1>2, <1>3
  <2> QED
    BY <1>1, <2>1
<1>5. PICK y : y = Count(x, field)
  OBVIOUS
<1>6. y = [job |-> a1, snap |-> a2, rows |-> rest, loaded |-> a4, known |-> a5, ingest |-> a6,
           created |-> Tally(a7, field, "created"), updated |-> Tally(a8, field, "updated"),
           held |-> Tally(a9, field, "held"), failed |-> Tally(a10, field, "failed")]
  <2>1. y = [x EXCEPT ![field] = @ + 1]
    BY <1>5 DEF Count
  <2>2. CASE field = "held"
    <3>1. y = [x EXCEPT !["held"] = a9 + 1]
      BY <1>4, <2>1, <2>2
    <3> QED
      BY <1>4, <2>2, <3>1 DEF Tally
  <2>3. CASE field = "created"
    <3>1. y = [x EXCEPT !["created"] = a7 + 1]
      BY <1>4, <2>1, <2>3
    <3> QED
      BY <1>4, <2>3, <3>1 DEF Tally
  <2>4. CASE field = "updated"
    <3>1. y = [x EXCEPT !["updated"] = a8 + 1]
      BY <1>4, <2>1, <2>4
    <3> QED
      BY <1>4, <2>4, <3>1 DEF Tally
  <2>5. CASE field = "failed"
    <3>1. y = [x EXCEPT !["failed"] = a10 + 1]
      BY <1>4, <2>1, <2>5
    <3> QED
      BY <1>4, <2>5, <3>1 DEF Tally
  <2> QED
    BY <2>2, <2>3, <2>4, <2>5 DEF Outcomes
<1>7. y = RowMoved(k, field, k.known)
  BY <1>1, <1>2, <1>6 DEF RowMoved, SliceOf
<1>8. [y EXCEPT !.known = known] = RowMoved(k, field, known)
  <2>1. PICK b7, b8, b9, b10 : /\ b7 = Tally(a7, field, "created") /\ b8 = Tally(a8, field, "updated")
                               /\ b9 = Tally(a9, field, "held") /\ b10 = Tally(a10, field, "failed")
    OBVIOUS
  <2>2. y = [job |-> a1, snap |-> a2, rows |-> rest, loaded |-> a4, known |-> a5, ingest |-> a6,
             created |-> b7, updated |-> b8, held |-> b9, failed |-> b10]
    BY <1>6, <2>1
  <2>3. [y EXCEPT !.known = known]
          = [job |-> a1, snap |-> a2, rows |-> rest, loaded |-> a4, known |-> known, ingest |-> a6,
             created |-> b7, updated |-> b8, held |-> b9, failed |-> b10]
    BY <2>2
  <2> QED
    BY <1>1, <1>2, <2>1, <2>3 DEF RowMoved, SliceOf
<1> QED
  BY <1>3, <1>5, <1>7, <1>8

LEMMA MovedTyped ==
    ASSUME NEW k \in Slices, NEW field \in Outcomes, NEW known \in SUBSET Nat, k.rows # <<>>
    PROVE  /\ RowMoved(k, field, known) \in Slices
           /\ Head(k.rows) \in Nat /\ Len(k.rows) \in Nat \ {0} /\ Head(k.rows) = k.rows[1]
           /\ Tail(k.rows) \in Seq(Nat) /\ Len(Tail(k.rows)) = Len(k.rows) - 1
           /\ DOMAIN k.rows = 1..Len(k.rows) /\ DOMAIN Tail(k.rows) = 1..(Len(k.rows) - 1)
           /\ \A i \in DOMAIN Tail(k.rows) : Tail(k.rows)[i] = k.rows[i + 1] /\ i + 1 \in DOMAIN k.rows
           /\ 1 \in DOMAIN k.rows
<1>1. k.rows \in Seq(Nat)
  BY SliceIs
<1>2. PICK s \in Seq(Nat) : s = k.rows
  BY <1>1
<1>3. /\ Tail(s) \in Seq(Nat) /\ Len(Tail(s)) = Len(s) - 1
      /\ \A i \in 1..Len(Tail(s)) : Tail(s)[i] = s[i + 1]
  BY <1>2, HeadTailProperties
<1>4. Len(s) \in Nat \ {0} /\ DOMAIN s = 1..Len(s)
  BY <1>2, EmptySeq, LenProperties
<1>5. DOMAIN Tail(s) = 1..(Len(s) - 1)
  BY <1>3, LenProperties
<1>6. Head(s) = s[1] /\ Head(s) \in Nat
  BY <1>2, <1>4, LenProperties
<1>7. \A i \in DOMAIN Tail(s) : Tail(s)[i] = s[i + 1] /\ i + 1 \in DOMAIN s
  BY <1>3, <1>4, <1>5
<1>8. RowMoved(k, field, known) \in Slices
  <2>1. PICK c, u, h, f \in Nat : /\ c = Tally(k.created, field, "created")
                                  /\ u = Tally(k.updated, field, "updated")
                                  /\ h = Tally(k.held, field, "held") /\ f = Tally(k.failed, field, "failed")
    BY SliceIs DEF Tally
  <2>2. Tail(k.rows) \in Seq(Nat)
    BY <1>2, <1>3
  <2>3. SliceOf(k.job, k.snap, Tail(k.rows), k.loaded, known, k.ingest, c, u, h, f) \in Slices
    BY <2>2, SliceIs, SliceTyped
  <2> QED
    BY <2>1, <2>3 DEF RowMoved
<1> QED
  BY <1>2, <1>3, <1>4, <1>5, <1>6, <1>7, <1>8

(* What is set on the row, and what is counted for it.                     *)
Fate(w, s, field) ==
    \/ s = "held" /\ field = "held" /\ HeldBack(w, Head(work[w].rows))
    \/ s = "imported" /\ field \in {"created", "updated"}
    \/ s = "skipped" /\ field \in {"held", "failed"}

RowTaken(w) ==
    /\ wpc[w] \in {"rows", "flush"} /\ work[w].rows # <<>> /\ Head(work[w].rows) \in DOMAIN mark
    /\ \E s \in ImportRowStatus, field \in Outcomes, known \in SUBSET Nat :
         /\ Fate(w, s, field)
         /\ mark' = [mark EXCEPT ![Head(work[w].rows)] = s]
         /\ Stepped(w, wpc[w], RowMoved(work[w], field, known))
         /\ known \subseteq DOMAIN crm'
         /\ work[w].known = DOMAIN crm => known = DOMAIN crm'
    /\ Recorded(crm') /\ DOMAIN crm \subseteq DOMAIN crm'
    /\ work[w].known = DOMAIN crm /\ KeysApart(crm) => KeysApart(crm')

LEMMA RowFacts ==
    ASSUME ImpType, NEW w \in Workers, SliceRow(w) \/ SliceRowFails(w)
    PROVE  RowTaken(w)
<1>1. StoreType /\ JobsType /\ WorkersType /\ WorkerType(w)
  BY DEF ImpType, WorkersType
<1>2. wpc[w] \in {"rows", "flush"} /\ work[w].rows # <<>>
  BY DEF SliceRow, SliceRowFails
<1>3. PICK k \in Slices : k = work[w] /\ k.job \in DOMAIN jobs /\ k.known \subseteq DOMAIN crm
  BY <1>1, <1>2 DEF WorkerType
<1>4. k.known \in SUBSET Nat
  BY SliceIs
<1>5. PICK r \in DOMAIN mark : r = Head(work[w].rows)
  <2>1. Head(k.rows) = k.rows[1] /\ 1 \in DOMAIN k.rows
    BY <1>2, <1>3, <1>4, MovedTyped DEF Outcomes
  <2> QED
    BY <1>1, <1>3, <2>1 DEF WorkerType
<1>6. wpc' = wpc => wpc' = [wpc EXCEPT ![w] = wpc[w]]
  BY <1>1, StaysPut
<1>7. Recorded(crm)
  BY <1>1 DEF JobsType
<1>8. CASE SliceRow(w) /\ HeldBack(w, r)
  <2>1. /\ mark' = [mark EXCEPT ![r] = "held"] /\ wpc' = wpc /\ crm' = crm
        /\ work' = [work EXCEPT ![w] = Count([k EXCEPT !.rows = Tail(@)], "held")]
    BY <1>3, <1>5, <1>8 DEF SliceRow
  <2>2. work' = [work EXCEPT ![w] = RowMoved(k, "held", k.known)]
    BY <2>1, CountMoved DEF Outcomes
  <2>3. Stepped(w, wpc[w], RowMoved(work[w], "held", k.known))
    BY <1>3, <1>6, <2>1, <2>2 DEF Stepped
  <2>4. Fate(w, "held", "held")
    BY <1>5, <1>8 DEF Fate
  <2>5. "held" \in ImportRowStatus /\ "held" \in Outcomes
    BY DEF ImportRowStatus, Outcomes
  <2> QED
    BY <1>2, <1>3, <1>4, <1>5, <1>7, <2>1, <2>3, <2>4, <2>5 DEF RowTaken
<1>9. CASE SliceRow(w) /\ ~HeldBack(w, r)
  <2>1. PICK res : res = resolveRow(w, r)
    OBVIOUS
  <2>2. mapping # NoMapping
    BY <1>3, LenProperties DEF JobsType, MappingType, ImpType
  <2>3. KeysMapped(mapping.spec)
    BY <1>1, <2>2 DEF JobsType, MappingType
  <2>4. Extends(Begun(w), res) /\ res.outcome \in {"held", "created", "updated"}
    BY <1>3, <1>7, <2>1, <2>3, ResolveExtends
  <2>5. /\ Recorded(res.crm) /\ res.known \subseteq DOMAIN res.crm /\ DOMAIN crm \subseteq DOMAIN res.crm
        /\ k.known = DOMAIN crm => res.known = DOMAIN res.crm
        /\ k.known = DOMAIN crm /\ KeysApart(crm) => KeysApart(res.crm)
    BY <1>3, <2>4 DEF Extends, Sound, Begun
  <2>6. PICK s \in {"skipped", "imported"} : s = IF res.outcome = "held" THEN "skipped" ELSE "imported"
    OBVIOUS
  <2>7. PICK field \in {"held", "created", "updated"} : field = res.outcome
    BY <2>4
  <2>8. PICK known : known = res.known
    OBVIOUS
  <2>9. known \in SUBSET Nat
    BY <2>5, <2>8 DEF Recorded
  <2>10. /\ mark' = [mark EXCEPT ![r] = s] /\ wpc' = wpc /\ crm' = res.crm
         /\ work' = [work EXCEPT ![w] = [Count([k EXCEPT !.rows = Tail(@)], field) EXCEPT !.known = known]]
    BY <1>3, <1>5, <1>9, <2>1, <2>6, <2>7, <2>8 DEF SliceRow
  <2>11. field \in Outcomes /\ s \in ImportRowStatus
    BY DEF Outcomes, ImportRowStatus
  <2>12. work' = [work EXCEPT ![w] = RowMoved(k, field, known)]
    <3>1. [Count([k EXCEPT !.rows = Tail(@)], field) EXCEPT !.known = known] = RowMoved(k, field, known)
      <4>1. PICK f \in Outcomes : f = field
        BY <2>11
      <4>2. [Count([k EXCEPT !.rows = Tail(@)], f) EXCEPT !.known = known] = RowMoved(k, f, known)
        BY CountMoved
      <4> QED
        BY <4>1, <4>2
    <3> QED
      BY <2>10, <3>1
  <2>13. Stepped(w, wpc[w], RowMoved(work[w], field, known))
    BY <1>3, <1>6, <2>10, <2>12 DEF Stepped
  <2>14. Fate(w, s, field)
    BY <2>6, <2>7 DEF Fate
  <2> QED
    BY <1>2, <1>3, <1>5, <2>5, <2>8, <2>9, <2>10, <2>11, <2>13, <2>14 DEF RowTaken
<1>10. CASE SliceRowFails(w)
  <2>1. /\ mark' = [mark EXCEPT ![r] = "skipped"] /\ wpc' = wpc /\ crm' = crm
        /\ work' = [work EXCEPT ![w] = Count([work[w] EXCEPT !.rows = Tail(@)], "failed")]
    BY <1>5, <1>10 DEF SliceRowFails
  <2>2. work' = [work EXCEPT ![w] = RowMoved(k, "failed", k.known)]
    BY <1>3, <2>1, CountMoved DEF Outcomes
  <2>3. Stepped(w, wpc[w], RowMoved(work[w], "failed", k.known))
    BY <1>3, <1>6, <2>1, <2>2 DEF Stepped
  <2>4. Fate(w, "skipped", "failed")
    BY DEF Fate
  <2>5. "skipped" \in ImportRowStatus /\ "failed" \in Outcomes
    BY DEF ImportRowStatus, Outcomes
  <2> QED
    BY <1>2, <1>3, <1>4, <1>5, <1>7, <2>1, <2>3, <2>4, <2>5 DEF RowTaken
<1> QED
  BY <1>8, <1>9, <1>10

LEMMA RowTyped ==
    ASSUME ImpType, NEW w \in Workers, SliceRow(w) \/ SliceRowFails(w)
    PROVE  ImpType'
<1>1. StoreType /\ JobsType /\ WorkersType /\ WorkerType(w) /\ RowTaken(w)
  BY RowFacts DEF ImpType, WorkersType
<1>2. /\ UNCHANGED <<sheet, staged, batch, mapping, jobs, review, sliceRaced>>
      /\ spent' = spent \/ spent' = [spent EXCEPT !.failures = @ + 1]
  BY DEF SliceRow, SliceRowFails
<1>3. PICK s \in ImportRowStatus, field \in Outcomes, known \in SUBSET Nat :
        /\ mark' = [mark EXCEPT ![Head(work[w].rows)] = s]
        /\ Stepped(w, wpc[w], RowMoved(work[w], field, known))
        /\ known \subseteq DOMAIN crm'
  BY <1>1 DEF RowTaken
<1>4. /\ wpc[w] \in {"rows", "flush"} /\ work[w].rows # <<>> /\ Head(work[w].rows) \in DOMAIN mark
      /\ Recorded(crm') /\ DOMAIN crm \subseteq DOMAIN crm'
  BY <1>1 DEF RowTaken
<1>5. StoreType'
  <2>1. PICK r \in DOMAIN mark : r = Head(work[w].rows)
    BY <1>4
  <2>2. mark' = [mark EXCEPT ![r] = s]
    BY <1>3, <2>1
  <2> QED
    BY <1>1, <1>2, <2>2, MarkStaged
<1>6. DOMAIN mark' = DOMAIN mark
  BY <1>3
<1>7. Grown
  BY <1>2, <1>4, <1>6 DEF Grown
<1>8. JobsType'
  <2>1. spent' \in [failures : Nat, cutoffs : Nat]
    BY <1>1, <1>2 DEF JobsType
  <2> QED
    BY <1>1, <1>2, <1>4, <2>1 DEF JobsType, MappingType
<1>9. WorkersType'
  <2>1. PICK k \in Slices : k = work[w] /\ k.job \in DOMAIN jobs /\ k.snap \in JobRow
                            /\ \A i \in DOMAIN k.rows : k.rows[i] \in DOMAIN mark
    BY <1>1, <1>4 DEF WorkerType
  <2>2. /\ RowMoved(k, field, known) \in Slices
        /\ \A i \in DOMAIN Tail(k.rows) : Tail(k.rows)[i] = k.rows[i + 1] /\ i + 1 \in DOMAIN k.rows
    BY <1>4, <2>1, MovedTyped
  <2>3. /\ RowMoved(k, field, known).job = k.job /\ RowMoved(k, field, known).snap = k.snap
        /\ RowMoved(k, field, known).rows = Tail(k.rows) /\ RowMoved(k, field, known).known = known
    BY DEF RowMoved, SliceOf
  <2>4. \A i \in DOMAIN Tail(k.rows) : Tail(k.rows)[i] \in DOMAIN mark'
    BY <1>6, <2>1, <2>2
  <2>5. PICK p \in Steps : p = wpc[w]
    BY <1>1 DEF WorkerType
  <2>6. PICK m \in Slices : m = RowMoved(k, field, known)
    BY <2>2
  <2>7. Stepped(w, p, m)
    BY <1>3, <2>1, <2>5, <2>6
  <2>8. /\ m.job \in DOMAIN jobs' /\ m.snap \in JobRow /\ m.known \subseteq DOMAIN crm'
        /\ \A i \in DOMAIN m.rows : m.rows[i] \in DOMAIN mark'
    BY <1>2, <1>3, <2>1, <2>3, <2>4, <2>6
  <2> QED
    BY <1>1, <1>7, <2>7, <2>8, BusyWorker
<1> QED
  BY <1>5, <1>8, <1>9 DEF ImpType

(* The counters as FinishSlice and FinishFlush write them.                 *)
SliceDone(j, k) ==
    JobOf(IF CursorAfter(j, k) >= k.snap.total \/ k.loaded = 0 THEN "done" ELSE "queued",
          k.snap.cursor + k.loaded, j.total, k.snap.created + k.created, k.snap.updated + k.updated,
          k.snap.held + k.held, k.snap.failed + k.failed, j.minConfidence, j.ready)

FlushDone(j, k) ==
    JobOf(j.status, j.cursor, j.total, k.snap.created + k.created, k.snap.updated + k.updated,
          IF k.created + k.updated < k.snap.held THEN k.snap.held - (k.created + k.updated) ELSE 0,
          j.failed, j.minConfidence, j.ready)

LEMMA FinishWrites ==
    ASSUME ImpType, NEW w \in Workers, FinishSlice(w)
    PROVE  /\ work[w].job \in DOMAIN jobs /\ jobs[work[w].job] \in JobRow /\ work[w].snap \in JobRow
           /\ SliceDone(jobs[work[w].job], work[w]) \in JobRow
           /\ jobs' = [jobs EXCEPT ![work[w].job] = SliceDone(jobs[work[w].job], work[w])]
<1>1. StoreType /\ JobsType /\ WorkersType /\ WorkerType(w)
  BY DEF ImpType, WorkersType
<1>2. PICK k \in Slices : k = work[w] /\ k.job \in DOMAIN jobs /\ k.snap \in JobRow
  BY <1>1 DEF WorkerType, FinishSlice
<1>3. PICK i \in DOMAIN jobs : i = k.job
  BY <1>2
<1>4. PICK j \in JobRow : j = jobs[i]
  BY <1>1, LenProperties DEF JobsType
<1>5. PICK done : done = (CursorAfter(j, k) >= k.snap.total \/ k.loaded = 0)
  OBVIOUS
<1>6. PICK c, a, b, d, e : /\ c = k.snap.cursor + k.loaded /\ a = k.snap.created + k.created
                           /\ b = k.snap.updated + k.updated /\ d = k.snap.held + k.held
                           /\ e = k.snap.failed + k.failed
  OBVIOUS
<1>7. c \in Nat /\ a \in Nat /\ b \in Nat /\ d \in Nat /\ e \in Nat
  <2>1. PICK s \in JobRow : s = k.snap
    BY <1>2
  <2>2. /\ s.cursor \in Nat /\ s.created \in Nat /\ s.updated \in Nat /\ s.held \in Nat /\ s.failed \in Nat
    BY JobIs
  <2>3. k.loaded \in Nat /\ k.created \in Nat /\ k.updated \in Nat /\ k.held \in Nat /\ k.failed \in Nat
    BY SliceIs
  <2> QED
    BY <1>6, <2>1, <2>2, <2>3
<1>8. PICK status \in {"done", "queued"} : status = IF done THEN "done" ELSE "queued"
  OBVIOUS
<1>9. SliceDone(j, k) = JobOf(status, c, j.total, a, b, d, e, j.minConfidence, j.ready)
  BY <1>5, <1>6, <1>8 DEF SliceDone
<1>10. SliceDone(j, k) \in JobRow
  <2>1. j.total \in Nat /\ j.minConfidence \in 0..10 /\ j.ready \in BOOLEAN
    BY JobIs
  <2>2. JobOf(status, c, j.total, a, b, d, e, j.minConfidence, j.ready) \in JobRow
    BY <1>7, <2>1, JobTyped
  <2> QED
    BY <1>9, <2>2
<1>11. PICK x : x = [j EXCEPT !.cursor = c, !.created = a, !.updated = b, !.held = d, !.failed = e, !.status = status]
  OBVIOUS
<1>12. x = JobOf(status, c, j.total, a, b, d, e, j.minConfidence, j.ready)
  <2>1. PICK b1, b2, b3, b4, b5, b6, b7, b8, b9 :
          j = [status |-> b1, cursor |-> b2, total |-> b3, created |-> b4, updated |-> b5,
               held |-> b6, failed |-> b7, minConfidence |-> b8, ready |-> b9]
    BY JobIs DEF JobOf
  <2>2. DOMAIN x = DOMAIN j
    BY <1>11
  <2>3. /\ x.status = status /\ x.cursor = c /\ x.total = b3 /\ x.created = a /\ x.updated = b
        /\ x.held = d /\ x.failed = e /\ x.minConfidence = b8 /\ x.ready = b9
    BY <1>11, <2>1
  <2>4. x = [status |-> x.status, cursor |-> x.cursor, total |-> x.total, created |-> x.created,
             updated |-> x.updated, held |-> x.held, failed |-> x.failed,
             minConfidence |-> x.minConfidence, ready |-> x.ready]
    BY <1>11, <2>1
  <2> QED
    BY <2>1, <2>3, <2>4 DEF JobOf
<1>13. jobs' = [jobs EXCEPT ![i] = x]
  <2>1. PICK z : z = CursorAfter(jobs[i], k)
    OBVIOUS
  <2>2. z = c /\ done = (z >= k.snap.total \/ k.loaded = 0)
    BY <1>4, <1>5, <1>6, <2>1 DEF CursorAfter
  <2>3. jobs' = [jobs EXCEPT ![i] =
                   [@ EXCEPT !.cursor = c, !.created = a, !.updated = b, !.held = d, !.failed = e,
                             !.status = status]]
    BY <1>2, <1>3, <1>6, <1>8, <2>1, <2>2 DEF FinishSlice
  <2> QED
    BY <1>4, <1>11, <2>3
<1> QED
  BY <1>2, <1>3, <1>4, <1>9, <1>10, <1>12, <1>13

LEMMA FlushWrites ==
    ASSUME ImpType, NEW w \in Workers, FinishFlush(w)
    PROVE  /\ work[w].job \in DOMAIN jobs /\ jobs[work[w].job] \in JobRow /\ work[w].snap \in JobRow
           /\ FlushDone(jobs[work[w].job], work[w]) \in JobRow
           /\ jobs' = [jobs EXCEPT ![work[w].job] = FlushDone(jobs[work[w].job], work[w])]
<1>1. StoreType /\ JobsType /\ WorkersType /\ WorkerType(w)
  BY DEF ImpType, WorkersType
<1>2. PICK k \in Slices : k = work[w] /\ k.job \in DOMAIN jobs /\ k.snap \in JobRow
  BY <1>1 DEF WorkerType, FinishFlush
<1>3. PICK i \in DOMAIN jobs : i = k.job
  BY <1>2
<1>4. PICK j \in JobRow : j = jobs[i]
  BY <1>1, LenProperties DEF JobsType
<1>5. PICK a, b, d \in Nat : /\ a = k.snap.created + k.created /\ b = k.snap.updated + k.updated
                             /\ d = IF k.created + k.updated < k.snap.held
                                    THEN k.snap.held - (k.created + k.updated) ELSE 0
  <2>1. PICK s \in JobRow : s = k.snap
    BY <1>2
  <2>2. /\ s.cursor \in Nat /\ s.created \in Nat /\ s.updated \in Nat /\ s.held \in Nat /\ s.failed \in Nat
    BY JobIs
  <2>3. k.loaded \in Nat /\ k.created \in Nat /\ k.updated \in Nat /\ k.held \in Nat /\ k.failed \in Nat
    BY SliceIs
  <2> QED
    BY <2>1, <2>2, <2>3
<1>6. FlushDone(j, k) = JobOf(j.status, j.cursor, j.total, a, b, d, j.failed, j.minConfidence, j.ready)
  BY <1>5 DEF FlushDone
<1>7. FlushDone(j, k) \in JobRow
  <2>1. /\ j.status \in {"queued", "running", "done", "failed"} /\ j.cursor \in Nat /\ j.total \in Nat
        /\ j.failed \in Nat /\ j.minConfidence \in 0..10 /\ j.ready \in BOOLEAN
    BY JobIs
  <2>2. JobOf(j.status, j.cursor, j.total, a, b, d, j.failed, j.minConfidence, j.ready) \in JobRow
    BY <2>1, JobTyped
  <2> QED
    BY <1>6, <2>2
<1>8. PICK x : x = [j EXCEPT !.created = a, !.updated = b, !.held = d]
  OBVIOUS
<1>9. x = JobOf(j.status, j.cursor, j.total, a, b, d, j.failed, j.minConfidence, j.ready)
  <2>1. PICK b1, b2, b3, b4, b5, b6, b7, b8, b9 :
          j = [status |-> b1, cursor |-> b2, total |-> b3, created |-> b4, updated |-> b5,
               held |-> b6, failed |-> b7, minConfidence |-> b8, ready |-> b9]
    BY JobIs DEF JobOf
  <2>2. /\ x.status = b1 /\ x.cursor = b2 /\ x.total = b3 /\ x.created = a /\ x.updated = b
        /\ x.held = d /\ x.failed = b7 /\ x.minConfidence = b8 /\ x.ready = b9
    BY <1>8, <2>1
  <2>3. x = [status |-> x.status, cursor |-> x.cursor, total |-> x.total, created |-> x.created,
             updated |-> x.updated, held |-> x.held, failed |-> x.failed,
             minConfidence |-> x.minConfidence, ready |-> x.ready]
    BY <1>8, <2>1
  <2> QED
    BY <2>1, <2>2, <2>3 DEF JobOf
<1>10. jobs' = [jobs EXCEPT ![i] = x]
  <2>1. jobs' = [jobs EXCEPT ![i] = [@ EXCEPT !.created = a, !.updated = b, !.held = d]]
    BY <1>2, <1>3, <1>5 DEF FinishFlush
  <2> QED
    BY <1>4, <1>8, <2>1
<1> QED
  BY <1>2, <1>3, <1>4, <1>6, <1>7, <1>9, <1>10

(* A worker that leaves a slice behind holds nothing.                      *)
LEMMA FinishTyped ==
    ASSUME ImpType, NEW w \in Workers, FinishSlice(w) \/ FinishFlush(w)
    PROVE  /\ ImpType' /\ wpc'[w] \in {"idle", "review"} /\ OnlyOne(w)
           /\ \A i \in DOMAIN jobs : jobs'[i] = IF i = work[w].job THEN jobs'[work[w].job] ELSE jobs[i]
           /\ DOMAIN jobs' = DOMAIN jobs
<1>1. StoreType /\ JobsType /\ WorkersType
  BY DEF ImpType
<1>2. PICK i \in DOMAIN jobs, j \in JobRow : i = work[w].job /\ jobs' = [jobs EXCEPT ![i] = j]
  <2>1. CASE FinishSlice(w)
    BY <2>1, FinishWrites
  <2>2. CASE FinishFlush(w)
    BY <2>2, FlushWrites
  <2> QED
    BY <2>1, <2>2
<1>3. JobsType'
  BY <1>1, <1>2, JobsWritten DEF FinishSlice, FinishFlush, Store
<1>4. DOMAIN jobs' = DOMAIN jobs /\ \A x \in DOMAIN jobs : x # i => jobs'[x] = jobs[x]
  BY <1>1, <1>2, JobSet DEF JobsType
<1>5. StoreType' /\ Grown
  BY <1>1, <1>4, StoreKept DEF FinishSlice, FinishFlush, Store, Grown
<1>6. PICK p \in {"idle", "review"} : Stepped(w, p, JobSlice(0, FALSE))
  <2>1. \E p \in {"idle", "review"} : wpc' = [wpc EXCEPT ![w] = p]
    BY DEF FinishSlice, FinishFlush
  <2>2. work' = [work EXCEPT ![w] = JobSlice(0, FALSE)]
    BY JobSlices DEF FinishSlice, FinishFlush
  <2> QED
    BY <2>1, <2>2 DEF Stepped
<1>7. WorkersType'
  BY <1>1, <1>5, <1>6, FreshWorker DEF JobSlice
<1>8. OnlyOne(w) /\ wpc'[w] = p
  BY <1>1, <1>6, SteppedOne
<1>9. \A x \in DOMAIN jobs : jobs'[x] = IF x = work[w].job THEN jobs'[work[w].job] ELSE jobs[x]
  BY <1>2, <1>4
<1>10. ImpType'
  BY <1>3, <1>5, <1>7 DEF ImpType
<1>11. wpc'[w] \in {"idle", "review"}
  BY <1>8
<1> QED
  BY <1>4, <1>8, <1>9, <1>10, <1>11

LEMMA IdleTyped ==
    ASSUME ImpType, NEW w \in Workers, EnqueueReview(w) \/ CutOff(w)
    PROVE  /\ ImpType' /\ OnlyOne(w) /\ wpc'[w] = "idle"
<1>1. StoreType /\ JobsType /\ WorkersType
  BY DEF ImpType
<1>2. StoreType' /\ Grown
  BY <1>1, StoreKept, GrownSame DEF EnqueueReview, CutOff, Store
<1>3. JobsType'
  <2>1. spent' \in [failures : Nat, cutoffs : Nat]
    BY <1>1 DEF JobsType, EnqueueReview, CutOff
  <2>2. review' \in {"none", "pending", "executing"}
    BY <1>1 DEF JobsType, EnqueueReview, CutOff
  <2> QED
    BY <1>1, <2>1, <2>2, JobsKept DEF EnqueueReview, CutOff, Store, JobsType
<1>4. PICK k : k = work'[w] /\ (k = work[w] \/ k = JobSlice(0, FALSE)) /\ Stepped(w, "idle", k)
  <2>1. CASE EnqueueReview(w)
    BY <1>1, <2>1, HoldsOn DEF EnqueueReview, Stepped
  <2>2. CASE CutOff(w)
    <3>1. Stepped(w, "idle", JobSlice(0, FALSE))
      BY <2>2, JobSlices DEF CutOff, Stepped
    <3> QED
      BY <1>1, <3>1, SteppedOne
  <2> QED
    BY <2>1, <2>2
<1>5. WorkersType'
  <2>1. CASE k = work[w]
    <3>1. WorkerType(w)
      BY <1>1 DEF WorkersType
    <3>2. /\ k \in Slices /\ \A i \in DOMAIN k.rows : k.rows[i] \in DOMAIN mark'
          /\ k.known \subseteq DOMAIN crm'
      BY <1>2, <2>1, <3>1 DEF WorkerType, Grown
    <3> QED
      BY <1>1, <1>2, <1>4, <3>2, BusyWorker DEF Steps
  <2>2. CASE k = JobSlice(0, FALSE)
    BY <1>1, <1>2, <1>4, <2>2, FreshWorker DEF JobSlice
  <2> QED
    BY <1>4, <2>1, <2>2
<1>6. OnlyOne(w) /\ wpc'[w] = "idle"
  BY <1>1, <1>4, SteppedOne
<1> QED
  BY <1>2, <1>3, <1>5, <1>6 DEF ImpType

(* What a flush begins with.                                               *)
Flushing(job, snap, rows) == SliceOf(job, snap, rows, 0, {}, FALSE, 0, 0, 0, 0)

LEMMA FlushingIs ==
    ASSUME NEW job, NEW snap, NEW rows
    PROVE  [NoSlice EXCEPT !.job = job, !.snap = snap, !.rows = rows] = Flushing(job, snap, rows)
<1>1. PICK a, b, c : a = <<>> /\ b = {} /\ c = FALSE
  OBVIOUS
<1>2. NoSlice = [job |-> 0, snap |-> a, rows |-> a, loaded |-> 0, known |-> b, ingest |-> c,
                 created |-> 0, updated |-> 0, held |-> 0, failed |-> 0]
  BY <1>1 DEF NoSlice
<1>3. PICK x : x = [NoSlice EXCEPT !.job = job, !.snap = snap, !.rows = rows]
  OBVIOUS
<1>4. /\ x.job = job /\ x.snap = snap /\ x.rows = rows /\ x.loaded = 0 /\ x.known = b /\ x.ingest = c
      /\ x.created = 0 /\ x.updated = 0 /\ x.held = 0 /\ x.failed = 0
  BY <1>2, <1>3
<1>5. x = [job |-> x.job, snap |-> x.snap, rows |-> x.rows, loaded |-> x.loaded, known |-> x.known,
           ingest |-> x.ingest, created |-> x.created, updated |-> x.updated, held |-> x.held,
           failed |-> x.failed]
  BY <1>2, <1>3
<1>6. x = [job |-> job, snap |-> snap, rows |-> rows, loaded |-> 0, known |-> b, ingest |-> c,
           created |-> 0, updated |-> 0, held |-> 0, failed |-> 0]
  BY <1>4, <1>5
<1> QED
  BY <1>1, <1>3, <1>6 DEF Flushing, SliceOf

LEMMA FlushTyped ==
    ASSUME ImpType, NEW w \in Workers, NEW j, BeginFlush(w, j)
    PROVE  /\ ImpType' /\ j \in DOMAIN jobs
           /\ \E n \in 0..Slice : \E rows \in [1..n -> HeldRows] :
                FlushRows(rows) /\ Stepped(w, "loadheld", Flushing(j, jobs[j], rows))
<1>1. StoreType /\ JobsType /\ WorkersType
  BY DEF ImpType
<1>2. StoreType' /\ Grown
  BY <1>1, StoreKept, GrownSame DEF BeginFlush, Store
<1>3. JobsType'
  <2>1. sliceRaced' \in BOOLEAN
    BY <1>1, RaceType DEF BeginFlush, JobsType
  <2> QED
    BY <1>1, <2>1, JobsKept DEF BeginFlush, Store, JobsType
<1>4. PICK n \in 0..Slice : \E rows \in [1..n -> HeldRows] :
          FlushRows(rows) /\ Stepped(w, "loadheld", Flushing(j, jobs[j], rows))
  BY FlushingIs DEF BeginFlush, Stepped
<1>5. PICK rows \in [1..n -> HeldRows] :
          FlushRows(rows) /\ Stepped(w, "loadheld", Flushing(j, jobs[j], rows))
  BY <1>4
<1>6. j \in DOMAIN jobs /\ j \in Nat /\ jobs[j] \in JobRow
  <2>1. j \in DOMAIN jobs /\ jobs \in Seq(JobRow)
    BY <1>1 DEF BeginFlush, JobsType
  <2> QED
    BY <2>1, LenProperties
<1>7. n \in Nat /\ rows \in Seq(Nat)
  <2>1. n \in Nat
    BY <1>5, ImportsAssumption
  <2>2. HeldRows \subseteq Nat
    BY <1>1 DEF HeldRows, StoreType
  <2>3. rows \in [1..n -> Nat]
    BY <1>5, <2>2
  <2> QED
    BY <2>1, <2>3
<1>8. PICK k : k = Flushing(j, jobs[j], rows)
  OBVIOUS
<1>9. k \in Slices
  <2>1. PICK none \in SUBSET Nat : none = {}
    OBVIOUS
  <2>2. SliceOf(j, jobs[j], rows, 0, none, FALSE, 0, 0, 0, 0) \in Slices
    BY <1>6, <1>7, SliceTyped
  <2> QED
    BY <1>8, <2>1, <2>2 DEF Flushing
<1>10. k.job = j /\ k.snap = jobs[j] /\ k.rows = rows /\ k.known = {}
  BY <1>8 DEF Flushing, SliceOf
<1>11. \A i \in DOMAIN rows : rows[i] \in DOMAIN mark'
  BY <1>5 DEF HeldRows, BeginFlush, Store
<1>12. WorkersType'
  <2>1. j \in DOMAIN jobs'
    BY <1>6 DEF BeginFlush
  <2>2. Stepped(w, "loadheld", k)
    BY <1>5, <1>8
  <2>3. k.job \in DOMAIN jobs' /\ k.snap \in JobRow /\ k.known \subseteq DOMAIN crm'
    BY <1>6, <1>10, <2>1
  <2>4. \A i \in DOMAIN k.rows : k.rows[i] \in DOMAIN mark'
    BY <1>10, <1>11
  <2> QED
    BY <1>1, <1>2, <1>9, <2>2, <2>3, <2>4, BusyWorker DEF Steps
<1>13. ImpType'
  BY <1>2, <1>3, <1>12 DEF ImpType
<1>14. \E m \in 0..Slice : \E r \in [1..m -> HeldRows] :
          FlushRows(r) /\ Stepped(w, "loadheld", Flushing(j, jobs[j], r))
  BY <1>5
<1> QED
  BY <1>6, <1>13, <1>14

Mapped(k, known) ==
    SliceOf(k.job, k.snap, k.rows, k.loaded, known, k.ingest, k.created, k.updated, k.held, k.failed)

LEMMA LoadHeldTyped ==
    ASSUME ImpType, NEW w \in Workers, LoadHeld(w)
    PROVE  ImpType' /\ Stepped(w, "flush", Mapped(work[w], DOMAIN crm))
<1>1. StoreType /\ JobsType /\ WorkersType /\ WorkerType(w)
  BY DEF ImpType, WorkersType
<1>2. StoreType' /\ Grown
  BY <1>1, StoreKept, GrownSame DEF LoadHeld, Store
<1>3. JobsType'
  BY <1>1, JobsKept DEF LoadHeld, Store, JobsType
<1>4. PICK k \in Slices : /\ k = work[w] /\ k.snap \in JobRow /\ k.job \in DOMAIN jobs
                          /\ \A i \in DOMAIN k.rows : k.rows[i] \in DOMAIN mark
  BY <1>1 DEF WorkerType, LoadHeld
<1>5. PICK known \in SUBSET Nat : known = DOMAIN crm
  BY <1>1 DEF JobsType, Recorded
<1>6. [k EXCEPT !.known = known] = Mapped(k, known)
  BY SliceIs DEF Mapped, SliceOf
<1>7. Mapped(k, known) \in Slices
  BY SliceIs, SliceTyped DEF Mapped
<1>8. Stepped(w, "flush", Mapped(k, known))
  <2>1. work' = [work EXCEPT ![w] = [k EXCEPT !.known = known]]
    <3>1. w \in DOMAIN work
      BY <1>1, WorkAt
    <3> QED
      BY <1>4, <1>5, <3>1 DEF LoadHeld
  <2> QED
    BY <1>6, <2>1 DEF LoadHeld, Stepped
<1>9. /\ Mapped(k, known).job = k.job /\ Mapped(k, known).snap = k.snap
      /\ Mapped(k, known).rows = k.rows /\ Mapped(k, known).known = known
  BY DEF Mapped, SliceOf
<1>10. WorkersType'
  <2>1. /\ k.job \in DOMAIN jobs' /\ known \subseteq DOMAIN crm'
        /\ \A i \in DOMAIN k.rows : k.rows[i] \in DOMAIN mark'
    BY <1>4, <1>5 DEF LoadHeld, Store
  <2> QED
    BY <1>1, <1>2, <1>4, <1>7, <1>8, <1>9, <2>1, BusyWorker DEF Steps
<1> QED
  BY <1>2, <1>3, <1>4, <1>5, <1>8, <1>10 DEF ImpType

LEMMA StoreStep ==
    ASSUME ImpType, NEW m \in Sheets, ingestTable(m)
    PROVE  ImpType'
<1>1. StoreType' /\ sheet'.source = "table"
  BY TableStaged DEF ImpType
<1>2. sheet' # NoSheet
  BY <1>1 DEF NoSheet
<1>3. JobsType'
  BY <1>2 DEF ImpType, JobsType, MappingType, ingestTable
<1>4. WorkersType'
  BY AllKept, GrownSame DEF ImpType, ingestTable
<1> QED
  BY <1>1, <1>3, <1>4 DEF ImpType

LEMMA TextStep ==
    ASSUME ImpType, NEW t \in Texts, NEW src \in {"json", "model"}, NEW ok \in BOOLEAN,
           stageExtracted(src, t, ok)
    PROVE  ImpType'
<1>1. StoreType'
  BY TextStaged DEF ImpType
<1>2. sheet = NoSheet /\ sheet'.source = src
  BY DEF stageExtracted
<1>3. sheet' # NoSheet
  BY <1>2 DEF NoSheet
<1>4. JobsType'
  BY <1>3 DEF ImpType, JobsType, MappingType, stageExtracted
<1>5. WorkersType'
  BY AllKept, GrownSame DEF ImpType, stageExtracted
<1> QED
  BY <1>1, <1>4, <1>5 DEF ImpType

LEMMA StagingStep ==
    ASSUME ImpType, InsertChunk \/ BatchReady \/ saveMapping
    PROVE  ImpType'
<1>1. StoreType /\ JobsType /\ WorkersType
  BY DEF ImpType
<1>2. CASE InsertChunk
  <2>1. StoreType' /\ staged <= staged'
    BY <1>1, <1>2, ChunkStaged
  <2>2. DOMAIN mark \subseteq DOMAIN mark'
    <3>1. staged \in Nat /\ staged' \in Nat /\ DOMAIN mark = 1..staged /\ DOMAIN mark' = 1..staged'
      BY <1>1, <2>1 DEF StoreType
    <3> QED
      BY <2>1, <3>1
  <2>3. JobsType'
    BY <1>1, <1>2, JobsKept DEF InsertChunk, JobsType
  <2>4. WorkersType'
    BY <1>1, <1>2, <2>2, AllKept DEF InsertChunk, Grown
  <2> QED
    BY <2>1, <2>3, <2>4 DEF ImpType
<1>3. CASE BatchReady
  <2>1. StoreType'
    BY <1>1, <1>3 DEF StoreType, SheetType, BatchStatus, BatchReady
  <2>2. JobsType'
    BY <1>1, <1>3, JobsKept DEF BatchReady, JobsType
  <2>3. WorkersType'
    BY <1>1, <1>3, AllKept, GrownSame DEF BatchReady
  <2> QED
    BY <2>1, <2>2, <2>3 DEF ImpType
<1>4. CASE saveMapping
  <2>1. StoreType' /\ JobsType' /\ WorkersType'
    BY <1>1, <1>4, StoreKept, MappingSaved, AllKept, GrownSame DEF saveMapping
  <2> QED
    BY <2>1 DEF ImpType
<1> QED
  BY <1>2, <1>3, <1>4

LEMMA ImpTypeInit == ImpInit => ImpType
<1> SUFFICES ASSUME ImpInit PROVE ImpType
  OBVIOUS
<1>1. StoreType
  BY DEF ImpInit, StoreType, SheetType, BatchStatus
<1>2. JobsType
  <2>1. jobs \in Seq(JobRow) /\ Len(crm) = 0
    BY EmptySeq DEF ImpInit
  <2>2. Recorded(crm)
    BY <2>1 DEF Recorded, ImpInit
  <2> QED
    BY <2>1, <2>2 DEF ImpInit, JobsType, MappingType
<1>3. WorkersType
  <2>1. ASSUME NEW w \in Workers PROVE WorkerType(w)
    <3>1. PICK k : k = NoSlice
      OBVIOUS
    <3>2. k \in Slices /\ k.rows = <<>> /\ k.known = {}
      BY <3>1, NoSliceIs, NoSliceTyped DEF SliceOf
    <3>3. wpc[w] = "idle" /\ work[w] = k
      BY <3>1 DEF ImpInit
    <3> QED
      BY <3>2, <3>3 DEF WorkerType, Steps
  <2> QED
    BY <2>1 DEF ImpInit, WorkersType
<1> QED
  BY <1>1, <1>2, <1>3 DEF ImpType

LEMMA ImpTypeStep == ImpType /\ [ImpNext]_impVars => ImpType'
<1> SUFFICES ASSUME ImpType, [ImpNext]_impVars PROVE ImpType'
  OBVIOUS
<1>1. ASSUME NEW w \in Workers, WorkerStep(w) PROVE ImpType'
  BY <1>1, ReadTyped, RunTyped, LoadTyped, RowTyped, FinishTyped, IdleTyped, LoadHeldTyped DEF WorkerStep
<1>2. ASSUME NEW w \in Workers,
             startImport(w) \/ ingestText(w) \/ SliceRowFails(w) \/ CutOff(w)
      PROVE  ImpType'
  BY <1>2, StartTyped, RowTyped, IdleTyped
<1>3. ASSUME NEW w \in Workers, NEW j, ImportTick(w, j) \/ tickToDone(w, j) \/ BeginFlush(w, j)
      PROVE  ImpType'
  BY <1>3, TickTyped, FlushTyped DEF ImportTick, tickToDone
<1>4. CASE UNCHANGED impVars
  BY <1>4 DEF impVars, ImpType, StoreType, SheetType, JobsType, MappingType, WorkersType, WorkerType
<1> QED
  BY <1>1, <1>2, <1>3, <1>4, StoreStep, TextStep, StagingStep DEF ImpNext

-----------------------------------------------------------------------------
(* Imports: no duplicates.                                                 *)

(* The four kinds of steps: nobody's maps or records change, one worker    *)
(* moves on, one begins to import, one writes a row.                       *)
Still == UNCHANGED <<crm, sliceRaced, wpc, work>>

MovesOn(w) ==
    /\ OnlyOne(w) /\ UNCHANGED <<crm, sliceRaced>>
    /\ Importing(w)' => Importing(w)
    /\ wpc'[w] \in {"rows", "flush"} => work'[w].known = DOMAIN crm

BeginsImport(w) ==
    /\ OnlyOne(w) /\ UNCHANGED crm
    /\ Race(w) /\ wpc'[w] \in {"running", "loadheld"}

WritesRow(w) == RowTaken(w) /\ sliceRaced' = sliceRaced

LEMMA ImpKinds ==
    ASSUME ImpType, [ImpNext]_impVars
    PROVE  Still \/ \E w \in Workers : MovesOn(w) \/ BeginsImport(w) \/ WritesRow(w)
<1> DEFINE Kind == Still \/ \E w \in Workers : MovesOn(w) \/ BeginsImport(w) \/ WritesRow(w)
<1>1. WorkersType
  BY DEF ImpType
<1>2. ASSUME NEW w \in Workers, NEW p \in {"idle", "read", "review"}, NEW k, Stepped(w, p, k),
             UNCHANGED <<crm, sliceRaced>>
      PROVE  Kind
  <2>1. OnlyOne(w) /\ wpc'[w] = p
    BY <1>1, <1>2, SteppedOne
  <2>2. MovesOn(w)
    BY <1>2, <2>1 DEF MovesOn, Importing
  <2> QED
    BY <2>2
<1>3. ASSUME NEW w \in Workers, startImport(w) PROVE Kind
  <2>1. Stepped(w, "read", [NoSlice EXCEPT !.job = Len(jobs) + 1]) /\ UNCHANGED <<crm, sliceRaced>>
    BY <1>3 DEF startImport, Stepped
  <2> QED
    BY <1>2, <2>1
<1>4. ASSUME NEW w \in Workers, ingestText(w) PROVE Kind
  <2>1. /\ Stepped(w, "read", [NoSlice EXCEPT !.job = Len(jobs) + 1, !.ingest = TRUE])
        /\ UNCHANGED <<crm, sliceRaced>>
    BY <1>4 DEF ingestText, Stepped
  <2> QED
    BY <1>2, <2>1
<1>5. ASSUME NEW w \in Workers, NEW j, TickJob(w, j) PROVE Kind
  <2>1. Stepped(w, "read", [NoSlice EXCEPT !.job = j]) /\ UNCHANGED <<crm, sliceRaced>>
    BY <1>5 DEF TickJob, Stepped
  <2> QED
    BY <1>2, <2>1
<1>6. ASSUME NEW w \in Workers, ReadJob(w) PROVE Kind
  <2>1. CASE Stepped(w, "idle", JobSlice(0, FALSE)) /\ sliceRaced' = sliceRaced
    BY <1>2, <1>6, <2>1 DEF ReadJob
  <2>2. CASE Stepped(w, "running", Snapped(work[w], jobs[work[w].job])) /\ Race(w)
    <3>1. OnlyOne(w) /\ wpc'[w] = "running"
      BY <1>1, <2>2, SteppedOne
    <3>2. BeginsImport(w)
      BY <1>6, <2>2, <3>1 DEF BeginsImport, ReadJob
    <3> QED
      BY <3>2
  <2> QED
    BY <1>6, <2>1, <2>2, ReadTyped
<1>7. ASSUME NEW w \in Workers, SetRunning(w) PROVE Kind
  <2>1. OnlyOne(w) /\ wpc'[w] = "load"
    BY <1>1, <1>7, RunTyped, SteppedOne
  <2>2. MovesOn(w)
    BY <1>7, <2>1 DEF MovesOn, SetRunning, Importing
  <2> QED
    BY <2>2
<1>8. ASSUME NEW w \in Workers, LoadSlice(w) PROVE Kind
  <2>1. OnlyOne(w) /\ work'[w] = Loaded(work[w], loadRows(work[w].snap.cursor), DOMAIN crm)
    BY <1>1, <1>8, LoadTyped, SteppedOne
  <2>2. work'[w].known = DOMAIN crm
    BY <2>1 DEF Loaded, SliceOf
  <2>3. MovesOn(w)
    BY <1>8, <2>1, <2>2 DEF MovesOn, LoadSlice, Importing
  <2> QED
    BY <2>3
<1>9. ASSUME NEW w \in Workers, LoadHeld(w) PROVE Kind
  <2>1. OnlyOne(w) /\ work'[w] = Mapped(work[w], DOMAIN crm)
    BY <1>1, <1>9, LoadHeldTyped, SteppedOne
  <2>2. work'[w].known = DOMAIN crm
    BY <2>1 DEF Mapped, SliceOf
  <2>3. MovesOn(w)
    BY <1>9, <2>1, <2>2 DEF MovesOn, LoadHeld, Importing
  <2> QED
    BY <2>3
<1>10. ASSUME NEW w \in Workers, SliceRow(w) \/ SliceRowFails(w) PROVE Kind
  <2>1. WritesRow(w)
    BY <1>10, RowFacts DEF WritesRow, SliceRow, SliceRowFails
  <2> QED
    BY <2>1
<1>11. ASSUME NEW w \in Workers, FinishSlice(w) \/ FinishFlush(w) PROVE Kind
  <2>1. wpc'[w] \in {"idle", "review"} /\ OnlyOne(w) /\ UNCHANGED <<crm, sliceRaced>>
    BY <1>11, FinishTyped DEF FinishSlice, FinishFlush
  <2>2. MovesOn(w)
    BY <2>1 DEF MovesOn, Importing
  <2> QED
    BY <2>2
<1>12. ASSUME NEW w \in Workers, EnqueueReview(w) \/ CutOff(w) PROVE Kind
  <2>1. wpc'[w] = "idle" /\ OnlyOne(w) /\ UNCHANGED <<crm, sliceRaced>>
    BY <1>12, IdleTyped DEF EnqueueReview, CutOff
  <2>2. MovesOn(w)
    BY <2>1 DEF MovesOn, Importing
  <2> QED
    BY <2>2
<1>13. ASSUME NEW w \in Workers, NEW j, BeginFlush(w, j) PROVE Kind
  <2>1. PICK n \in 0..Slice : \E rows \in [1..n -> HeldRows] :
          Stepped(w, "loadheld", Flushing(j, jobs[j], rows))
    BY <1>13, FlushTyped
  <2>2. OnlyOne(w) /\ wpc'[w] = "loadheld"
    BY <1>1, <2>1, SteppedOne
  <2>3. BeginsImport(w)
    BY <1>13, <2>2 DEF BeginsImport, BeginFlush
  <2> QED
    BY <2>3
<1>14. ASSUME NEW m \in Sheets, ingestTable(m) PROVE Kind
  BY <1>14 DEF ingestTable, Still
<1>15. ASSUME NEW t \in Texts, NEW src \in {"json", "model"}, NEW ok \in BOOLEAN, stageExtracted(src, t, ok)
       PROVE  Kind
  BY <1>15 DEF stageExtracted, Still
<1>16. ASSUME InsertChunk \/ BatchReady \/ saveMapping \/ UNCHANGED impVars PROVE Kind
  BY <1>16 DEF InsertChunk, BatchReady, saveMapping, impVars, Still
<1> HIDE DEF Kind
<1>17. ASSUME NEW w \in Workers, WorkerStep(w) PROVE Kind
  BY <1>6, <1>7, <1>8, <1>9, <1>10, <1>11, <1>12, <1>17 DEF WorkerStep
<1>18. ASSUME NEW w \in Workers, NEW j, ImportTick(w, j) \/ tickToDone(w, j) \/ BeginFlush(w, j)
       PROVE  Kind
  BY <1>5, <1>13, <1>18 DEF ImportTick, tickToDone
<1>19. Kind
  BY <1>3, <1>4, <1>10, <1>12, <1>14, <1>15, <1>16, <1>17, <1>18 DEF ImpNext
<1> QED
  BY <1>19 DEF Kind

LEMMA MapsStep ==
    ASSUME ImpType, MapsInv, [ImpNext]_impVars
    PROVE  MapsInv'
<1>1. sliceRaced \in BOOLEAN
  BY DEF ImpType, JobsType
<1>2. ~sliceRaced => KeysApart(crm)
  BY DEF MapsInv, NoDuplicates, KeysApart
<1>3. (~sliceRaced' => KeysApart(crm')) => NoDuplicates'
  BY DEF NoDuplicates, KeysApart
<1>4. CASE Still
  BY <1>4 DEF Still, MapsInv, NoDuplicates, OneImporter, Importing
<1>5. ASSUME NEW w \in Workers, MovesOn(w) PROVE MapsInv'
  <2>1. UNCHANGED <<crm, sliceRaced>> /\ OnlyOne(w)
    BY <1>5 DEF MovesOn
  <2>2. NoDuplicates'
    BY <1>2, <1>3, <2>1
  <2>3. \A v \in Workers : Importing(v)' => Importing(v)
    BY <1>5, <2>1 DEF OnlyOne, Importing, MovesOn
  <2>4. ~sliceRaced' => OneImporter'
    BY <2>1, <2>3 DEF MapsInv, OneImporter
  <2>5. ASSUME ~sliceRaced', NEW v \in Workers, wpc'[v] \in {"rows", "flush"}
        PROVE  work'[v].known = DOMAIN crm'
    <3>1. CASE v = w
      BY <1>5, <2>1, <2>5, <3>1 DEF MovesOn
    <3>2. CASE v # w
      BY <2>1, <2>5, <3>2 DEF OnlyOne, MapsInv
    <3> QED
      BY <3>1, <3>2
  <2> QED
    BY <2>2, <2>4, <2>5 DEF MapsInv
<1>6. ASSUME NEW w \in Workers, BeginsImport(w) PROVE MapsInv'
  <2>1. UNCHANGED crm /\ OnlyOne(w) /\ wpc'[w] \in {"running", "loadheld"}
    BY <1>6 DEF BeginsImport
  <2>2. ~sliceRaced' => ~sliceRaced /\ \A v \in Workers \ {w} : ~Importing(v)
    BY <1>1, <1>6, RaceType DEF BeginsImport
  <2>3. NoDuplicates'
    BY <1>2, <1>3, <2>1, <2>2
  <2>4. \A v \in Workers \ {w} : wpc'[v] = wpc[v]
    BY <2>1 DEF OnlyOne
  <2>5. ~sliceRaced' => \A v \in Workers \ {w} : ~Importing(v)'
    BY <2>2, <2>4 DEF Importing
  <2>6. ~sliceRaced' => OneImporter'
    BY <2>5 DEF OneImporter
  <2>7. ~sliceRaced' => \A v \in Workers : wpc'[v] \notin {"rows", "flush"}
    BY <2>1, <2>5 DEF Importing
  <2> QED
    BY <2>3, <2>6, <2>7 DEF MapsInv
<1>7. ASSUME NEW w \in Workers, WritesRow(w) PROVE MapsInv'
  <2>1. /\ sliceRaced' = sliceRaced /\ wpc[w] \in {"rows", "flush"}
        /\ work[w].known = DOMAIN crm /\ KeysApart(crm) => KeysApart(crm')
    BY <1>7 DEF WritesRow, RowTaken
  <2>2. PICK s \in ImportRowStatus, field \in Outcomes, known \in SUBSET Nat :
          /\ Stepped(w, wpc[w], RowMoved(work[w], field, known))
          /\ work[w].known = DOMAIN crm => known = DOMAIN crm'
    BY <1>7 DEF WritesRow, RowTaken
  <2>3. PICK k : k = RowMoved(work[w], field, known)
    OBVIOUS
  <2>4. OnlyOne(w) /\ wpc'[w] = wpc[w] /\ work'[w] = k
    BY <2>2, <2>3, SteppedOne DEF ImpType
  <2>5. k.known = known
    BY <2>3 DEF RowMoved, SliceOf
  <2>6. ~sliceRaced' => work[w].known = DOMAIN crm /\ OneImporter /\ Importing(w)
    BY <2>1 DEF MapsInv, Importing
  <2>7. NoDuplicates'
    BY <1>2, <1>3, <2>1, <2>6
  <2>8. \A v \in Workers : wpc'[v] = wpc[v]
    BY <2>4 DEF OnlyOne
  <2>9. ~sliceRaced' => OneImporter'
    BY <2>1, <2>8 DEF MapsInv, OneImporter, Importing
  <2>10. ASSUME ~sliceRaced', NEW v \in Workers, wpc'[v] \in {"rows", "flush"}
         PROVE  work'[v].known = DOMAIN crm'
    <3>1. v = w
      BY <2>6, <2>8, <2>10 DEF OneImporter, Importing
    <3> QED
      BY <2>2, <2>4, <2>5, <2>6, <2>10, <3>1
  <2> QED
    BY <2>7, <2>9, <2>10 DEF MapsInv
<1> QED
  BY <1>4, <1>5, <1>6, <1>7, ImpKinds

(* One contact an e-mail and one account a name or a domain, also after a  *)
(* cut-off slice ran again and after a second import of the sheet, as long *)
(* as no two workers overlapped (realUpserter of import-engine.ts): the    *)
(* only importer's maps are what the tables hold.                          *)
THEOREM NoDuplicatesHolds == ImpSpec => []NoDuplicates
<1>1. ImpInit => ImpType /\ MapsInv
  BY ImpTypeInit DEF ImpInit, MapsInv, NoDuplicates, OneImporter, Importing
<1>2. ImpType /\ MapsInv /\ [ImpNext]_impVars => ImpType' /\ MapsInv'
  BY ImpTypeStep, MapsStep
<1>3. MapsInv => NoDuplicates
  BY DEF MapsInv
<1> QED
  BY <1>1, <1>2, <1>3, PTL DEF ImpSpec

-----------------------------------------------------------------------------
(* Imports: a job that is done passed every row.                           *)

(* No row becomes new again, and a ready batch stays as it is.             *)
MarksKept ==
    /\ staged <= staged' /\ \A r \in 1..staged : mark[r] # "new" => mark'[r] # "new"
    /\ batch = "ready" => batch' = "ready" /\ staged' = staged

LEMMA SeenKept ==
    ASSUME MarksKept, staged \in Nat, staged' \in Nat, NEW n \in Nat, Seen(n)
    PROVE  Seen(n)'
  BY DEF MarksKept, Seen

LEMMA MarksSame == ASSUME staged \in Nat, UNCHANGED <<staged, mark, batch>> PROVE MarksKept
  BY DEF MarksKept

LEMMA JobSeenKept ==
    ASSUME MarksKept, staged \in Nat, staged' \in Nat, NEW i, NEW j \in JobRow, jobs[i] = j, jobs'[i] = j, JobSeen(i)
    PROVE  JobSeen(i)'
<1>1. j.cursor \in Nat
  BY JobIs
<1>2. Seen(j.cursor)'
  BY <1>1, SeenKept DEF JobSeen
<1> QED
  BY <1>2 DEF JobSeen, MarksKept

LEMMA SliceSeenKept ==
    ASSUME MarksKept, staged \in Nat, staged' \in Nat, NEW k \in Slices, k.snap \in JobRow,
           k.snap.ready => batch = "ready", SliceSeen(k)
    PROVE  SliceSeen(k)'
<1>1. k.snap.cursor \in Nat /\ k.loaded \in Nat /\ Len(k.rows) \in Nat
  <2>1. k.loaded \in Nat /\ k.rows \in Seq(Nat)
    BY SliceIs
  <2> QED
    BY <2>1, JobIs, LenProperties
<1>2. Reached(k) \in Nat
  BY <1>1 DEF SliceSeen, Reached
<1>3. Seen(Reached(k))'
  BY <1>2, SeenKept DEF SliceSeen, Reached
<1> QED
  BY <1>1, <1>3 DEF SliceSeen, MarksKept, Reached

(* A worker that does nothing, while its job keeps its total.              *)
LEMMA WorkerSeenKept ==
    ASSUME ImpType, ImpType', MarksKept, NEW w \in Workers, WorkerSeen(w), wpc'[w] = wpc[w], work'[w] = work[w],
           \A i \in DOMAIN jobs : /\ JobSeen(i) /\ jobs'[i].ready = jobs[i].ready
                                  /\ jobs'[i].total = jobs[i].total
    PROVE  WorkerSeen(w)'
<1> SUFFICES ASSUME wpc[w] \in {"running", "load", "rows"}
             PROVE  SnapSeen(work[w])' /\ (wpc[w] = "rows" => SliceSeen(work[w])')
  BY DEF WorkerSeen
<1>1. WorkerType(w) /\ staged \in Nat /\ staged' \in Nat
  BY DEF ImpType, StoreType, WorkersType
<1>2. PICK k \in Slices : k = work[w] /\ k.job \in DOMAIN jobs /\ k.snap \in JobRow
  BY <1>1 DEF WorkerType
<1>3. SnapSeen(k) /\ (wpc[w] = "rows" => SliceSeen(k)) /\ k.snap.cursor \in Nat
  BY <1>2, JobIs DEF WorkerSeen
<1>4. k.snap.ready => batch = "ready"
  BY <1>2, <1>3 DEF SnapSeen, JobSeen
<1>5. SnapSeen(k)'
  BY <1>1, <1>2, <1>3, SeenKept DEF SnapSeen
<1>6. wpc[w] = "rows" => SliceSeen(k)'
  BY <1>1, <1>2, <1>3, <1>4, SliceSeenKept
<1>7. k = work'[w]
  BY <1>2
<1> QED
  BY <1>5, <1>6, <1>7 DEF SnapSeen, SliceSeen, Reached

(* One worker acts; the jobs keep their totals.                            *)
LEMMA SeenActs ==
    ASSUME ImpType, ImpType', SeenInv, MarksKept, NEW w \in Workers, OnlyOne(w), WorkerSeen(w)',
           \A i \in DOMAIN jobs : /\ jobs'[i].ready = jobs[i].ready
                                  /\ jobs'[i].total = jobs[i].total,
           \A i \in DOMAIN jobs' : JobSeen(i)'
    PROVE  SeenInv'
<1>1. ASSUME NEW v \in Workers PROVE WorkerSeen(v)'
  <2>1. CASE v = w
    BY <2>1
  <2>2. CASE v # w
    <3>1. wpc'[v] = wpc[v] /\ work'[v] = work[v]
      BY <2>2 DEF OnlyOne
    <3>2. WorkerSeen(v) /\ \A i \in DOMAIN jobs : JobSeen(i)
      BY DEF SeenInv
    <3> QED
      BY <3>1, <3>2, WorkerSeenKept
  <2> QED
    BY <2>1, <2>2
<1> QED
  BY <1>1 DEF SeenInv

(* The jobs stay, and the worker is not at a slice.                        *)
LEMMA SeenAway ==
    ASSUME ImpType, ImpType', SeenInv, UNCHANGED <<staged, mark, batch, jobs>>, NEW w \in Workers, OnlyOne(w),
           wpc'[w] \notin {"running", "load", "rows"}
    PROVE  SeenInv'
<1>1. MarksKept /\ staged \in Nat /\ staged' \in Nat
  BY MarksSame DEF ImpType, StoreType
<1>2. \A i \in DOMAIN jobs' : JobSeen(i)'
  <2>1. ASSUME NEW i \in DOMAIN jobs PROVE JobSeen(i)'
    <3>1. PICK j \in JobRow : j = jobs[i]
      BY LenProperties DEF ImpType, JobsType
    <3>2. JobSeen(i)
      BY DEF SeenInv
    <3> QED
      BY <1>1, <3>1, <3>2, JobSeenKept
  <2> QED
    BY <2>1
<1> QED
  BY <1>1, <1>2, SeenActs DEF WorkerSeen

(* Staging, and a mapping.                                                 *)
LEMMA SeenStaging ==
    ASSUME ImpType, ImpType', SeenInv, MarksKept, UNCHANGED <<jobs, wpc, work>>
    PROVE  SeenInv'
<1>1. staged \in Nat /\ staged' \in Nat
  BY DEF ImpType, StoreType
<1>2. ASSUME NEW i \in DOMAIN jobs PROVE JobSeen(i)'
  <2>1. PICK j \in JobRow : j = jobs[i]
    BY LenProperties DEF ImpType, JobsType
  <2>2. JobSeen(i)
    BY DEF SeenInv
  <2> QED
    BY <1>1, <2>1, <2>2, JobSeenKept
<1>3. ASSUME NEW w \in Workers PROVE WorkerSeen(w)'
  BY WorkerSeenKept DEF SeenInv
<1> QED
  BY <1>2, <1>3 DEF SeenInv

LEMMA SeenStart ==
    ASSUME ImpType, ImpType', SeenInv, NEW w \in Workers, startImport(w) \/ ingestText(w)
    PROVE  SeenInv'
<1>1. MarksKept /\ staged \in Nat /\ staged' \in Nat
  BY MarksSame DEF ImpType, StoreType, startImport, ingestText, Store
<1>2. PICK conf \in 0..10 : jobs' = Append(jobs, NewJob(conf))
  BY StartTyped
<1>3. PICK j \in JobRow : j = NewJob(conf)
  BY NewJobTyped DEF ImpType
<1>4. /\ Len(jobs) \in Nat /\ DOMAIN jobs = 1..Len(jobs) /\ DOMAIN jobs' = 1..(Len(jobs) + 1)
      /\ jobs'[Len(jobs) + 1] = j /\ \A x \in DOMAIN jobs : jobs'[x] = jobs[x]
  BY <1>2, <1>3, JobAdded DEF ImpType, JobsType
<1>5. ASSUME NEW i \in DOMAIN jobs PROVE JobSeen(i)'
  <2>1. PICK y \in JobRow : y = jobs[i]
    BY LenProperties DEF ImpType, JobsType
  <2>2. JobSeen(i)
    BY DEF SeenInv
  <2> QED
    BY <1>1, <1>4, <2>1, <2>2, JobSeenKept
<1>6. PICK n : n = Len(jobs) + 1
  OBVIOUS
<1>7. JobSeen(n)'
  <2>1. j.cursor = 0 /\ j.status = "queued" /\ j.total = staged /\ (j.ready <=> batch = "ready")
    BY <1>3 DEF NewJob
  <2>2. staged' = staged /\ batch' = batch
    BY DEF startImport, ingestText, Store
  <2>3. Seen(0)'
    BY <1>1 DEF Seen
  <2> QED
    BY <1>4, <1>6, <2>1, <2>2, <2>3 DEF JobSeen
<1>8. \A i \in DOMAIN jobs' : JobSeen(i)'
  <2>1. \A i \in DOMAIN jobs' : i \in DOMAIN jobs \/ i = n
    BY <1>4, <1>6
  <2> QED
    BY <1>5, <1>7, <2>1
<1>9. OnlyOne(w) /\ wpc'[w] = "read"
  <2>1. PICK k : Stepped(w, "read", k)
    BY DEF startImport, ingestText, Stepped
  <2> QED
    BY <2>1, SteppedOne DEF ImpType
<1>10. WorkerSeen(w)'
  BY <1>9 DEF WorkerSeen
<1> QED
  BY <1>1, <1>4, <1>8, <1>9, <1>10, SeenActs

LEMMA SeenRead ==
    ASSUME ImpType, ImpType', SeenInv, NEW w \in Workers, ReadJob(w)
    PROVE  SeenInv'
<1>1. UNCHANGED <<staged, mark, batch, jobs>>
  BY DEF ReadJob, Store
<1>2. CASE Stepped(w, "idle", JobSlice(0, FALSE))
  <2>1. OnlyOne(w) /\ wpc'[w] = "idle"
    BY <1>2, SteppedOne DEF ImpType
  <2> QED
    BY <1>1, <2>1, SeenAway
<1>3. CASE Stepped(w, "running", Snapped(work[w], jobs[work[w].job]))
  <2>1. PICK k : k = Snapped(work[w], jobs[work[w].job])
    OBVIOUS
  <2>2. OnlyOne(w) /\ wpc'[w] = "running" /\ work'[w] = k
    BY <1>3, <2>1, SteppedOne DEF ImpType
  <2>3. k.job = work[w].job /\ k.snap = jobs[work[w].job]
    BY <2>1 DEF Snapped, SliceOf
  <2>4. work[w].job \in DOMAIN jobs
    BY DEF ImpType, WorkersType, WorkerType, ReadJob
  <2>5. MarksKept
    BY <1>1, MarksSame DEF ImpType, StoreType
  <2>6. \A i \in DOMAIN jobs' : JobSeen(i)'
    BY <1>1 DEF SeenInv, JobSeen, Seen
  <2>7. SnapSeen(k)'
    BY <1>1, <2>3, <2>4 DEF SnapSeen, SeenInv, JobSeen, Seen
  <2>8. WorkerSeen(w)'
    BY <2>2, <2>7 DEF WorkerSeen, SnapSeen
  <2> QED
    BY <1>1, <2>2, <2>5, <2>6, <2>8, SeenActs
<1> QED
  BY <1>2, <1>3, ReadTyped

LEMMA SeenRun ==
    ASSUME ImpType, ImpType', SeenInv, NEW w \in Workers, SetRunning(w)
    PROVE  SeenInv'
<1>1. UNCHANGED <<staged, mark, batch>> /\ MarksKept /\ staged \in Nat
  BY MarksSame DEF SetRunning, Store, ImpType, StoreType
<1>2. PICK i \in DOMAIN jobs : i = work[w].job
  BY RunTyped
<1>3. PICK j \in JobRow : j = jobs[i]
  BY LenProperties DEF ImpType, JobsType
<1>4. PICK r \in JobRow : r = Run(j) /\ jobs' = [jobs EXCEPT ![i] = r]
  BY <1>2, <1>3, RunTyped
<1>5. DOMAIN jobs' = DOMAIN jobs /\ jobs'[i] = r /\ \A x \in DOMAIN jobs : x # i => jobs'[x] = jobs[x]
  BY <1>4, JobSet DEF ImpType, JobsType
<1>6. r.status = "running" /\ r.cursor = j.cursor /\ r.ready = j.ready /\ r.total = j.total
  BY <1>4 DEF Run, JobOf
<1>7. \A x \in DOMAIN jobs : jobs'[x].ready = jobs[x].ready /\ jobs'[x].total = jobs[x].total
                             /\ jobs'[x].cursor = jobs[x].cursor
  BY <1>3, <1>5, <1>6
<1>8. ASSUME NEW x \in DOMAIN jobs PROVE JobSeen(x)'
  <2>1. JobSeen(x)
    BY DEF SeenInv
  <2>2. CASE x = i
    BY <1>1, <1>3, <1>5, <1>6, <2>1, <2>2 DEF JobSeen, Seen
  <2>3. CASE x # i
    BY <1>1, <1>5, <2>1, <2>3 DEF JobSeen, Seen
  <2> QED
    BY <2>2, <2>3
<1>9. OnlyOne(w) /\ wpc'[w] = "load" /\ work'[w] = work[w]
  BY RunTyped, SteppedOne DEF ImpType
<1>10. WorkerSeen(w)'
  <2>1. PICK k : k = work[w]
    OBVIOUS
  <2>2. SnapSeen(k)
    BY <2>1 DEF SeenInv, WorkerSeen, SetRunning
  <2>3. SnapSeen(k)'
    BY <1>1, <1>2, <1>7, <2>1, <2>2 DEF SnapSeen, Seen
  <2> QED
    BY <1>9, <2>1, <2>3 DEF WorkerSeen, SnapSeen
<1> QED
  BY <1>1, <1>5, <1>7, <1>8, <1>9, <1>10, SeenActs

LEMMA SeenLoad ==
    ASSUME ImpType, ImpType', SeenInv, NEW w \in Workers, LoadSlice(w)
    PROVE  SeenInv'
<1>1. UNCHANGED <<staged, mark, batch, jobs>> /\ MarksKept /\ staged \in Nat
  BY MarksSame DEF LoadSlice, Store, ImpType, StoreType
<1>2. PICK rows : rows = loadRows(work[w].snap.cursor)
  OBVIOUS
<1>3. PICK k : k = Loaded(work[w], rows, DOMAIN crm)
  OBVIOUS
<1>4. OnlyOne(w) /\ wpc'[w] = "rows" /\ work'[w] = k
  BY <1>2, <1>3, LoadTyped, SteppedOne DEF ImpType
<1>5. k.job = work[w].job /\ k.snap = work[w].snap /\ k.rows = rows /\ k.loaded = Len(rows)
  BY <1>3 DEF Loaded, SliceOf
<1>6. SnapSeen(work[w])
  BY DEF SeenInv, WorkerSeen, LoadSlice
<1>7. PICK c \in Nat : c = work[w].snap.cursor
  BY LoadTyped, JobIs
<1>8. c <= staged /\ Seen(c)
  BY <1>6, <1>7 DEF SnapSeen, Seen
<1>9. /\ Len(rows) \in Nat /\ \A i \in DOMAIN rows : rows[i] = c + i
      /\ c + Len(rows) <= staged
      /\ Len(rows) = 0 => c >= staged
  BY <1>2, <1>7, <1>8, LoadedRows DEF ImpType
<1>10. Reached(k) = c
  BY <1>5, <1>7, <1>9 DEF Reached
<1>11. SliceSeen(k)
  BY <1>5, <1>7, <1>8, <1>9, <1>10 DEF SliceSeen
<1>12. SnapSeen(k)
  BY <1>5, <1>6 DEF SnapSeen
<1>13. WorkerSeen(w)'
  BY <1>1, <1>4, <1>11, <1>12 DEF WorkerSeen, SnapSeen, SliceSeen, Seen, Reached
<1>14. \A i \in DOMAIN jobs' : JobSeen(i)'
  BY <1>1 DEF SeenInv, JobSeen, Seen
<1> QED
  BY <1>1, <1>4, <1>13, <1>14, SeenActs

LEMMA OneLess == ASSUME NEW c \in Nat, NEW l \in Nat, NEW n \in Nat PROVE c + l - (n - 1) = (c + l - n) + 1
  OBVIOUS

LEMMA SeenRow ==
    ASSUME ImpType, ImpType', SeenInv, NEW w \in Workers, SliceRow(w) \/ SliceRowFails(w)
    PROVE  SeenInv'
<1>1. UNCHANGED <<sheet, staged, batch, jobs>> /\ staged \in Nat
  BY DEF SliceRow, SliceRowFails, ImpType, StoreType
<1>2. RowTaken(w) /\ WorkerType(w) /\ mark \in [1..staged -> ImportRowStatus]
  BY RowFacts DEF ImpType, WorkersType, StoreType
<1>3. PICK s \in ImportRowStatus, field \in Outcomes, known \in SUBSET Nat :
        /\ Fate(w, s, field) /\ mark' = [mark EXCEPT ![Head(work[w].rows)] = s]
        /\ Stepped(w, wpc[w], RowMoved(work[w], field, known))
  BY <1>2 DEF RowTaken
<1>4. s # "new"
  BY <1>3 DEF Fate
<1>5. PICK k \in Slices : k = work[w] /\ k.job \in DOMAIN jobs /\ k.snap \in JobRow /\ k.rows # <<>>
  BY <1>2 DEF WorkerType, RowTaken
<1>6. PICK r \in DOMAIN mark : r = Head(k.rows) /\ mark' = [mark EXCEPT ![r] = s]
  BY <1>2, <1>3, <1>5 DEF RowTaken
<1>7. MarksKept
  BY <1>1, <1>2, <1>4, <1>6 DEF MarksKept
<1>8. PICK m : m = RowMoved(k, field, known)
  OBVIOUS
<1>9. OnlyOne(w) /\ wpc'[w] = wpc[w] /\ work'[w] = m
  BY <1>3, <1>5, <1>8, SteppedOne DEF ImpType
<1>10. m.job = k.job /\ m.snap = k.snap /\ m.rows = Tail(k.rows) /\ m.loaded = k.loaded
  BY <1>8 DEF RowMoved, SliceOf
<1>11. ASSUME wpc[w] = "rows" PROVE SnapSeen(m)' /\ SliceSeen(m)'
  <2>1. SnapSeen(k) /\ SliceSeen(k)
    BY <1>5, <1>11 DEF SeenInv, WorkerSeen
  <2>2. k.snap.cursor \in Nat /\ k.loaded \in Nat
    BY <1>5, JobIs, SliceIs
  <2>3. /\ Len(k.rows) \in Nat \ {0} /\ Head(k.rows) = k.rows[1] /\ 1 \in DOMAIN k.rows
        /\ Len(Tail(k.rows)) = Len(k.rows) - 1
        /\ \A i \in DOMAIN Tail(k.rows) : Tail(k.rows)[i] = k.rows[i + 1] /\ i + 1 \in DOMAIN k.rows
        /\ DOMAIN Tail(k.rows) = 1..(Len(k.rows) - 1)
    BY <1>5, MovedTyped
  <2>4. PICK c, l, n \in Nat : c = k.snap.cursor /\ l = k.loaded /\ n = Len(k.rows)
    BY <2>2, <2>3
  <2>5. n # 0 /\ n <= l /\ c + l <= staged
    BY <2>1, <2>3, <2>4 DEF SliceSeen
  <2>6. PICK t \in Nat : t = c + l - n
    BY <2>4, <2>5
  <2>7. Reached(k) = t /\ Reached(m) = t + 1
    <3>1. Len(m.rows) = n - 1
      BY <1>10, <2>3, <2>4
    <3>2. Reached(k) = c + l - n
      BY <2>4 DEF Reached
    <3>3. Reached(m) = c + l - (n - 1)
      BY <1>10, <2>4, <3>1 DEF Reached
    <3>4. c + l - (n - 1) = (c + l - n) + 1
      BY OneLess
    <3>5. Reached(k) = t
      BY <2>6, <3>2
    <3>6. Reached(m) = t + 1
      BY <2>6, <3>3, <3>4
    <3> QED
      BY <3>5, <3>6
  <2>8. Seen(t) /\ r = t + 1
    BY <1>6, <2>1, <2>3, <2>7 DEF SliceSeen
  <2>9. mark'[r] = s
    BY <1>2, <1>6
  <2>10. Seen(t)'
    BY <1>1, <1>7, <2>8, SeenKept
  <2>11. Seen(t + 1)'
    <3>1. PICK u \in Nat : u = t + 1
      OBVIOUS
    <3>2. 1..u = (1..t) \cup {u}
      BY <3>1
    <3>3. \A x \in 1..t : mark'[x] # "new"
      BY <2>10 DEF Seen
    <3>4. mark'[u] # "new"
      BY <1>4, <2>8, <2>9, <3>1
    <3>5. u <= staged'
      <4>1. PICK g \in Nat : g = staged
        BY <1>1
      <4>2. c + l - n = t /\ c + l <= g /\ n # 0
        BY <2>5, <2>6, <4>1
      <4>3. u <= g
        BY <2>4, <3>1, <4>2
      <4> QED
        BY <1>1, <4>1, <4>3
    <3>6. \A x \in 1..u : mark'[x] # "new"
      BY <3>2, <3>3, <3>4
    <3> QED
      BY <3>1, <3>5, <3>6 DEF Seen
  <2>12. \A i \in DOMAIN m.rows : m.rows[i] = t + 1 + i
    <3>1. ASSUME NEW i \in DOMAIN Tail(k.rows) PROVE Tail(k.rows)[i] = t + 1 + i
      <4>1. k.rows[i + 1] = t + (i + 1) /\ i \in Nat
        BY <2>1, <2>3, <2>7, <3>1 DEF SliceSeen
      <4> QED
        BY <2>3, <4>1
    <3> QED
      BY <1>10, <3>1
  <2>13. Len(m.rows) <= m.loaded /\ m.snap.cursor + m.loaded <= staged
    BY <1>10, <2>3, <2>4, <2>5
  <2>14. m.loaded = 0 /\ m.snap.ready => m.snap.cursor >= staged
    BY <1>10, <2>1 DEF SliceSeen
  <2>15. SliceSeen(m)'
    BY <1>1, <2>7, <2>11, <2>12, <2>13, <2>14 DEF SliceSeen, Reached
  <2>16. Seen(k.snap.cursor)'
    BY <1>1, <1>7, <2>1, <2>2, SeenKept DEF SnapSeen
  <2>17. SnapSeen(m)'
    BY <1>1, <1>10, <2>1, <2>16 DEF SnapSeen
  <2> QED
    BY <2>15, <2>17
<1>12. WorkerSeen(w)'
  <2>1. wpc[w] \in {"rows", "flush"}
    BY <1>2 DEF RowTaken
  <2> QED
    BY <1>9, <1>11, <2>1 DEF WorkerSeen, SnapSeen, SliceSeen, Reached
<1>13. \A i \in DOMAIN jobs' : JobSeen(i)'
  <2>1. ASSUME NEW i \in DOMAIN jobs PROVE JobSeen(i)'
    <3>1. PICK j \in JobRow : j = jobs[i]
      BY LenProperties DEF ImpType, JobsType
    <3>2. JobSeen(i)
      BY DEF SeenInv
    <3> QED
      BY <1>1, <1>7, <3>1, <3>2, JobSeenKept
  <2> QED
    BY <1>1, <2>1
<1> QED
  BY <1>1, <1>7, <1>9, <1>12, <1>13, SeenActs

LEMMA SeenFinish ==
    ASSUME ImpType, ImpType', SeenInv, NEW w \in Workers, FinishSlice(w) \/ FinishFlush(w)
    PROVE  SeenInv'
<1>1. UNCHANGED <<sheet, staged, mark, batch>> /\ MarksKept /\ staged \in Nat
  BY MarksSame DEF FinishSlice, FinishFlush, Store, ImpType, StoreType
<1>2. PICK i \in DOMAIN jobs : i = work[w].job
  BY FinishWrites, FlushWrites
<1>3. PICK j \in JobRow : j = jobs[i]
  BY LenProperties DEF ImpType, JobsType
<1>4. PICK k \in Slices : k = work[w]
  BY DEF ImpType, WorkersType, WorkerType
<1>5. /\ wpc'[w] \in {"idle", "review"} /\ OnlyOne(w) /\ DOMAIN jobs' = DOMAIN jobs
      /\ \A x \in DOMAIN jobs : x # i => jobs'[x] = jobs[x]
  BY <1>2, FinishTyped
<1>6. JobSeen(i)
  BY DEF SeenInv
<1>7. /\ jobs'[i].ready = j.ready /\ jobs'[i].total = j.total /\ JobSeen(i)'
  <2>1. CASE FinishSlice(w)
    <3>1. PICK z \in JobRow : z = SliceDone(j, k) /\ jobs' = [jobs EXCEPT ![i] = z]
      BY <1>2, <1>3, <1>4, <2>1, FinishWrites
    <3>2. jobs'[i] = z
      BY <3>1
    <3>3. /\ z.ready = j.ready /\ z.total = j.total /\ z.cursor = k.snap.cursor + k.loaded
          /\ z.status = "done" => k.snap.cursor + k.loaded >= k.snap.total \/ k.loaded = 0
      BY <3>1 DEF SliceDone, JobOf, CursorAfter
    <3>4. SnapSeen(k) /\ SliceSeen(k) /\ k.rows = <<>> /\ k.snap \in JobRow
      BY <1>4, <2>1, FinishWrites DEF SeenInv, WorkerSeen, FinishSlice
    <3>5. PICK c, l \in Nat : c = k.snap.cursor /\ l = k.loaded
      BY <3>4, JobIs, SliceIs
    <3>6. Reached(k) = c + l
      BY <3>4, <3>5, EmptySeq DEF Reached
    <3>7. Seen(c + l)
      BY <3>4, <3>6 DEF SliceSeen
    <3>8. k.snap.ready = j.ready /\ k.snap.total = j.total
      BY <1>2, <1>3, <1>4, <3>4 DEF SnapSeen
    <3>9. j.ready => batch = "ready" /\ j.total = staged
      BY <1>3, <1>6 DEF JobSeen
    <3>10. j.ready /\ z.status = "done" => c + l >= staged
      <4>1. l = 0 /\ j.ready => c >= staged
        BY <3>4, <3>5, <3>8 DEF SliceSeen
      <4> QED
        BY <1>1, <3>3, <3>5, <3>8, <3>9, <4>1
    <3> QED
      BY <1>1, <3>2, <3>3, <3>5, <3>7, <3>9, <3>10 DEF JobSeen, Seen
  <2>2. CASE FinishFlush(w)
    <3>1. PICK z \in JobRow : z = FlushDone(j, k) /\ jobs' = [jobs EXCEPT ![i] = z]
      BY <1>2, <1>3, <1>4, <2>2, FlushWrites
    <3>2. jobs'[i] = z
      BY <3>1
    <3>3. z.ready = j.ready /\ z.total = j.total /\ z.cursor = j.cursor /\ z.status = j.status
      BY <3>1 DEF FlushDone, JobOf
    <3> QED
      BY <1>1, <1>3, <1>6, <3>2, <3>3 DEF JobSeen, Seen
  <2> QED
    BY <2>1, <2>2
<1>8. ASSUME NEW x \in DOMAIN jobs PROVE JobSeen(x)'
  <2>1. CASE x = i
    BY <1>7, <2>1
  <2>2. CASE x # i
    BY <1>1, <1>5, <2>2 DEF SeenInv, JobSeen, Seen
  <2> QED
    BY <2>1, <2>2
<1>9. WorkerSeen(w)'
  BY <1>5 DEF WorkerSeen
<1>10. \A x \in DOMAIN jobs : jobs'[x].ready = jobs[x].ready /\ jobs'[x].total = jobs[x].total
  BY <1>3, <1>5, <1>7
<1>11. \A x \in DOMAIN jobs' : JobSeen(x)'
  BY <1>5, <1>8
<1> QED
  BY <1>1, <1>5, <1>9, <1>10, <1>11, SeenActs

LEMMA SeenStep ==
    ASSUME ImpType, SeenInv, [ImpNext]_impVars
    PROVE  SeenInv'
<1>1. ImpType'
  BY ImpTypeStep
<1>2. WorkersType /\ staged \in Nat
  BY DEF ImpType, StoreType
<1>3. ASSUME NEW w \in Workers, NEW j, TickJob(w, j) PROVE SeenInv'
  <2>1. PICK k : Stepped(w, "read", k)
    BY <1>3 DEF TickJob, Stepped
  <2>2. OnlyOne(w) /\ wpc'[w] = "read"
    BY <1>2, <2>1, SteppedOne
  <2> QED
    BY <1>1, <1>3, <2>2, SeenAway DEF TickJob, Store
<1>4. ASSUME NEW w \in Workers, NEW j, BeginFlush(w, j) PROVE SeenInv'
  <2>1. PICK n \in 0..Slice : \E rows \in [1..n -> HeldRows] :
          Stepped(w, "loadheld", Flushing(j, jobs[j], rows))
    BY <1>4, FlushTyped
  <2>2. OnlyOne(w) /\ wpc'[w] = "loadheld"
    BY <1>2, <2>1, SteppedOne
  <2> QED
    BY <1>1, <1>4, <2>2, SeenAway DEF BeginFlush, Store
<1>5. ASSUME NEW w \in Workers, LoadHeld(w) PROVE SeenInv'
  <2>1. OnlyOne(w) /\ wpc'[w] = "flush"
    BY <1>2, <1>5, LoadHeldTyped, SteppedOne
  <2> QED
    BY <1>1, <1>5, <2>1, SeenAway DEF LoadHeld, Store
<1>6. ASSUME NEW w \in Workers, EnqueueReview(w) \/ CutOff(w) PROVE SeenInv'
  <2>1. OnlyOne(w) /\ wpc'[w] = "idle"
    BY <1>6, IdleTyped
  <2> QED
    BY <1>1, <1>6, <2>1, SeenAway DEF EnqueueReview, CutOff, Store
<1>7. ASSUME NEW w \in Workers, WorkerStep(w) PROVE SeenInv'
  BY <1>1, <1>5, <1>6, <1>7, SeenRead, SeenRun, SeenLoad, SeenRow, SeenFinish DEF WorkerStep
<1>8. ASSUME NEW w \in Workers, startImport(w) \/ ingestText(w) \/ SliceRowFails(w) \/ CutOff(w)
      PROVE  SeenInv'
  BY <1>1, <1>6, <1>8, SeenStart, SeenRow
<1>9. ASSUME NEW w \in Workers, NEW j, ImportTick(w, j) \/ tickToDone(w, j) \/ BeginFlush(w, j)
      PROVE  SeenInv'
  BY <1>3, <1>4, <1>9 DEF ImportTick, tickToDone
<1>10. ASSUME MarksKept, UNCHANGED <<jobs, wpc, work>> PROVE SeenInv'
  BY <1>1, <1>10, SeenStaging
<1>11. ASSUME NEW m \in Sheets, ingestTable(m) PROVE SeenInv'
  <2>1. batch = "none"
    BY <1>11 DEF ingestTable, ImpType, StoreType, SheetType
  <2>2. MarksKept
    BY <1>2, <1>11, <2>1 DEF ingestTable, MarksKept
  <2> QED
    BY <1>10, <1>11, <2>2 DEF ingestTable
<1>12. ASSUME NEW t \in Texts, NEW src \in {"json", "model"}, NEW ok \in BOOLEAN, stageExtracted(src, t, ok)
       PROVE  SeenInv'
  <2>1. batch = "none"
    BY <1>12 DEF stageExtracted, ImpType, StoreType, SheetType
  <2>2. MarksKept
    BY <1>2, <1>12, <2>1 DEF stageExtracted, MarksKept
  <2> QED
    BY <1>10, <1>12, <2>2 DEF stageExtracted
<1>13. ASSUME InsertChunk PROVE SeenInv'
  <2>1. MarksKept
    BY <1>2, <1>13, ChunkStaged DEF InsertChunk, MarksKept, ImpType
  <2> QED
    BY <1>10, <1>13, <2>1 DEF InsertChunk
<1>14. ASSUME BatchReady \/ saveMapping \/ UNCHANGED impVars PROVE SeenInv'
  <2>1. MarksKept
    BY <1>2, <1>14 DEF BatchReady, saveMapping, impVars, MarksKept
  <2> QED
    BY <1>10, <1>14, <2>1 DEF BatchReady, saveMapping, impVars
<1> QED
  BY <1>7, <1>8, <1>9, <1>11, <1>12, <1>13, <1>14 DEF ImpNext

LEMMA SeenEnough == ASSUME ImpType, SeenInv PROVE DoneMeansProcessed
<1> SUFFICES ASSUME NEW j \in DOMAIN jobs, jobs[j].status = "done", jobs[j].ready, NEW r \in DOMAIN mark
             PROVE  mark[r] # "new"
  BY DEF DoneMeansProcessed
<1>1. jobs[j].cursor >= staged /\ Seen(jobs[j].cursor)
  BY DEF SeenInv, JobSeen
<1>2. PICK c \in Nat : c = jobs[j].cursor
  BY JobIs, LenProperties DEF ImpType, JobsType
<1>3. staged \in Nat /\ DOMAIN mark = 1..staged
  BY DEF ImpType, StoreType
<1>4. r \in 1..c
  BY <1>1, <1>2, <1>3
<1> QED
  BY <1>1, <1>2, <1>4 DEF Seen

-----------------------------------------------------------------------------
(* Imports: the counts add up.                                             *)

IsTable == sheet # NoSheet /\ sheet.source = "table"

LEMMA HeldFinite == ASSUME StoreType PROVE IsFiniteSet(HeldRows) /\ Cardinality(HeldRows) \in Nat
<1>1. PICK n \in Nat : n = staged
  BY DEF StoreType
<1>2. PICK a, b \in Int : a = 1 /\ b = n
  OBVIOUS
<1>3. IsFiniteSet(a..b)
  BY FS_Interval
<1>4. HeldRows \subseteq 1..n
  BY <1>1 DEF HeldRows, StoreType
<1>5. IsFiniteSet(HeldRows)
  BY <1>2, <1>3, <1>4, FS_Subset
<1> QED
  BY <1>5, FS_CardinalityType

LEMMA HeldSame == ASSUME mark' = mark PROVE HeldRows' = HeldRows
  BY DEF HeldRows

LEMMA HeldActs ==
    ASSUME ImpType, ImpType', HeldInv, sheet' = sheet, NEW w \in Workers, OnlyOne(w),
           jobs = <<>> \/ IsTable => HeldRows' = {},
           Len(jobs') = Len(jobs),
           \A i \in DOMAIN jobs : jobs'[i].minConfidence = jobs[i].minConfidence,
           wpc'[w] = "read" => Dealt(work'[w]) = 0,
           Importing(w)' => \/ /\ Importing(w)
                               /\ work'[w].snap.minConfidence = work[w].snap.minConfidence
                            \/ \E i \in DOMAIN jobs :
                                  work'[w].snap.minConfidence = jobs[i].minConfidence
    PROVE  HeldInv'
<1>1. DOMAIN jobs' = DOMAIN jobs /\ (jobs' = <<>> => jobs = <<>>)
  <2>1. jobs \in Seq(JobRow) /\ jobs' \in Seq(JobRow)
    BY DEF ImpType, JobsType
  <2> QED
    BY <2>1, LenProperties, EmptySeq
<1>2. \A v \in Workers \ {w} : wpc'[v] = wpc[v] /\ work'[v] = work[v]
  BY DEF OnlyOne
<1>3. jobs' = <<>> => HeldRows' = {}
  BY <1>1
<1>4. IsTable => /\ HeldRows' = {}
                 /\ \A i \in DOMAIN jobs' : jobs'[i].minConfidence = 0
                 /\ \A v \in Workers : Importing(v)' => work'[v].snap.minConfidence = 0
  <2> SUFFICES ASSUME IsTable
               PROVE  /\ HeldRows' = {}
                      /\ \A i \in DOMAIN jobs' : jobs'[i].minConfidence = 0
                      /\ \A v \in Workers : Importing(v)' => work'[v].snap.minConfidence = 0
    OBVIOUS
  <2>1. /\ \A i \in DOMAIN jobs : jobs[i].minConfidence = 0
        /\ \A v \in Workers : Importing(v) => work[v].snap.minConfidence = 0
    BY DEF HeldInv, IsTable
  <2>2. ASSUME NEW v \in Workers, Importing(v)' PROVE work'[v].snap.minConfidence = 0
    <3>1. CASE v = w
      BY <2>1, <2>2, <3>1
    <3>2. CASE v # w
      BY <1>2, <2>1, <2>2, <3>2 DEF Importing
    <3> QED
      BY <3>1, <3>2
  <2> QED
    BY <1>1, <2>1, <2>2
<1>5. sheet # NoSheet /\ sheet.source # "table" => Len(jobs') <= 1
  BY DEF HeldInv
<1>6. \A v \in Workers : wpc'[v] = "read" => Dealt(work'[v]) = 0
  BY <1>2 DEF HeldInv
<1> QED
  BY <1>3, <1>4, <1>5, <1>6 DEF HeldInv, IsTable

(* The steps that leave the marks and the jobs alone.                      *)
LEMMA HeldAway ==
    ASSUME ImpType, ImpType', HeldInv, UNCHANGED <<sheet, mark, jobs>>, NEW w \in Workers, OnlyOne(w),
           wpc'[w] = "read" => Dealt(work'[w]) = 0,
           Importing(w)' => \/ Importing(w) /\ work'[w].snap = work[w].snap
                            \/ \E i \in DOMAIN jobs : work'[w].snap = jobs[i]
    PROVE  HeldInv'
<1>1. HeldRows' = HeldRows
  BY HeldSame
<1>2. jobs = <<>> \/ IsTable => HeldRows' = {}
  BY <1>1 DEF HeldInv, IsTable
<1> QED
  BY <1>2, HeldActs

LEMMA FreshDealt == ASSUME NEW job, NEW ingest PROVE Dealt(JobSlice(job, ingest)) = 0
  BY DEF Dealt, JobSlice, SliceOf

LEMMA HeldTick == ASSUME ImpType, HeldInv, NEW w \in Workers, NEW j, TickJob(w, j) PROVE HeldInv'
<1>1. PICK k : k = JobSlice(j, FALSE) /\ Stepped(w, "read", k)
  BY JobSlices DEF TickJob, Stepped
<1>2. OnlyOne(w) /\ wpc'[w] = "read" /\ work'[w] = k
  BY <1>1, SteppedOne DEF ImpType
<1>3. ~Importing(w)'
  BY <1>2 DEF Importing
<1> QED
  BY <1>1, <1>2, <1>3, TickTyped, FreshDealt, HeldAway DEF TickJob, Store

LEMMA HeldRead == ASSUME ImpType, HeldInv, NEW w \in Workers, ReadJob(w) PROVE HeldInv'
<1>1. CASE Stepped(w, "idle", JobSlice(0, FALSE))
  <2>1. OnlyOne(w) /\ wpc'[w] = "idle"
    BY <1>1, SteppedOne DEF ImpType
  <2>2. ~Importing(w)'
    BY <2>1 DEF Importing
  <2> QED
    BY <2>1, <2>2, ReadTyped, HeldAway DEF ReadJob, Store
<1>2. CASE Stepped(w, "running", Snapped(work[w], jobs[work[w].job]))
  <2>1. PICK i \in DOMAIN jobs : i = work[w].job
    BY DEF ImpType, WorkersType, WorkerType, ReadJob
  <2>2. PICK k : k = Snapped(work[w], jobs[i])
    OBVIOUS
  <2>3. OnlyOne(w) /\ wpc'[w] = "running" /\ work'[w] = k
    BY <1>2, <2>1, <2>2, SteppedOne DEF ImpType
  <2>4. k.snap = jobs[i]
    BY <2>2 DEF Snapped, SliceOf
  <2> QED
    BY <2>3, <2>4, ReadTyped, HeldAway DEF ReadJob, Store
<1> QED
  BY <1>1, <1>2, ReadTyped

LEMMA HeldLoad ==
    ASSUME ImpType, HeldInv, NEW w \in Workers, LoadSlice(w) \/ LoadHeld(w)
    PROVE  HeldInv'
<1>1. PICK k, p : /\ k.snap = work[w].snap /\ p \in {"rows", "flush"} /\ Stepped(w, p, k)
  <2>1. CASE LoadSlice(w)
    <3>1. PICK m : m = Loaded(work[w], loadRows(work[w].snap.cursor), DOMAIN crm)
      OBVIOUS
    <3>2. m.snap = work[w].snap
      BY <3>1 DEF Loaded, SliceOf
    <3> QED
      BY <2>1, <3>1, <3>2, LoadTyped
  <2>2. CASE LoadHeld(w)
    <3>1. PICK m : m = Mapped(work[w], DOMAIN crm)
      OBVIOUS
    <3>2. m.snap = work[w].snap
      BY <3>1 DEF Mapped, SliceOf
    <3> QED
      BY <2>2, <3>1, <3>2, LoadHeldTyped
  <2> QED
    BY <2>1, <2>2
<1>2. OnlyOne(w) /\ wpc'[w] = p /\ work'[w] = k
  BY <1>1, SteppedOne DEF ImpType
<1>3. Importing(w)
  BY DEF Importing, LoadSlice, LoadHeld
<1> QED
  BY <1>1, <1>2, <1>3, LoadTyped, LoadHeldTyped, HeldAway DEF LoadSlice, LoadHeld, Store

LEMMA HeldIdle ==
    ASSUME ImpType, HeldInv, NEW w \in Workers, EnqueueReview(w) \/ CutOff(w)
    PROVE  HeldInv'
<1>1. OnlyOne(w) /\ wpc'[w] = "idle"
  BY IdleTyped
<1>2. ~Importing(w)'
  BY <1>1 DEF Importing
<1> QED
  BY <1>1, <1>2, IdleTyped, HeldAway DEF EnqueueReview, CutOff, Store

LEMMA HeldFlush == ASSUME ImpType, HeldInv, NEW w \in Workers, NEW j, BeginFlush(w, j) PROVE HeldInv'
<1>1. PICK i \in DOMAIN jobs : i = j
  BY FlushTyped
<1>2. PICK n \in 0..Slice : \E rows \in [1..n -> HeldRows] :
        Stepped(w, "loadheld", Flushing(j, jobs[j], rows))
  BY FlushTyped
<1>3. PICK rows \in [1..n -> HeldRows] : Stepped(w, "loadheld", Flushing(j, jobs[j], rows))
  BY <1>2
<1>4. PICK k : k = Flushing(j, jobs[j], rows)
  OBVIOUS
<1>5. OnlyOne(w) /\ wpc'[w] = "loadheld" /\ work'[w] = k
  BY <1>3, <1>4, SteppedOne DEF ImpType
<1>6. k.snap = jobs[i]
  BY <1>1, <1>4 DEF Flushing, SliceOf
<1> QED
  BY <1>5, <1>6, FlushTyped, HeldAway DEF BeginFlush, Store

LEMMA HeldMarked ==
    ASSUME NEW r \in DOMAIN mark, NEW s, mark' = [mark EXCEPT ![r] = s]
    PROVE  HeldRows' = IF s = "held" THEN HeldRows \cup {r} ELSE HeldRows \ {r}
<1>1. CASE s = "held"
  BY <1>1 DEF HeldRows
<1>2. CASE s # "held"
  BY <1>2 DEF HeldRows
<1> QED
  BY <1>1, <1>2

LEMMA TableNotHeld ==
    ASSUME ImpType, HeldInv, IsTable, NEW w \in Workers, NEW r \in DOMAIN mark
    PROVE  ~HeldBack(w, r)
<1> SUFFICES ASSUME HeldBack(w, r) PROVE FALSE
  OBVIOUS
<1>1. wpc[w] = "rows" /\ sheet.confidence[r] < work[w].snap.minConfidence
  BY DEF HeldBack, heldByConfidence
<1>2. work[w].snap.minConfidence = 0
  BY <1>1 DEF HeldInv, IsTable, Importing
<1>3. sheet.confidence[r] = 10
  <2>1. r \in 1..staged /\ staged \in Nat /\ staged <= Len(sheet.rows) /\ Len(sheet.rows) \in Nat
    BY DEF ImpType, StoreType, SheetType, IsTable
  <2>2. r \in 1..Len(sheet.rows)
    BY <2>1
  <2> QED
    BY <2>2 DEF ImpType, StoreType, SheetType, IsTable
<1> QED
  BY <1>1, <1>2, <1>3

LEMMA HeldRow ==
    ASSUME ImpType, HeldInv, NEW w \in Workers, SliceRow(w) \/ SliceRowFails(w)
    PROVE  HeldInv'
<1>1. UNCHANGED <<sheet, jobs>> /\ ImpType' /\ RowTaken(w) /\ WorkerType(w)
  BY RowTyped, RowFacts DEF SliceRow, SliceRowFails, ImpType, WorkersType
<1>2. PICK s \in ImportRowStatus, field \in Outcomes, known \in SUBSET Nat :
        /\ Fate(w, s, field) /\ mark' = [mark EXCEPT ![Head(work[w].rows)] = s]
        /\ Stepped(w, wpc[w], RowMoved(work[w], field, known))
  BY <1>1 DEF RowTaken
<1>3. PICK r \in DOMAIN mark : r = Head(work[w].rows) /\ mark' = [mark EXCEPT ![r] = s]
  BY <1>1, <1>2 DEF RowTaken
<1>4. PICK m : m = RowMoved(work[w], field, known)
  OBVIOUS
<1>5. OnlyOne(w) /\ wpc'[w] = wpc[w] /\ work'[w] = m
  BY <1>2, <1>4, SteppedOne DEF ImpType
<1>6. m.snap = work[w].snap
  BY <1>4 DEF RowMoved, SliceOf
<1>7. wpc[w] \in {"rows", "flush"} /\ Importing(w) /\ jobs # <<>>
  <2>1. wpc[w] \in {"rows", "flush"}
    BY <1>1 DEF RowTaken
  <2>2. work[w].job \in DOMAIN jobs
    BY <1>1, <2>1 DEF WorkerType
  <2> QED
    BY <2>1, <2>2 DEF Importing
<1>8. IsTable => HeldRows' = {}
  <2> SUFFICES ASSUME IsTable PROVE HeldRows' = {}
    OBVIOUS
  <2>1. ~HeldBack(w, Head(work[w].rows))
    BY <1>3, TableNotHeld
  <2>2. s # "held"
    BY <1>2, <2>1 DEF Fate
  <2>3. HeldRows' = HeldRows \ {r}
    BY <1>3, <2>2, HeldMarked
  <2> QED
    BY <2>3 DEF HeldInv, IsTable
<1> QED
  BY <1>1, <1>5, <1>6, <1>7, <1>8, HeldActs

LEMMA HeldRun ==
    ASSUME ImpType, HeldInv, NEW w \in Workers, SetRunning(w)
    PROVE  HeldInv'
<1>1. PICK i \in DOMAIN jobs, r \in JobRow : r = Run(jobs[i]) /\ jobs' = [jobs EXCEPT ![i] = r]
  BY RunTyped
<1>2. /\ Len(jobs') = Len(jobs) /\ jobs'[i] = r /\ \A x \in DOMAIN jobs : x # i => jobs'[x] = jobs[x]
  BY <1>1, JobSet DEF ImpType, JobsType
<1>3. r.minConfidence = jobs[i].minConfidence
  BY <1>1 DEF Run, JobOf
<1>4. OnlyOne(w) /\ wpc'[w] = "load" /\ work'[w] = work[w]
  BY RunTyped, SteppedOne DEF ImpType
<1>5. Importing(w) /\ HeldRows' = HeldRows
  BY HeldSame DEF SetRunning, Importing, Store
<1>6. jobs = <<>> \/ IsTable => HeldRows' = {}
  BY <1>5 DEF HeldInv, IsTable
<1>7. \A x \in DOMAIN jobs : jobs'[x].minConfidence = jobs[x].minConfidence
  BY <1>2, <1>3
<1> QED
  BY <1>2, <1>4, <1>5, <1>6, <1>7, RunTyped, HeldActs DEF SetRunning, Store

LEMMA HeldFinish ==
    ASSUME ImpType, HeldInv, NEW w \in Workers, FinishSlice(w) \/ FinishFlush(w)
    PROVE  HeldInv'
<1>1. PICK i \in DOMAIN jobs, r \in JobRow :
        /\ i = work[w].job /\ r.minConfidence = jobs[i].minConfidence
        /\ jobs' = [jobs EXCEPT ![i] = r]
  <2>1. CASE FinishSlice(w)
    <3>1. SliceDone(jobs[work[w].job], work[w]).minConfidence = jobs[work[w].job].minConfidence
      BY DEF SliceDone, JobOf
    <3> QED
      BY <2>1, <3>1, FinishWrites
  <2>2. CASE FinishFlush(w)
    <3>1. FlushDone(jobs[work[w].job], work[w]).minConfidence = jobs[work[w].job].minConfidence
      BY DEF FlushDone, JobOf
    <3> QED
      BY <2>2, <3>1, FlushWrites
  <2> QED
    BY <2>1, <2>2
<1>2. /\ Len(jobs') = Len(jobs) /\ jobs'[i] = r /\ \A x \in DOMAIN jobs : x # i => jobs'[x] = jobs[x]
  BY <1>1, JobSet DEF ImpType, JobsType
<1>3. OnlyOne(w) /\ wpc'[w] \in {"idle", "review"} /\ ImpType'
  BY FinishTyped
<1>4. ~Importing(w)' /\ HeldRows' = HeldRows
  BY <1>3, HeldSame DEF FinishSlice, FinishFlush, Importing, Store
<1>5. jobs = <<>> \/ IsTable => HeldRows' = {}
  BY <1>4 DEF HeldInv, IsTable
<1>6. \A x \in DOMAIN jobs : jobs'[x].minConfidence = jobs[x].minConfidence
  BY <1>1, <1>2
<1> QED
  BY <1>2, <1>3, <1>4, <1>5, <1>6, HeldActs DEF FinishSlice, FinishFlush, Store

(* The steps of no worker.                                                 *)
LEMMA HeldStill ==
    ASSUME ImpType, HeldInv, HeldRows' = HeldRows, UNCHANGED <<jobs, wpc, work>>,
           sheet' = sheet \/ (jobs = <<>> /\ HeldRows = {})
    PROVE  HeldInv'
<1>1. CASE sheet' = sheet
  BY <1>1 DEF HeldInv, Importing
<1>2. CASE jobs = <<>> /\ HeldRows = {}
  <2>1. \A w \in Workers : ~Importing(w)
    BY <1>2 DEF ImpType, WorkersType, WorkerType, Importing
  <2>2. \A w \in Workers : ~Importing(w)'
    BY <2>1 DEF Importing
  <2>3. Len(jobs') <= 1 /\ DOMAIN jobs' = {}
    BY <1>2, EmptySeq
  <2>4. jobs' = <<>> => HeldRows' = {}
    BY <1>2
  <2>5. \A w \in Workers : wpc'[w] = "read" => Dealt(work'[w]) = 0
    BY DEF HeldInv
  <2> QED
    BY <1>2, <2>2, <2>3, <2>4, <2>5 DEF HeldInv
<1> QED
  BY <1>1, <1>2

LEMMA NothingStaged ==
    ASSUME ImpType, sheet = NoSheet
    PROVE  jobs = <<>> /\ HeldRows = {}
<1>1. DOMAIN mark = {}
  BY DEF ImpType, StoreType, SheetType
<1>2. jobs = <<>>
  BY DEF ImpType, JobsType, MappingType
<1> QED
  BY <1>1, <1>2 DEF HeldRows

LEMMA ChunkHeld == ASSUME StoreType, InsertChunk PROVE HeldRows' = HeldRows
<1>1. /\ staged \in Nat /\ staged' \in Nat /\ staged <= staged'
      /\ DOMAIN mark = 1..staged /\ DOMAIN mark' = 1..staged'
      /\ \A r \in 1..staged : mark'[r] = mark[r]
      /\ \A r \in 1..staged' : r > staged => mark'[r] = "new"
  BY ChunkStaged DEF StoreType
<1>2. ASSUME NEW r \in 1..staged', mark'[r] = "held" PROVE r \in 1..staged
  BY <1>1, <1>2
<1>3. 1..staged \subseteq 1..staged'
  BY <1>1
<1> QED
  BY <1>1, <1>2, <1>3 DEF HeldRows

LEMMA HeldStaging ==
    ASSUME ImpType, HeldInv,
           \/ \E m \in Sheets : ingestTable(m)
           \/ \E t \in Texts, src \in {"json", "model"}, ok \in BOOLEAN : stageExtracted(src, t, ok)
           \/ InsertChunk \/ BatchReady \/ saveMapping \/ UNCHANGED impVars
    PROVE  HeldInv' /\ HeldRows' = HeldRows /\ UNCHANGED <<jobs, wpc, work, sliceRaced, spent>>
<1>1. UNCHANGED <<jobs, wpc, work, sliceRaced, spent>>
  BY DEF ingestTable, stageExtracted, InsertChunk, BatchReady, saveMapping, impVars
<1>2. HeldRows' = HeldRows
  BY HeldSame, ChunkHeld DEF ingestTable, stageExtracted, BatchReady, saveMapping, impVars, ImpType
<1>3. sheet' = sheet \/ sheet = NoSheet
  BY DEF ingestTable, stageExtracted, InsertChunk, BatchReady, saveMapping, impVars
<1>4. HeldInv'
  BY <1>1, <1>2, <1>3, NothingStaged, HeldStill
<1> QED
  BY <1>1, <1>2, <1>4

LEMMA HeldStart ==
    ASSUME ImpType, HeldInv, NEW w \in Workers, startImport(w) \/ ingestText(w)
    PROVE  HeldInv' /\ HeldRows' = HeldRows /\ (IsTable \/ jobs = <<>>) /\ OnlyOne(w) /\ wpc'[w] = "read"
<1>1. PICK conf \in 0..10 : /\ jobs' = Append(jobs, NewJob(conf))
                            /\ startImport(w) => conf = 0
  <2>1. CASE startImport(w)
    BY <2>1 DEF startImport
  <2>2. CASE ~startImport(w)
    BY <2>2, StartTyped
  <2> QED
    BY <2>1, <2>2
<1>2. PICK j \in JobRow : j = NewJob(conf)
  BY NewJobTyped DEF ImpType
<1>3. j.minConfidence = conf
  BY <1>2 DEF NewJob
<1>4. /\ Len(jobs) \in Nat /\ Len(jobs') = Len(jobs) + 1 /\ jobs' # <<>>
      /\ DOMAIN jobs' = 1..(Len(jobs) + 1) /\ DOMAIN jobs = 1..Len(jobs)
      /\ jobs'[Len(jobs) + 1] = j /\ \A x \in DOMAIN jobs : jobs'[x] = jobs[x]
  BY <1>1, <1>2, JobAdded DEF ImpType, JobsType
<1>5. PICK ingest \in BOOLEAN : Stepped(w, "read", JobSlice(Len(jobs) + 1, ingest))
  BY JobSlices DEF startImport, ingestText, Stepped
<1>6. PICK k : k = JobSlice(Len(jobs) + 1, ingest) /\ Stepped(w, "read", k)
  BY <1>5
<1>7. OnlyOne(w) /\ wpc'[w] = "read" /\ work'[w] = k /\ Dealt(k) = 0
  BY <1>6, SteppedOne, FreshDealt DEF ImpType
<1>8. sheet' = sheet /\ HeldRows' = HeldRows
  BY HeldSame DEF startImport, ingestText, Store
<1>9. \A v \in Workers \ {w} : wpc'[v] = wpc[v] /\ work'[v] = work[v]
  BY <1>7 DEF OnlyOne
<1>10. \A v \in Workers : wpc'[v] = "read" => Dealt(work'[v]) = 0
  BY <1>7, <1>9 DEF HeldInv
<1>11. \A v \in Workers : Importing(v)' => Importing(v) /\ work'[v] = work[v]
  BY <1>7, <1>9 DEF Importing
<1>12. ASSUME startImport(w) PROVE HeldInv' /\ IsTable
  <2>1. IsTable
    BY <1>12 DEF startImport, IsTable
  <2>2. \A i \in DOMAIN jobs' : jobs'[i].minConfidence = 0
    <3>1. \A i \in DOMAIN jobs' : i \in DOMAIN jobs \/ i = Len(jobs) + 1
      BY <1>4
    <3> QED
      BY <1>1, <1>3, <1>4, <1>12, <2>1, <3>1 DEF HeldInv, IsTable
  <2>3. \A v \in Workers : Importing(v)' => work'[v].snap.minConfidence = 0
    BY <1>11, <2>1 DEF HeldInv, IsTable
  <2>4. HeldRows' = {}
    BY <1>8, <2>1 DEF HeldInv, IsTable
  <2>5. sheet'.source = "table"
    BY <1>8, <2>1 DEF IsTable
  <2> QED
    BY <1>10, <2>1, <2>2, <2>3, <2>4, <2>5 DEF HeldInv
<1>13. ASSUME ingestText(w) PROVE HeldInv' /\ jobs = <<>>
  <2>1. jobs = <<>> /\ sheet.source # "table"
    BY <1>13 DEF ingestText
  <2>2. Len(jobs') <= 1
    BY <1>4, <2>1, EmptySeq
  <2>3. HeldRows' = {}
    BY <1>8, <2>1 DEF HeldInv
  <2>4. sheet'.source # "table"
    BY <1>8, <2>1
  <2> QED
    BY <1>10, <2>1, <2>2, <2>3, <2>4 DEF HeldInv
<1> QED
  BY <1>7, <1>8, <1>12, <1>13

(* While the counts are worth anything, only one worker imports.           *)
LEMMA OthersOut ==
    ASSUME MapsInv, ~sliceRaced, NEW w \in Workers, Importing(w)
    PROVE  \A v \in Workers \ {w} : ~Importing(v)
  BY DEF MapsInv, OneImporter

(* The worker that acts is the only importer there is or was.              *)
LEMMA CountsActs ==
    ASSUME NEW w \in Workers, OnlyOne(w), \A v \in Workers \ {w} : ~Importing(v),
           \A i \in DOMAIN jobs' : Dealt(jobs'[i]) = jobs'[i].cursor,
           Importing(w)' => WorkerCounts(w)',
           ~Importing(w)' => \A i \in DOMAIN jobs' : (Cardinality(HeldRows) <= jobs[i].held)'
    PROVE  Counted'
<1>1. \A v \in Workers \ {w} : ~Importing(v)'
  BY DEF OnlyOne, Importing
<1>2. \A v \in Workers : Importing(v)' => v = w
  BY <1>1
<1>3. \A v \in Workers : Importing(v)' => WorkerCounts(v)'
  BY <1>2
<1>4. (\A v \in Workers : ~Importing(v)') => ~Importing(w)'
  OBVIOUS
<1> QED
  BY <1>3, <1>4 DEF Counted

(* Nobody imports, and nobody begins to.                                   *)
LEMMA CountsStill ==
    ASSUME Counted, HeldRows' = HeldRows, UNCHANGED <<jobs, wpc, work>>,
           \A w \in Workers, r \in DOMAIN mark : Importing(w) => mark'[r] = mark[r],
           ImpType
    PROVE  Counted'
<1>1. \A w \in Workers : Importing(w)' <=> Importing(w)
  BY DEF Importing
<1>2. ASSUME NEW w \in Workers, Importing(w) PROVE WorkerCounts(w)'
  <2>1. WorkerCounts(w)
    BY <1>2 DEF Counted
  <2>2. \A i \in DOMAIN work[w].rows : work[w].rows[i] \in DOMAIN mark
    BY DEF ImpType, WorkersType, WorkerType
  <2>3. PICK k : k = work[w]
    OBVIOUS
  <2>4. \A i \in DOMAIN k.rows : mark[k.rows[i]] = "held" => mark'[k.rows[i]] = "held"
    BY <1>2, <2>2, <2>3
  <2>5. k = work'[w]
    BY <2>3
  <2> QED
    BY <2>1, <2>3, <2>4, <2>5 DEF WorkerCounts, SameCounts
<1> QED
  BY <1>1, <1>2 DEF Counted

CountsOn == ~sliceRaced /\ spent.cutoffs = 0

(* The steps that leave marks and jobs alone, of a worker that goes on     *)
(* importing or neither was nor is.                                        *)
LEMMA CountsAway ==
    ASSUME ImpType, ImpType', Counted, UNCHANGED <<mark, jobs>>, NEW w \in Workers, OnlyOne(w),
           Importing(w)' <=> Importing(w), Importing(w) => WorkerCounts(w)'
    PROVE  Counted'
<1>1. HeldRows' = HeldRows
  BY HeldSame
<1>2. \A v \in Workers \ {w} : wpc'[v] = wpc[v] /\ work'[v] = work[v]
  BY DEF OnlyOne
<1>3. \A v \in Workers : Importing(v)' <=> Importing(v)
  BY <1>2 DEF Importing
<1>4. ASSUME NEW v \in Workers, Importing(v)' PROVE WorkerCounts(v)'
  <2>1. CASE v = w
    BY <1>3, <1>4, <2>1
  <2>2. CASE v # w
    <3>1. WorkerCounts(v) /\ wpc'[v] = wpc[v] /\ work'[v] = work[v]
      BY <1>2, <1>3, <1>4, <2>2 DEF Counted
    <3> QED
      BY <1>1, <3>1 DEF WorkerCounts, SameCounts
  <2> QED
    BY <2>1, <2>2
<1>5. (\A v \in Workers : ~Importing(v)') => \A i \in DOMAIN jobs' : (Cardinality(HeldRows) <= jobs[i].held)'
  BY <1>1, <1>3 DEF Counted
<1> QED
  BY <1>4, <1>5 DEF Counted

LEMMA CountsTick == ASSUME ImpType, Counted, NEW w \in Workers, NEW j, TickJob(w, j) PROVE Counted'
<1>1. PICK k : Stepped(w, "read", k)
  BY DEF TickJob, Stepped
<1>2. OnlyOne(w) /\ wpc'[w] = "read" /\ wpc[w] = "idle"
  BY <1>1, SteppedOne DEF ImpType, TickJob
<1>3. ~Importing(w) /\ ~Importing(w)'
  BY <1>2 DEF Importing
<1> QED
  BY <1>2, <1>3, TickTyped, CountsAway DEF TickJob, Store

LEMMA CountsReview == ASSUME ImpType, Counted, NEW w \in Workers, EnqueueReview(w) PROVE Counted'
<1>1. OnlyOne(w) /\ wpc'[w] = "idle" /\ wpc[w] = "review" /\ ImpType'
  BY IdleTyped DEF EnqueueReview
<1>2. ~Importing(w) /\ ~Importing(w)'
  BY <1>1 DEF Importing
<1> QED
  BY <1>1, <1>2, CountsAway DEF EnqueueReview, Store

LEMMA CountsStart ==
    ASSUME ImpType, HeldInv, Counted, NEW w \in Workers, startImport(w) \/ ingestText(w)
    PROVE  Counted'
<1>1. PICK conf \in 0..10 : jobs' = Append(jobs, NewJob(conf))
  BY StartTyped
<1>2. PICK j \in JobRow : j = NewJob(conf)
  BY NewJobTyped DEF ImpType
<1>3. /\ j.cursor = 0 /\ Dealt(j) = 0 /\ j.held = 0
  BY <1>2 DEF NewJob, Dealt
<1>4. /\ DOMAIN jobs' = 1..(Len(jobs) + 1) /\ DOMAIN jobs = 1..Len(jobs) /\ Len(jobs) \in Nat
      /\ jobs'[Len(jobs) + 1] = j /\ \A x \in DOMAIN jobs : jobs'[x] = jobs[x]
  BY <1>1, <1>2, JobAdded DEF ImpType, JobsType
<1>5. HeldRows' = HeldRows /\ (IsTable \/ jobs = <<>>) /\ OnlyOne(w) /\ wpc'[w] = "read"
  BY HeldStart
<1>6. HeldRows' = {} /\ Cardinality(HeldRows') = 0
  BY <1>5, FS_EmptySet DEF HeldInv, IsTable
<1>7. \A i \in DOMAIN jobs' : i \in DOMAIN jobs \/ i = Len(jobs) + 1
  BY <1>4
<1>8. \A i \in DOMAIN jobs' : Dealt(jobs'[i]) = jobs'[i].cursor
  BY <1>3, <1>4, <1>7 DEF Counted
<1>9. \A i \in DOMAIN jobs' : Cardinality(HeldRows') <= jobs'[i].held
  <2>1. ASSUME NEW i \in DOMAIN jobs' PROVE jobs'[i].held \in Nat
    <3>1. jobs' \in Seq(JobRow)
      BY StartTyped DEF ImpType, JobsType
    <3> QED
      BY <3>1, LenProperties, JobIs
  <2> QED
    BY <1>6, <2>1
<1>10. mark' = mark
  BY DEF startImport, ingestText, Store
<1>11. ASSUME NEW v \in Workers, Importing(v)' PROVE WorkerCounts(v)'
  <2>1. v # w
    BY <1>5, <1>11 DEF Importing
  <2>2. wpc'[v] = wpc[v] /\ work'[v] = work[v]
    BY <1>5, <2>1 DEF OnlyOne
  <2>3. WorkerCounts(v) /\ work[v].job \in DOMAIN jobs
    BY <1>11, <2>2 DEF Counted, Importing, ImpType, WorkersType, WorkerType
  <2>4. jobs'[work[v].job] = jobs[work[v].job]
    BY <1>4, <2>3
  <2> QED
    BY <1>5, <1>10, <2>2, <2>3, <2>4 DEF WorkerCounts, SameCounts
<1> QED
  BY <1>8, <1>9, <1>11 DEF Counted

LEMMA CountsRead ==
    ASSUME ImpType, HeldInv, sliceRaced \in BOOLEAN, Counted, ~sliceRaced', NEW w \in Workers, ReadJob(w)
    PROVE  Counted'
<1>1. UNCHANGED <<mark, jobs>> /\ wpc[w] = "read" /\ ImpType' /\ HeldRows' = HeldRows
  BY ReadTyped, HeldSame DEF ReadJob, Store
<1>2. CASE Stepped(w, "idle", JobSlice(0, FALSE))
  <2>1. OnlyOne(w) /\ wpc'[w] = "idle"
    BY <1>2, SteppedOne DEF ImpType
  <2>2. ~Importing(w) /\ ~Importing(w)'
    BY <1>1, <2>1 DEF Importing
  <2> QED
    BY <1>1, <2>1, <2>2, CountsAway
<1>3. CASE Stepped(w, "running", Snapped(work[w], jobs[work[w].job])) /\ Race(w)
  <2>1. PICK i \in DOMAIN jobs : i = work[w].job
    BY <1>1 DEF ImpType, WorkersType, WorkerType
  <2>2. PICK j \in JobRow : j = jobs[i]
    BY LenProperties DEF ImpType, JobsType
  <2>3. PICK k \in Slices : k = work[w]
    BY DEF ImpType, WorkersType, WorkerType
  <2>4. PICK m : m = Snapped(k, j)
    OBVIOUS
  <2>5. OnlyOne(w) /\ wpc'[w] = "running" /\ work'[w] = m
    BY <1>3, <2>1, <2>2, <2>3, <2>4, SteppedOne DEF ImpType
  <2>6. m.snap = j /\ m.job = i /\ Dealt(m) = Dealt(k) /\ m.held = k.held
    BY <2>1, <2>3, <2>4 DEF Snapped, SliceOf, Dealt
  <2>7. Dealt(k) = 0 /\ k.held \in Nat
    BY <1>1, <2>3, SliceIs DEF HeldInv
  <2>8. \A v \in Workers \ {w} : ~Importing(v)
    BY <1>3, RaceType
  <2>9. ~Importing(w)
    BY <1>1 DEF Importing
  <2>10. Cardinality(HeldRows) <= j.held
    BY <2>2, <2>8, <2>9 DEF Counted
  <2>11. Cardinality(HeldRows) <= j.held + k.held
    BY <2>2, <2>7, <2>10, JobIs, HeldFinite DEF ImpType
  <2>12. WorkerCounts(w)'
    BY <1>1, <2>2, <2>5, <2>6, <2>7, <2>11 DEF WorkerCounts, SameCounts
  <2>13. \A x \in DOMAIN jobs' : Dealt(jobs'[x]) = jobs'[x].cursor
    BY <1>1 DEF Counted
  <2>14. Importing(w)'
    BY <2>5 DEF Importing
  <2> QED
    BY <2>5, <2>8, <2>12, <2>13, <2>14, CountsActs
<1> QED
  BY <1>2, <1>3, ReadTyped

LEMMA CountsRun ==
    ASSUME ImpType, MapsInv, Counted, ~sliceRaced, NEW w \in Workers, SetRunning(w)
    PROVE  Counted'
<1>1. PICK i \in DOMAIN jobs : i = work[w].job
  BY RunTyped
<1>2. PICK j \in JobRow : j = jobs[i]
  BY LenProperties DEF ImpType, JobsType
<1>3. PICK r \in JobRow : r = Run(j) /\ jobs' = [jobs EXCEPT ![i] = r]
  BY <1>1, <1>2, RunTyped
<1>4. DOMAIN jobs' = DOMAIN jobs /\ jobs'[i] = r /\ \A x \in DOMAIN jobs : x # i => jobs'[x] = jobs[x]
  BY <1>3, JobSet DEF ImpType, JobsType
<1>5. /\ r.cursor = j.cursor /\ r.created = j.created /\ r.updated = j.updated /\ r.held = j.held
      /\ r.failed = j.failed
  BY <1>3 DEF Run, JobOf
<1>6. \A x \in DOMAIN jobs' : Dealt(jobs'[x]) = jobs'[x].cursor
  BY <1>2, <1>4, <1>5 DEF Counted, Dealt
<1>7. PICK k : k = work[w]
  OBVIOUS
<1>8. OnlyOne(w) /\ wpc'[w] = "load" /\ work'[w] = k /\ wpc[w] = "running"
  BY <1>7, RunTyped, SteppedOne DEF ImpType, SetRunning
<1>9. Importing(w) /\ Importing(w)' /\ HeldRows' = HeldRows
  BY <1>8, HeldSame DEF SetRunning, Importing, Store
<1>10. WorkerCounts(w)
  BY <1>9 DEF Counted
<1>11. SameCounts(k.snap, j) /\ Dealt(k) = 0 /\ Cardinality(HeldRows) <= k.snap.held + k.held
  BY <1>1, <1>2, <1>7, <1>8, <1>10 DEF WorkerCounts
<1>12. SameCounts(k.snap, r)
  BY <1>5, <1>11 DEF SameCounts
<1>13. WorkerCounts(w)'
  BY <1>1, <1>4, <1>7, <1>8, <1>9, <1>11, <1>12 DEF WorkerCounts
<1> QED
  BY <1>6, <1>8, <1>9, <1>13, OthersOut, CountsActs

LEMMA CountsLoad ==
    ASSUME ImpType, Counted, NEW w \in Workers, LoadSlice(w)
    PROVE  Counted'
<1>1. UNCHANGED <<mark, jobs>> /\ wpc[w] = "load" /\ ImpType' /\ HeldRows' = HeldRows
  BY LoadTyped, HeldSame DEF LoadSlice, Store
<1>2. PICK k \in Slices : k = work[w]
  BY DEF ImpType, WorkersType, WorkerType
<1>3. PICK c \in Nat : c = k.snap.cursor
  BY <1>2, LoadTyped, JobIs
<1>4. PICK rows : rows = loadRows(c)
  OBVIOUS
<1>5. Len(rows) \in Nat
  BY <1>4, LoadedRows DEF ImpType
<1>6. PICK m : m = Loaded(k, rows, DOMAIN crm)
  OBVIOUS
<1>7. OnlyOne(w) /\ wpc'[w] = "rows" /\ work'[w] = m
  BY <1>2, <1>3, <1>4, <1>6, LoadTyped, SteppedOne DEF ImpType
<1>8. /\ m.job = k.job /\ m.snap = k.snap /\ m.loaded = Len(rows) /\ m.rows = rows /\ Dealt(m) = Dealt(k)
      /\ m.held = k.held
  BY <1>6 DEF Loaded, SliceOf, Dealt
<1>9. Importing(w) /\ Importing(w)'
  BY <1>1, <1>7 DEF Importing
<1>10. SameCounts(k.snap, jobs[k.job]) /\ Dealt(k) = 0 /\ Cardinality(HeldRows) <= k.snap.held + k.held
  BY <1>1, <1>2, <1>9 DEF Counted, WorkerCounts
<1>11. Dealt(m) = m.loaded - Len(m.rows)
  BY <1>5, <1>8, <1>10
<1>12. WorkerCounts(w)'
  BY <1>1, <1>7, <1>8, <1>10, <1>11 DEF WorkerCounts
<1> QED
  BY <1>1, <1>7, <1>9, <1>12, CountsAway

LEMMA CountsLoadHeld ==
    ASSUME ImpType, Counted, NEW w \in Workers, LoadHeld(w)
    PROVE  Counted'
<1>1. UNCHANGED <<mark, jobs>> /\ wpc[w] = "loadheld" /\ ImpType' /\ HeldRows' = HeldRows
  BY LoadHeldTyped, HeldSame DEF LoadHeld, Store
<1>2. PICK k : k = work[w]
  OBVIOUS
<1>3. PICK m : m = Mapped(k, DOMAIN crm)
  OBVIOUS
<1>4. OnlyOne(w) /\ wpc'[w] = "flush" /\ work'[w] = m
  BY <1>2, <1>3, LoadHeldTyped, SteppedOne DEF ImpType
<1>5. /\ m.job = k.job /\ m.snap = k.snap /\ m.rows = k.rows /\ m.created = k.created
      /\ m.updated = k.updated
  BY <1>3 DEF Mapped, SliceOf
<1>6. Importing(w) /\ Importing(w)'
  BY <1>1, <1>4 DEF Importing
<1>7. WorkerCounts(w)
  BY <1>6 DEF Counted
<1>8. WorkerCounts(w)'
  BY <1>1, <1>2, <1>4, <1>5, <1>7 DEF WorkerCounts
<1> QED
  BY <1>1, <1>4, <1>6, <1>8, CountsAway

LEMMA CountsFlush ==
    ASSUME ImpType, Counted, ~sliceRaced', NEW w \in Workers, NEW j, BeginFlush(w, j)
    PROVE  Counted'
<1>1. UNCHANGED <<mark, jobs>> /\ wpc[w] = "idle" /\ Race(w) /\ HeldRows' = HeldRows
  BY HeldSame DEF BeginFlush, Store
<1>2. PICK n \in 0..Slice : \E rows \in [1..n -> HeldRows] :
        FlushRows(rows) /\ Stepped(w, "loadheld", Flushing(j, jobs[j], rows))
  BY FlushTyped
<1>3. PICK rows \in [1..n -> HeldRows] :
        FlushRows(rows) /\ Stepped(w, "loadheld", Flushing(j, jobs[j], rows))
  BY <1>2
<1>4. PICK m : m = Flushing(j, jobs[j], rows)
  OBVIOUS
<1>5. OnlyOne(w) /\ wpc'[w] = "loadheld" /\ work'[w] = m
  BY <1>3, <1>4, SteppedOne DEF ImpType
<1>6. /\ m.job = j /\ m.snap = jobs[j] /\ m.rows = rows /\ m.created = 0 /\ m.updated = 0 /\ Dealt(m) = 0
  BY <1>4 DEF Flushing, SliceOf, Dealt
<1>7. \A v \in Workers \ {w} : ~Importing(v)
  BY <1>1, RaceType DEF ImpType, JobsType
<1>8. ~Importing(w) /\ Importing(w)'
  BY <1>1, <1>5 DEF Importing
<1>9. PICK c \in Nat : c = Cardinality(HeldRows)
  BY HeldFinite DEF ImpType
<1>10. j \in DOMAIN jobs
  BY FlushTyped
<1>11. c <= jobs[j].held
  BY <1>7, <1>8, <1>9, <1>10 DEF Counted
<1>12. DOMAIN rows = 1..n /\ n \in Nat
  BY <1>3, ImportsAssumption
<1>13. \A i \in DOMAIN rows : mark[rows[i]] = "held"
  BY <1>3 DEF HeldRows
<1>14. \A i, l \in DOMAIN rows : rows[i] = rows[l] => i = l
  <2>1. SUFFICES ASSUME NEW i \in 1..n, NEW l \in 1..n, rows[i] = rows[l] PROVE i = l
    BY <1>12
  <2>2. rows[i] \in Nat
    BY <1>3 DEF HeldRows, ImpType, StoreType
  <2>3. i < l => rows[i] < rows[l]
    BY <1>3, <1>12 DEF FlushRows
  <2>4. l < i => rows[l] < rows[i]
    BY <1>3, <1>12 DEF FlushRows
  <2> QED
    BY <1>12, <2>1, <2>2, <2>3, <2>4
<1>15. WorkerCounts(w)'
  <2>1. SameCounts(m.snap, jobs'[m.job])
    BY <1>1, <1>6 DEF SameCounts
  <2>2. c + m.created + m.updated <= m.snap.held
    BY <1>6, <1>9, <1>11
  <2>3. \A i \in DOMAIN m.rows : mark'[m.rows[i]] = "held"
    BY <1>1, <1>6, <1>13
  <2>4. \A i, l \in DOMAIN m.rows : m.rows[i] = m.rows[l] => i = l
    BY <1>6, <1>14
  <2> QED
    BY <1>1, <1>5, <1>6, <1>9, <2>1, <2>2, <2>3, <2>4 DEF WorkerCounts
<1>16. \A x \in DOMAIN jobs' : Dealt(jobs'[x]) = jobs'[x].cursor
  BY <1>1 DEF Counted
<1> QED
  BY <1>5, <1>7, <1>8, <1>15, <1>16, CountsActs

LEMMA TallyDealt ==
    ASSUME NEW k \in Slices, NEW field \in Outcomes, NEW known
    PROVE  Dealt(RowMoved(k, field, known)) = Dealt(k) + 1
<1>1. PICK c \in Nat : c = k.created
  BY SliceIs
<1>2. PICK u \in Nat : u = k.updated
  BY SliceIs
<1>3. PICK h \in Nat : h = k.held
  BY SliceIs
<1>4. PICK f \in Nat : f = k.failed
  BY SliceIs
<1>5. Dealt(RowMoved(k, field, known))
        = Tally(c, field, "created") + Tally(u, field, "updated") + Tally(h, field, "held")
          + Tally(f, field, "failed")
  BY <1>1, <1>2, <1>3, <1>4 DEF RowMoved, SliceOf, Dealt
<1>6. Dealt(k) = c + u + h + f
  BY <1>1, <1>2, <1>3, <1>4 DEF Dealt
<1>7. CASE field = "created"
  BY <1>5, <1>6, <1>7 DEF Tally
<1>8. CASE field = "updated"
  BY <1>5, <1>6, <1>8 DEF Tally
<1>9. CASE field = "held"
  BY <1>5, <1>6, <1>9 DEF Tally
<1>10. CASE field = "failed"
  BY <1>5, <1>6, <1>10 DEF Tally
<1> QED
  BY <1>7, <1>8, <1>9, <1>10 DEF Outcomes

LEMMA CountsRow ==
    ASSUME ImpType, MapsInv, Counted, ~sliceRaced, NEW w \in Workers, SliceRow(w) \/ SliceRowFails(w)
    PROVE  Counted'
<1>1. UNCHANGED jobs /\ ImpType' /\ RowTaken(w) /\ WorkerType(w)
  BY RowTyped, RowFacts DEF SliceRow, SliceRowFails, ImpType, WorkersType
<1>2. PICK s \in ImportRowStatus, field \in Outcomes, known \in SUBSET Nat :
        /\ Fate(w, s, field) /\ mark' = [mark EXCEPT ![Head(work[w].rows)] = s]
        /\ Stepped(w, wpc[w], RowMoved(work[w], field, known))
  BY <1>1 DEF RowTaken
<1>3. PICK k \in Slices : k = work[w] /\ k.rows # <<>> /\ k.snap \in JobRow
  BY <1>1 DEF WorkerType, RowTaken
<1>4. PICK r \in DOMAIN mark : r = Head(k.rows) /\ mark' = [mark EXCEPT ![r] = s]
  BY <1>1, <1>2, <1>3 DEF RowTaken
<1>5. PICK m : m = RowMoved(k, field, known)
  OBVIOUS
<1>6. OnlyOne(w) /\ wpc'[w] = wpc[w] /\ work'[w] = m /\ wpc[w] \in {"rows", "flush"}
  BY <1>1, <1>2, <1>3, <1>5, SteppedOne DEF ImpType, RowTaken
<1>7. Importing(w) /\ Importing(w)'
  BY <1>6 DEF Importing
<1>8. SameCounts(k.snap, jobs[k.job]) /\ WorkerCounts(w)
  BY <1>3, <1>7 DEF Counted, WorkerCounts
<1>9. /\ m.job = k.job /\ m.snap = k.snap /\ m.rows = Tail(k.rows) /\ m.loaded = k.loaded
      /\ m.created = Tally(k.created, field, "created") /\ m.updated = Tally(k.updated, field, "updated")
      /\ m.held = Tally(k.held, field, "held")
  BY <1>5 DEF RowMoved, SliceOf
<1>10. SameCounts(m.snap, jobs'[m.job])
  BY <1>1, <1>8, <1>9 DEF SameCounts
<1>11. HeldRows' = IF s = "held" THEN HeldRows \cup {r} ELSE HeldRows \ {r}
  BY <1>4, HeldMarked
<1>12. PICK c \in Nat : c = Cardinality(HeldRows)
  BY HeldFinite DEF ImpType
<1>13. PICK d \in Nat : d = Cardinality(HeldRows')
  <2>1. IsFiniteSet(HeldRows)
    BY HeldFinite DEF ImpType
  <2>2. PICK h : h = HeldRows'
    OBVIOUS
  <2>3. h = HeldRows \cup {r} \/ h = HeldRows \ {r}
    BY <1>11, <2>2
  <2>4. IsFiniteSet(h)
    BY <2>1, <2>3, FS_AddElement, FS_RemoveElement
  <2> QED
    BY <2>2, <2>4, FS_CardinalityType
<1>14. /\ s = "held" => d <= c + 1
       /\ s # "held" => d = c \/ (r \in HeldRows /\ d = c - 1)
       /\ s # "held" /\ r \in HeldRows => d = c - 1
  <2>1. IsFiniteSet(HeldRows)
    BY HeldFinite DEF ImpType
  <2>2. /\ Cardinality(HeldRows \cup {r}) = IF r \in HeldRows THEN c ELSE c + 1
        /\ Cardinality(HeldRows \ {r}) = IF r \in HeldRows THEN c - 1 ELSE c
    BY <1>12, <2>1, FS_AddElement, FS_RemoveElement
  <2> QED
    BY <1>11, <1>12, <1>13, <2>2
<1>15. /\ Len(k.rows) \in Nat \ {0} /\ Len(Tail(k.rows)) = Len(k.rows) - 1
       /\ DOMAIN k.rows = 1..Len(k.rows) /\ Head(k.rows) = k.rows[1] /\ 1 \in DOMAIN k.rows
       /\ DOMAIN Tail(k.rows) = 1..(Len(k.rows) - 1)
       /\ \A i \in DOMAIN Tail(k.rows) : Tail(k.rows)[i] = k.rows[i + 1] /\ i + 1 \in DOMAIN k.rows
  BY <1>3, MovedTyped
<1>16. k.created \in Nat /\ k.updated \in Nat /\ k.held \in Nat /\ k.snap.held \in Nat /\ k.loaded \in Nat
  BY <1>3, SliceIs, JobIs
<1>17. WorkerCounts(w)'
  <2>1. CASE wpc[w] = "rows"
    <3>1. Dealt(k) = k.loaded - Len(k.rows) /\ c <= k.snap.held + k.held
      BY <1>3, <1>8, <1>12, <2>1 DEF WorkerCounts
    <3>2. Dealt(m) = m.loaded - Len(m.rows)
      <4>1. Dealt(m) = Dealt(k) + 1
        BY <1>5, TallyDealt
      <4>2. PICK l \in Nat : l = k.loaded
        BY <1>16
      <4>3. PICK n \in Nat : n = Len(k.rows)
        BY <1>15
      <4>4. Len(m.rows) = n - 1 /\ m.loaded = l
        BY <1>9, <1>15, <4>2, <4>3
      <4>5. (l - n) + 1 = l - (n - 1)
        OBVIOUS
      <4> QED
        BY <3>1, <4>1, <4>2, <4>3, <4>4, <4>5
    <3>3. d <= m.snap.held + m.held
      <4>1. CASE s = "held"
        <5>1. field = "held"
          BY <1>2, <4>1 DEF Fate
        <5>2. m.held = k.held + 1
          BY <1>9, <5>1 DEF Tally
        <5> QED
          BY <1>9, <1>14, <1>16, <3>1, <4>1, <5>2
      <4>2. CASE s # "held"
        <5>1. m.held \in Nat /\ m.held >= k.held
          BY <1>9, <1>16 DEF Tally
        <5> QED
          BY <1>9, <1>14, <1>16, <3>1, <4>2, <5>1
      <4> QED
        BY <4>1, <4>2
    <3>4. Cardinality(HeldRows') <= m.snap.held + m.held
      BY <1>13, <3>3
    <3> QED
      BY <1>6, <1>10, <2>1, <3>2, <3>4 DEF WorkerCounts
  <2>2. CASE wpc[w] = "flush"
    <3>1. /\ c + k.created + k.updated <= k.snap.held
          /\ \A i \in DOMAIN k.rows : mark[k.rows[i]] = "held"
          /\ \A i, l \in DOMAIN k.rows : k.rows[i] = k.rows[l] => i = l
      BY <1>3, <1>8, <1>12, <2>2 DEF WorkerCounts
    <3>2. r \in HeldRows
      BY <1>4, <1>15, <3>1 DEF HeldRows
    <3>3. s # "held"
      BY <1>2, <2>2 DEF Fate, HeldBack
    <3>4. d = c - 1
      BY <1>14, <3>2, <3>3
    <3>5. d + m.created + m.updated <= m.snap.held
      <4>1. CASE field = "created"
        <5>1. m.created = k.created + 1 /\ m.updated = k.updated
          BY <1>9, <4>1 DEF Tally
        <5> QED
          BY <1>9, <1>16, <3>1, <3>4, <5>1
      <4>2. CASE field = "updated"
        <5>1. m.created = k.created /\ m.updated = k.updated + 1
          BY <1>9, <4>2 DEF Tally
        <5> QED
          BY <1>9, <1>16, <3>1, <3>4, <5>1
      <4>3. CASE field \notin {"created", "updated"}
        <5>1. m.created = k.created /\ m.updated = k.updated
          BY <1>9, <4>3 DEF Tally
        <5> QED
          BY <1>9, <1>16, <3>1, <3>4, <5>1
      <4> QED
        BY <4>1, <4>2, <4>3
    <3>6. ASSUME NEW i \in DOMAIN m.rows PROVE mark'[m.rows[i]] = "held"
      <4>1. m.rows[i] = k.rows[i + 1] /\ i + 1 \in DOMAIN k.rows /\ i \in Nat /\ i + 1 # 1
        BY <1>9, <1>15
      <4>2. k.rows[i + 1] # r
        BY <1>4, <1>15, <3>1, <4>1
      <4>3. mark[k.rows[i + 1]] = "held"
        BY <3>1, <4>1
      <4> QED
        BY <1>4, <4>1, <4>2, <4>3
    <3>7. ASSUME NEW i \in DOMAIN m.rows, NEW l \in DOMAIN m.rows, m.rows[i] = m.rows[l] PROVE i = l
      <4>1. /\ m.rows[i] = k.rows[i + 1] /\ i + 1 \in DOMAIN k.rows /\ i \in Nat
            /\ m.rows[l] = k.rows[l + 1] /\ l + 1 \in DOMAIN k.rows /\ l \in Nat
        BY <1>9, <1>15
      <4>2. i + 1 = l + 1
        BY <3>1, <3>7, <4>1
      <4> QED
        BY <4>1, <4>2
    <3>8. Cardinality(HeldRows') + m.created + m.updated <= m.snap.held
      BY <1>13, <3>5
    <3> QED
      BY <1>6, <1>10, <2>2, <3>6, <3>7, <3>8 DEF WorkerCounts
  <2> QED
    BY <1>6, <2>1, <2>2
<1>18. \A x \in DOMAIN jobs' : Dealt(jobs'[x]) = jobs'[x].cursor
  BY <1>1 DEF Counted
<1> QED
  BY <1>6, <1>7, <1>17, <1>18, OthersOut, CountsActs

LEMMA CountsFinish ==
    ASSUME ImpType, MapsInv, HeldInv, Counted, ~sliceRaced, NEW w \in Workers, FinishSlice(w) \/ FinishFlush(w)
    PROVE  Counted'
<1>1. /\ ImpType' /\ wpc'[w] \in {"idle", "review"} /\ OnlyOne(w) /\ DOMAIN jobs' = DOMAIN jobs
      /\ HeldRows' = HeldRows /\ wpc[w] \in {"rows", "flush"}
  BY FinishTyped, HeldSame DEF FinishSlice, FinishFlush, Store
<1>2. PICK i \in DOMAIN jobs : /\ i = work[w].job
                               /\ \A x \in DOMAIN jobs : x # i => jobs'[x] = jobs[x]
  BY FinishWrites, FlushWrites, FinishTyped
<1>3. PICK j \in JobRow : j = jobs[i]
  BY LenProperties DEF ImpType, JobsType
<1>4. PICK k \in Slices : k = work[w] /\ k.snap \in JobRow
  BY <1>1 DEF ImpType, WorkersType, WorkerType
<1>5. PICK s \in JobRow : s = k.snap
  BY <1>4
<1>6. Importing(w) /\ ~Importing(w)'
  BY <1>1 DEF Importing
<1>7. WorkerCounts(w) /\ SameCounts(s, j)
  BY <1>2, <1>3, <1>4, <1>5, <1>6 DEF Counted, WorkerCounts
<1>8. PICK c \in Nat : c = Cardinality(HeldRows)
  BY HeldFinite DEF ImpType
<1>9. /\ s.created \in Nat /\ s.updated \in Nat /\ s.held \in Nat /\ s.failed \in Nat /\ s.cursor \in Nat
      /\ k.created \in Nat /\ k.updated \in Nat /\ k.held \in Nat /\ k.failed \in Nat /\ k.loaded \in Nat
  BY JobIs, SliceIs
<1>10. s.created + s.updated + s.held + s.failed = s.cursor
  <2>1. Dealt(j) = j.cursor
    BY <1>3 DEF Counted
  <2> QED
    BY <1>7, <2>1 DEF Dealt, SameCounts
<1>11. Dealt(jobs'[i]) = jobs'[i].cursor /\ c <= jobs'[i].held
  <2>1. CASE FinishSlice(w)
    <3>1. PICK z \in JobRow : z = SliceDone(j, k) /\ jobs' = [jobs EXCEPT ![i] = z]
      BY <1>2, <1>3, <1>4, <2>1, FinishWrites
    <3>2. jobs'[i] = z
      BY <3>1
    <3>3. /\ z.cursor = s.cursor + k.loaded /\ z.created = s.created + k.created
          /\ z.updated = s.updated + k.updated /\ z.held = s.held + k.held /\ z.failed = s.failed + k.failed
      BY <1>5, <3>1 DEF SliceDone, JobOf
    <3>4. wpc[w] = "rows" /\ k.rows = <<>>
      BY <1>4, <2>1 DEF FinishSlice
    <3>5. k.created + k.updated + k.held + k.failed = k.loaded
      <4>1. Dealt(k) = k.loaded - Len(k.rows)
        BY <1>4, <1>7, <3>4 DEF WorkerCounts
      <4>2. Len(k.rows) = 0
        BY <3>4, EmptySeq
      <4> QED
        BY <1>9, <4>1, <4>2 DEF Dealt
    <3>6. c <= s.held + k.held
      BY <1>4, <1>5, <1>7, <1>8, <3>4 DEF WorkerCounts
    <3>7. z.created + z.updated + z.held + z.failed = z.cursor
      BY <1>9, <1>10, <3>3, <3>5
    <3> QED
      BY <3>2, <3>3, <3>6, <3>7 DEF Dealt
  <2>2. CASE FinishFlush(w)
    <3>1. PICK z \in JobRow : z = FlushDone(j, k) /\ jobs' = [jobs EXCEPT ![i] = z]
      BY <1>2, <1>3, <1>4, <2>2, FlushWrites
    <3>2. jobs'[i] = z
      BY <3>1
    <3>3. /\ z.cursor = j.cursor /\ z.created = s.created + k.created /\ z.updated = s.updated + k.updated
          /\ z.held = (IF k.created + k.updated < s.held THEN s.held - (k.created + k.updated) ELSE 0)
          /\ z.failed = j.failed
      BY <1>5, <3>1 DEF FlushDone, JobOf
    <3>4. wpc[w] = "flush"
      BY <2>2 DEF FinishFlush
    <3>5. c + k.created + k.updated <= s.held
      BY <1>4, <1>5, <1>7, <1>8, <3>4 DEF WorkerCounts
    <3>6. z.held = s.held - (k.created + k.updated)
      BY <1>9, <3>3, <3>5
    <3>7. z.cursor = s.cursor /\ z.failed = s.failed
      BY <1>7, <3>3 DEF SameCounts
    <3>8. z.created + z.updated + z.held + z.failed = z.cursor
      BY <1>9, <1>10, <3>3, <3>6, <3>7
    <3>9. c <= z.held
      BY <1>9, <3>5, <3>6
    <3> QED
      BY <3>2, <3>8, <3>9 DEF Dealt
  <2> QED
    BY <2>1, <2>2
<1>12. \A x \in DOMAIN jobs' : Dealt(jobs'[x]) = jobs'[x].cursor
  BY <1>1, <1>2, <1>11 DEF Counted
<1>13. ASSUME NEW x \in DOMAIN jobs' PROVE (Cardinality(HeldRows) <= jobs[x].held)'
  <2>1. CASE x = i
    BY <1>1, <1>8, <1>11, <2>1
  <2>2. CASE x # i
    <3>1. x \in DOMAIN jobs /\ jobs \in Seq(JobRow)
      BY <1>1 DEF ImpType, JobsType
    <3>2. x \in 1..Len(jobs) /\ i \in 1..Len(jobs) /\ Len(jobs) \in Nat
      BY <3>1, LenProperties
    <3>3. Len(jobs) > 1
      BY <2>2, <3>2
    <3>4. sheet # NoSheet
      BY <3>3, EmptySeq DEF ImpType, JobsType, MappingType
    <3>5. HeldRows = {}
      BY <3>2, <3>3, <3>4 DEF HeldInv
    <3>6. Cardinality(HeldRows') = 0
      BY <1>1, <3>5, FS_EmptySet
    <3>7. jobs'[x] \in JobRow
      BY <1>1, LenProperties DEF ImpType, JobsType
    <3>8. jobs'[x].held \in Nat
      BY <3>7, JobIs
    <3> QED
      BY <3>6, <3>8
  <2> QED
    BY <2>1, <2>2
<1> QED
  BY <1>1, <1>6, <1>12, <1>13, OthersOut, CountsActs

LEMMA CountStep ==
    ASSUME ImpType, MapsInv, CountInv, [ImpNext]_impVars
    PROVE  CountInv'
<1>1. HeldInv /\ ImpType' /\ (CountsOn => Counted)
  BY ImpTypeStep DEF CountInv, CountsOn
<1>2. /\ sliceRaced \in BOOLEAN /\ spent \in [failures : Nat, cutoffs : Nat]
  BY DEF ImpType, JobsType
<1>3. CountsOn' => CountsOn
  <2>1. sliceRaced => sliceRaced'
    BY DEF ImpNext, impVars, ingestTable, stageExtracted, InsertChunk, BatchReady, saveMapping, startImport,
           ingestText, WorkerStep, SliceRowFails, CutOff, ImportTick, tickToDone, TickJob, BeginFlush, ReadJob,
           SetRunning, LoadSlice, SliceRow, FinishSlice, EnqueueReview, LoadHeld, FinishFlush, Race
  <2>2. spent' = spent \/ spent' = [spent EXCEPT !.failures = @ + 1] \/ spent' = [spent EXCEPT !.cutoffs = @ + 1]
    BY DEF ImpNext, impVars, ingestTable, stageExtracted, InsertChunk, BatchReady, saveMapping, startImport,
           ingestText, WorkerStep, SliceRowFails, CutOff, ImportTick, tickToDone, TickJob, BeginFlush, ReadJob,
           SetRunning, LoadSlice, SliceRow, FinishSlice, EnqueueReview, LoadHeld, FinishFlush
  <2>3. spent'.cutoffs = 0 => spent.cutoffs = 0
    BY <1>2, <2>2
  <2> QED
    BY <1>2, <2>1, <2>3 DEF CountsOn
<1>4. SUFFICES HeldInv' /\ (CountsOn' => Counted')
  BY DEF CountInv, CountsOn
<1>5. ASSUME NEW w \in Workers, WorkerStep(w) \/ startImport(w) \/ ingestText(w) \/ SliceRowFails(w) \/ CutOff(w)
      PROVE  HeldInv'
  BY <1>1, <1>5, HeldRead, HeldRun, HeldLoad, HeldRow, HeldFinish, HeldIdle, HeldStart DEF WorkerStep
<1>6. ASSUME NEW w \in Workers, NEW j, ImportTick(w, j) \/ tickToDone(w, j) \/ BeginFlush(w, j)
      PROVE  HeldInv'
  BY <1>1, <1>6, HeldTick, HeldFlush DEF ImportTick, tickToDone
<1>7. ASSUME \/ \E m \in Sheets : ingestTable(m)
             \/ \E t \in Texts, src \in {"json", "model"}, ok \in BOOLEAN : stageExtracted(src, t, ok)
             \/ InsertChunk \/ BatchReady \/ saveMapping \/ UNCHANGED impVars
      PROVE  HeldInv' /\ (CountsOn' => Counted')
  <2>1. HeldInv' /\ HeldRows' = HeldRows /\ UNCHANGED <<jobs, wpc, work, sliceRaced, spent>>
    BY <1>1, <1>7, HeldStaging
  <2>2. \A w \in Workers, r \in DOMAIN mark : Importing(w) => mark'[r] = mark[r]
    <3>1. CASE InsertChunk
      BY <3>1, ChunkStaged DEF ImpType, StoreType
    <3>2. CASE ~InsertChunk
      BY <1>7, <3>2 DEF ingestTable, stageExtracted, BatchReady, saveMapping, impVars
    <3> QED
      BY <3>1, <3>2
  <2> QED
    BY <1>1, <1>3, <2>1, <2>2, CountsStill
<1>8. ASSUME CountsOn', NEW w \in Workers,
             WorkerStep(w) \/ startImport(w) \/ ingestText(w) \/ SliceRowFails(w) \/ CutOff(w)
      PROVE  Counted'
  <2>1. Counted /\ ~sliceRaced /\ ~sliceRaced' /\ spent.cutoffs = 0 /\ spent'.cutoffs = 0
    BY <1>1, <1>3, <1>8 DEF CountsOn
  <2>2. ~CutOff(w)
    BY <1>2, <2>1 DEF CutOff
  <2>3. CASE WorkerStep(w)
    BY <1>1, <1>2, <2>1, <2>3, CountsRead, CountsRun, CountsLoad, CountsRow, CountsFinish, CountsReview,
       CountsLoadHeld DEF WorkerStep
  <2>4. CASE startImport(w) \/ ingestText(w) \/ SliceRowFails(w)
    BY <1>1, <2>1, <2>4, CountsStart, CountsRow
  <2> QED
    BY <1>8, <2>2, <2>3, <2>4
<1>9. ASSUME CountsOn', NEW w \in Workers, NEW j, ImportTick(w, j) \/ tickToDone(w, j) \/ BeginFlush(w, j)
      PROVE  Counted'
  <2>1. Counted /\ ~sliceRaced'
    BY <1>1, <1>3, <1>9 DEF CountsOn
  <2> QED
    BY <1>9, <2>1, CountsTick, CountsFlush DEF ImportTick, tickToDone
<1> QED
  BY <1>5, <1>6, <1>7, <1>8, <1>9 DEF ImpNext

(* A job that says it is done has dealt with every row, and its counters   *)
(* account for them (FinishSlice and FinishFlush of import-engine.ts write *)
(* both from the snapshot a slice began with): the cursor never passes a   *)
(* row that is new, and what the only importer has counted and the rows    *)
(* that are held stay within what the job says.                            *)
THEOREM ImportAccountedHolds == ImpSpec => []ImportAccounted
<1>1. ImpInit => ImpType /\ MapsInv /\ SeenInv /\ CountInv
  <2> SUFFICES ASSUME ImpInit PROVE ImpType /\ MapsInv /\ SeenInv /\ CountInv
    OBVIOUS
  <2>1. ImpType
    BY ImpTypeInit
  <2>2. \A w \in Workers : wpc[w] = "idle"
    BY DEF ImpInit
  <2>3. MapsInv
    BY <2>2 DEF ImpInit, MapsInv, NoDuplicates, OneImporter, Importing
  <2>4. SeenInv
    BY <2>2 DEF ImpInit, SeenInv, WorkerSeen
  <2>5. HeldRows = {}
    BY DEF ImpInit, HeldRows
  <2>6. Len(jobs) = 0
    BY EmptySeq DEF ImpInit
  <2>7. HeldInv
    BY <2>2, <2>5, <2>6 DEF ImpInit, HeldInv, Importing
  <2>8. Counted
    BY <2>2 DEF ImpInit, Counted, Importing
  <2> QED
    BY <2>1, <2>3, <2>4, <2>7, <2>8 DEF CountInv
<1>2. ImpType /\ MapsInv /\ SeenInv /\ CountInv /\ [ImpNext]_impVars
        => ImpType' /\ MapsInv' /\ SeenInv' /\ CountInv'
  BY ImpTypeStep, MapsStep, SeenStep, CountStep
<1>3. ImpType /\ SeenInv /\ CountInv => ImportAccounted
  <2>1. ImpType /\ SeenInv => DoneMeansProcessed
    BY SeenEnough
  <2>2. ImpType /\ CountInv => CountsAddUp
    <3> SUFFICES ASSUME ImpType, CountInv, ~sliceRaced, ~(spent.cutoffs > 0), NEW j \in DOMAIN jobs
                 PROVE  jobs[j].created + jobs[j].updated + jobs[j].held + jobs[j].failed = jobs[j].cursor
      BY DEF CountsAddUp
    <3>1. spent.cutoffs = 0
      BY DEF ImpType, JobsType
    <3> QED
      BY <3>1 DEF CountInv, Counted, Dealt
  <2> QED
    BY <2>1, <2>2 DEF ImportAccounted
<1> QED
  BY <1>1, <1>2, <1>3, PTL DEF ImpSpec
=============================================================================

---------------------------- MODULE MemberProofs ----------------------------
(***************************************************************************)
(* What the member daemons keep to (MemberDaemon): shapes, the order in    *)
(* which messages are shown, and the keys with which they are sealed; and  *)
(* what their sockets return to them (WireClient).                         *)
(***************************************************************************)
EXTENDS MemberDaemon, WireClient, FiniteSetTheorems, SequenceTheorems, WellFoundedInduction, TLAPS

-----------------------------------------------------------------------------
(* Sequences that keep some of another's items.                            *)

(* t holds some of the items of s, in their order.                         *)
Within(t, s) ==
    \E at \in [DOMAIN t -> DOMAIN s] :
        /\ \A i \in DOMAIN t : t[i] = s[at[i]]
        /\ \A i, j \in DOMAIN t : i < j => at[i] < at[j]

(* Nothing left out.                                                       *)
LEMMA WithinSame ==
    ASSUME NEW s
    PROVE  Within(s, s)
<1>1. [i \in DOMAIN s |-> i] \in [DOMAIN s -> DOMAIN s]
  OBVIOUS
<1> QED BY <1>1 DEF Within

(* Some of some.                                                           *)
LEMMA WithinSome ==
    ASSUME NEW r, NEW s, NEW t, Within(r, s), Within(s, t)
    PROVE  Within(r, t)
<1>1. PICK f \in [DOMAIN r -> DOMAIN s] :
            /\ \A i \in DOMAIN r : r[i] = s[f[i]]
            /\ \A i, j \in DOMAIN r : i < j => f[i] < f[j]
  BY DEF Within
<1>2. PICK g \in [DOMAIN s -> DOMAIN t] :
            /\ \A i \in DOMAIN s : s[i] = t[g[i]]
            /\ \A i, j \in DOMAIN s : i < j => g[i] < g[j]
  BY DEF Within
<1> DEFINE h == [i \in DOMAIN r |-> g[f[i]]]
<1>3. h \in [DOMAIN r -> DOMAIN t]
  OBVIOUS
<1>4. /\ \A i \in DOMAIN r : r[i] = t[h[i]]
      /\ \A i, j \in DOMAIN r : i < j => h[i] < h[j]
  BY <1>1, <1>2
<1> QED BY <1>3, <1>4 DEF Within

(* Where the items of two sequences are in the one after the other.        *)
LEMMA Joined ==
    ASSUME NEW T, NEW s \in Seq(T), NEW t \in Seq(T)
    PROVE  /\ s \o t \in Seq(T)
           /\ Len(s) \in Nat /\ Len(t) \in Nat
           /\ DOMAIN s = 1..Len(s) /\ DOMAIN t = 1..Len(t)
           /\ DOMAIN (s \o t) = 1..Len(s) + Len(t)
           /\ \A i \in 1..Len(s) : (s \o t)[i] = s[i]
           /\ \A i \in Len(s) + 1..Len(s) + Len(t) : (s \o t)[i] = t[i - Len(s)]
  BY ConcatProperties

(* Some of what comes first, and of what comes after it.                   *)
LEMMA WithinJoined ==
    ASSUME NEW T, NEW r \in Seq(T), NEW s \in Seq(T), NEW t \in Seq(T), NEW u \in Seq(T),
           Within(r, s), Within(t, u)
    PROVE  Within(r \o t, s \o u)
<1>1. PICK f \in [DOMAIN r -> DOMAIN s] :
            /\ \A i \in DOMAIN r : r[i] = s[f[i]]
            /\ \A i, j \in DOMAIN r : i < j => f[i] < f[j]
  BY DEF Within
<1>2. PICK g \in [DOMAIN t -> DOMAIN u] :
            /\ \A i \in DOMAIN t : t[i] = u[g[i]]
            /\ \A i, j \in DOMAIN t : i < j => g[i] < g[j]
  BY DEF Within
<1> DEFINE x == r \o t
           y == s \o u
<1>3. /\ Len(r) \in Nat /\ Len(t) \in Nat /\ DOMAIN r = 1..Len(r) /\ DOMAIN t = 1..Len(t)
      /\ DOMAIN x = 1..Len(r) + Len(t)
      /\ \A i \in 1..Len(r) : x[i] = r[i]
      /\ \A i \in Len(r) + 1..Len(r) + Len(t) : x[i] = t[i - Len(r)]
  BY Joined
<1>4. /\ Len(s) \in Nat /\ Len(u) \in Nat /\ DOMAIN s = 1..Len(s) /\ DOMAIN u = 1..Len(u)
      /\ DOMAIN y = 1..Len(s) + Len(u)
      /\ \A i \in 1..Len(s) : y[i] = s[i]
      /\ \A i \in Len(s) + 1..Len(s) + Len(u) : y[i] = u[i - Len(s)]
  BY Joined
<1> HIDE DEF x, y
<1> DEFINE h == [i \in DOMAIN x |-> IF i <= Len(r) THEN f[i] ELSE g[i - Len(r)] + Len(s)]
<1>5. ASSUME NEW i \in DOMAIN x
      PROVE  /\ h[i] \in DOMAIN y /\ x[i] = y[h[i]]
             /\ i <= Len(r) => h[i] = f[i] /\ f[i] \in 1..Len(s)
             /\ i > Len(r) => /\ h[i] = g[i - Len(r)] + Len(s)
                              /\ i - Len(r) \in DOMAIN t /\ g[i - Len(r)] \in 1..Len(u)
  <2>1. CASE i <= Len(r)
    <3>1. i \in DOMAIN r /\ f[i] \in 1..Len(s) /\ h[i] = f[i]
      BY <1>3, <1>4, <2>1
    <3>2. x[i] = r[i] /\ r[i] = s[f[i]] /\ y[f[i]] = s[f[i]]
      BY <1>1, <1>3, <1>4, <3>1
    <3> QED BY <1>3, <1>4, <2>1, <3>1, <3>2
  <2>2. CASE i > Len(r)
    <3>1. /\ i - Len(r) \in DOMAIN t /\ g[i - Len(r)] \in 1..Len(u)
          /\ h[i] = g[i - Len(r)] + Len(s)
      BY <1>3, <1>4, <2>2
    <3>2. h[i] \in Len(s) + 1..Len(s) + Len(u) /\ h[i] - Len(s) = g[i - Len(r)]
      BY <1>4, <3>1
    <3>3. x[i] = t[i - Len(r)] /\ t[i - Len(r)] = u[g[i - Len(r)]]
      <4> HIDE DEF h
      <4>1. i \in Len(r) + 1..Len(r) + Len(t)
        BY <1>3, <2>2
      <4>2. x[i] = t[i - Len(r)]
        BY <1>3, <4>1
      <4>3. t[i - Len(r)] = u[g[i - Len(r)]]
        BY <1>2, <3>1
      <4> QED BY <4>2, <4>3
    <3>4. y[h[i]] = u[g[i - Len(r)]]
      <4> HIDE DEF h
      <4> QED BY <1>4, <3>2
    <3> QED BY <1>3, <1>4, <2>2, <3>1, <3>2, <3>3, <3>4
  <2> QED BY <1>3, <2>1, <2>2
<1>6. h \in [DOMAIN x -> DOMAIN y]
  BY <1>5
<1>7. ASSUME NEW i \in DOMAIN x, NEW j \in DOMAIN x, i < j
      PROVE  h[i] < h[j]
  <2> HIDE DEF h
  <2>1. CASE j <= Len(r)
    <3>1. i <= Len(r) /\ i \in DOMAIN r /\ j \in DOMAIN r
      BY <1>3, <1>7, <2>1
    <3> QED BY <1>1, <1>5, <1>7, <2>1, <3>1
  <2>2. CASE i <= Len(r) /\ j > Len(r)
    <3>1. h[i] \in 1..Len(s) /\ h[j] \in Len(s) + 1..Len(s) + Len(u)
      BY <1>4, <1>5, <2>2
    <3> QED BY <1>4, <3>1
  <2>3. CASE i > Len(r) /\ j > Len(r)
    <3>1. i - Len(r) < j - Len(r) /\ i - Len(r) \in DOMAIN t /\ j - Len(r) \in DOMAIN t
      BY <1>3, <1>5, <1>7, <2>3
    <3>2. g[i - Len(r)] < g[j - Len(r)]
      BY <1>2, <3>1
    <3>3. h[i] = g[i - Len(r)] + Len(s) /\ h[j] = g[j - Len(r)] + Len(s)
          /\ g[i - Len(r)] \in Nat /\ g[j - Len(r)] \in Nat
      BY <1>4, <1>5, <2>3
    <3> QED BY <1>4, <3>2, <3>3
  <2> QED BY <1>3, <1>7, <2>1, <2>2, <2>3
<1>8. Within(x, y)
  <2> HIDE DEF h
  <2> QED BY <1>5, <1>6, <1>7 DEF Within
<1> QED BY <1>8 DEF x, y

(* A stretch of a sequence.                                                *)
LEMMA WithinStretch ==
    ASSUME NEW T, NEW s \in Seq(T), NEW m \in 1..Len(s) + 1, NEW n \in 0..Len(s)
    PROVE  /\ SubSeq(s, m, n) \in Seq(T) /\ Within(SubSeq(s, m, n), s)
           /\ Len(SubSeq(s, m, n)) = IF m <= n THEN n - m + 1 ELSE 0
<1>1. Len(s) \in Nat /\ DOMAIN s = 1..Len(s) /\ \A i \in m..n : s[i] \in T
  OBVIOUS
<1> DEFINE t == SubSeq(s, m, n)
<1>2. /\ t \in Seq(T) /\ Len(t) = IF m <= n THEN n - m + 1 ELSE 0
      /\ \A i \in 1..n - m + 1 : t[i] = s[m + i - 1]
  BY <1>1, SubSeqProperties
<1>3. DOMAIN t = 1..Len(t) /\ Len(t) \in Nat
  BY <1>2
<1> HIDE DEF t
<1> DEFINE at == [i \in DOMAIN t |-> m + i - 1]
<1>4. ASSUME NEW i \in DOMAIN t
      PROVE  i \in 1..n - m + 1 /\ at[i] = m + i - 1 /\ at[i] \in DOMAIN s
  BY <1>1, <1>2, <1>3
<1>5. at \in [DOMAIN t -> DOMAIN s] /\ \A i \in DOMAIN t : t[i] = s[at[i]]
  BY <1>2, <1>4
<1>6. \A i, j \in DOMAIN t : i < j => at[i] < at[j]
  BY <1>3
<1>7. Within(t, s)
  BY <1>5, <1>6 DEF Within
<1> QED BY <1>2, <1>7 DEF t

(* How many members of S come before i.                                    *)
Rank(S, i) == Cardinality({j \in S : j < i})

LEMMA RankGrows ==
    ASSUME NEW S \in SUBSET Nat, IsFiniteSet(S), NEW i \in S
    PROVE  /\ Rank(S, i) \in 0..(Cardinality(S) - 1)
           /\ \A j \in S : i < j => Rank(S, i) < Rank(S, j)
<1> DEFINE Before(m) == {x \in S : x < m}
<1>1. \A m \in S : /\ Before(m) \in SUBSET S /\ m \notin Before(m)
                   /\ IsFiniteSet(Before(m)) /\ Cardinality(Before(m)) \in Nat
                   /\ Cardinality(S) \in Nat
  <2> SUFFICES ASSUME NEW m \in S
               PROVE  /\ Before(m) \in SUBSET S /\ m \notin Before(m)
                      /\ IsFiniteSet(Before(m)) /\ Cardinality(Before(m)) \in Nat
                      /\ Cardinality(S) \in Nat
    OBVIOUS
  <2>1. Before(m) \in SUBSET S /\ m \notin Before(m)
    OBVIOUS
  <2>2. IsFiniteSet(Before(m))
    BY <2>1, FS_Subset
  <2> QED BY <2>1, <2>2, FS_CardinalityType
<1>2. Cardinality(Before(i)) < Cardinality(S)
  <2>1. Cardinality(Before(i)) <= Cardinality(S) /\ (Cardinality(S) = Cardinality(Before(i)) => S = Before(i))
    BY <1>1, FS_Subset
  <2> QED BY <1>1, <2>1
<1>3. ASSUME NEW j \in S, i < j
      PROVE  Cardinality(Before(i)) < Cardinality(Before(j))
  <2>0. i \in Nat /\ j \in Nat /\ S \subseteq Nat
    OBVIOUS
  <2>1. Before(i) \in SUBSET Before(j) /\ i \in Before(j)
    <3>1. \A x \in Nat : x < i => x < j
      BY <2>0, <1>3
    <3> QED BY <2>0, <1>3, <3>1
  <2>2. /\ Cardinality(Before(i)) <= Cardinality(Before(j))
        /\ Cardinality(Before(j)) = Cardinality(Before(i)) => Before(j) = Before(i)
    BY <1>1, <2>1, FS_Subset
  <2> QED BY <1>1, <2>1, <2>2
<1> QED BY <1>1, <1>2, <1>3 DEF Rank

(* Picked lists the items at the positions asked for, in their order.      *)
LEMMA WithinPicked ==
    ASSUME NEW T, NEW s \in Seq(T), NEW S \in SUBSET (DOMAIN s)
    PROVE  /\ Picked(s, S) \in Seq(T) /\ Within(Picked(s, S), s)
           /\ \A i \in DOMAIN Picked(s, S) : \E j \in S : Picked(s, S)[i] = s[j]
           /\ \A j \in S : \E i \in DOMAIN Picked(s, S) : Picked(s, S)[i] = s[j]
<1>0. Len(s) \in Nat /\ DOMAIN s = 1..Len(s) /\ \A i \in DOMAIN s : s[i] \in T
  OBVIOUS
<1>1. S \in SUBSET Nat /\ IsFiniteSet(S)
  <2>1. IsFiniteSet(1..Len(s))
    BY <1>0, FS_Interval
  <2> QED BY <1>0, <2>1, FS_Subset
<1> DEFINE n == Cardinality(S)
           rank == [i \in S |-> Rank(S, i) + 1]
           at == [k \in 1..n |-> CHOOSE i \in S : Rank(S, i) = k - 1]
           t == Picked(s, S)
<1>2. n \in Nat
  BY <1>1, FS_CardinalityType
<1>3. \A i \in S : Rank(S, i) \in 0..(n - 1) /\ \A j \in S : i < j => Rank(S, i) < Rank(S, j)
  BY <1>1, RankGrows
<1>4. t = [k \in 1..n |-> s[CHOOSE i \in S : Rank(S, i) = k - 1]]
  BY DEF Picked, Rank
<1> HIDE DEF n
<1>5. \A k \in 1..n : \E i \in S : Rank(S, i) = k - 1
  <2>1. rank \in Injection(S, 1..n)
    <3>1. rank \in [S -> 1..n]
      BY <1>2, <1>3
    <3>2. ASSUME NEW i \in S, NEW j \in S, rank[i] = rank[j]
          PROVE  i = j
      <4>1. Rank(S, i) = Rank(S, j) /\ Rank(S, i) \in Nat
        BY <1>2, <1>3, <3>2
      <4>2. ~(i < j) /\ ~(j < i)
        BY <1>3, <4>1
      <4> QED BY <1>1, <4>2
    <3> QED BY <3>1, <3>2 DEF Injection, IsInjective
  <2>2. IsFiniteSet(1..n) /\ Cardinality(1..n) = n
    BY <1>2, FS_Interval
  <2>3. rank \in Surjection(S, 1..n)
    <3>1. Cardinality(S) = Cardinality(1..n)
      BY <2>2 DEF n
    <3> QED BY <2>1, <2>2, <3>1, FS_Injection
  <2>4. ASSUME NEW k \in 1..n PROVE \E i \in S : Rank(S, i) = k - 1
    <3>1. PICK i \in S : rank[i] = k
      BY <2>3 DEF Surjection
    <3>2. k = Rank(S, i) + 1 /\ Rank(S, i) \in 0..(n - 1)
      BY <3>1, <1>3
    <3> QED BY <1>2, <3>2
  <2> QED BY <2>4
<1>6. \A k \in 1..n : at[k] \in S /\ Rank(S, at[k]) = k - 1 /\ t[k] = s[at[k]]
  BY <1>4, <1>5
<1>7. DOMAIN t = 1..n /\ DOMAIN at = 1..n
  BY <1>4
<1> HIDE DEF t, at
<1>8. t \in Seq(T)
  <2>1. t = [k \in 1..n |-> t[k]] /\ \A k \in 1..n : t[k] \in T
    <3>1. t = [k \in 1..n |-> t[k]]
      BY <1>4
    <3>2. \A k \in 1..n : at[k] \in DOMAIN s
      BY <1>6
    <3> QED BY <1>0, <1>6, <3>1, <3>2
  <2>2. t \in [1..n -> T]
    BY <2>1
  <2> QED BY <1>2, <2>2, SeqDef
<1>9. ASSUME NEW k \in 1..n, NEW l \in 1..n, k < l
      PROVE  at[k] < at[l]
  <2>1. Rank(S, at[k]) < Rank(S, at[l]) /\ at[k] \in S /\ at[l] \in S
    BY <1>2, <1>6, <1>9
  <2>2. ~(at[l] < at[k]) /\ at[l] # at[k]
    <3>1. at[l] < at[k] => Rank(S, at[l]) < Rank(S, at[k])
      BY <1>3, <2>1
    <3>2. Rank(S, at[l]) \in Nat /\ Rank(S, at[k]) \in Nat
      BY <1>2, <1>3, <2>1
    <3> QED BY <2>1, <3>1, <3>2
  <2> QED BY <1>1, <2>1, <2>2
<1>10. Within(t, s)
  <2>1. at \in [DOMAIN t -> DOMAIN s]
    <3>1. at = [k \in 1..n |-> at[k]]
      BY DEF at
    <3> QED BY <1>6, <1>7, <3>1
  <2> QED BY <1>6, <1>7, <1>9, <2>1 DEF Within
<1>11. \A i \in DOMAIN t : \E j \in S : t[i] = s[j]
  BY <1>6, <1>7
<1>12. ASSUME NEW j \in S
       PROVE  \E i \in DOMAIN t : t[i] = s[j]
  <2>1. Rank(S, j) + 1 \in 1..n /\ (Rank(S, j) + 1) - 1 = Rank(S, j)
    BY <1>2, <1>3
  <2>2. at[Rank(S, j) + 1] \in S /\ Rank(S, at[Rank(S, j) + 1]) = Rank(S, j)
        /\ t[Rank(S, j) + 1] = s[at[Rank(S, j) + 1]]
    BY <1>6, <2>1
  <2>3. at[Rank(S, j) + 1] = j
    <3> DEFINE x == at[Rank(S, j) + 1]
    <3>1. x \in S /\ Rank(S, x) = Rank(S, j) /\ Rank(S, j) \in Nat
      BY <1>2, <1>3, <2>2
    <3> HIDE DEF x
    <3>2. ~(x < j) /\ ~(j < x)
      BY <1>3, <3>1
    <3>3. x = j
      BY <1>1, <3>1, <3>2
    <3> QED BY <3>3 DEF x
  <2> QED BY <1>7, <2>1, <2>2, <2>3
<1> QED BY <1>8, <1>10, <1>11, <1>12 DEF t

(* The inbox holds some of what is stashed, in its order, and no more than *)
(* the cap.                                                                *)
LEMMA WithinStash ==
    ASSUME NEW T, NEW gs, NEW s \in Seq(T)
    PROVE  /\ Stash(gs, s) \in Seq(T) /\ Within(Stash(gs, s), s)
           /\ Len(Stash(gs, s)) <= INBOX_CAP
<1> DEFINE all == Known(gs, s)
           excess == IF Len(all) > INBOX_CAP THEN Len(all) - INBOX_CAP ELSE 0
<1>1. all \in Seq(T) /\ Within(all, s)
  BY WithinPicked DEF Known
<1>2. Stash(gs, s) = SubSeq(all, excess + 1, Len(all))
  BY DEF Stash
<1> HIDE DEF all
<1>3. Len(all) \in Nat /\ INBOX_CAP \in Nat
  BY <1>1, DaemonAssumption
<1>4. excess + 1 \in 1..Len(all) + 1 /\ Len(all) \in 0..Len(all)
  BY <1>3
<1>5. /\ Stash(gs, s) \in Seq(T) /\ Within(Stash(gs, s), all)
      /\ Len(Stash(gs, s)) = IF excess + 1 <= Len(all) THEN Len(all) - (excess + 1) + 1 ELSE 0
  <2> HIDE DEF excess
  <2> QED BY <1>1, <1>2, <1>4, WithinStretch
<1>6. Len(Stash(gs, s)) <= INBOX_CAP
  BY <1>3, <1>5
<1> QED BY <1>1, <1>5, <1>6, WithinSome

-----------------------------------------------------------------------------
(* The loop of poll_messages.                                              *)

(* A non-empty set of naturals has a least element.                        *)
LEMMA LeastElement ==
    ASSUME NEW S \in SUBSET Nat, S # {}
    PROVE  \E i \in S : \A j \in S : i <= j
<1> DEFINE Below == OpToRel(<, Nat)
<1>1. IsWellFoundedOn(Below, Nat)
  BY NatLessThanWellFounded
<1>2. \A x, y \in Nat : y < x => <<y, x>> \in Below
  BY DEF OpToRel
<1> HIDE DEF Below
<1>3. PICK i \in S : \A j \in S : <<j, i>> \notin Below
  BY <1>1, WFMin
<1>4. \A j \in S : ~(j < i)
  BY <1>2, <1>3
<1> QED BY <1>4

LoopStart(h) == [h |-> h, out |-> <<>>, keep |-> <<>>, failed |-> FALSE, changed |-> FALSE]

(* The loop over the fetched envelopes, one envelope at a time.            *)
LEMMA PollLoopSteps ==
    ASSUME NEW g, NEW h, NEW all, Len(all) \in Nat
    PROVE  /\ PollLoop(g, h, all)[0] = LoopStart(h)
           /\ \A i \in 1..Len(all) :
                 PollLoop(g, h, all)[i] = PollOne(g, PollLoop(g, h, all)[i - 1], all[i])
<1> DEFINE n == Len(all)
           Loop(f, m) == f = [i \in 0..m |-> IF i = 0 THEN LoopStart(h) ELSE PollOne(g, f[i - 1], all[i])]
           it == CHOOSE f : Loop(f, n)
<1>1. PollLoop(g, h, all) = it
  BY DEF PollLoop, LoopStart
<1>2. \A m \in 0..n : \E f : Loop(f, m)
  <2> DEFINE S == {m \in 0..n : ~\E f : Loop(f, m)}
  <2> SUFFICES ASSUME S # {} PROVE FALSE
    OBVIOUS
  <2>1. PICK m \in S : \A k \in S : m <= k
    <3>1. S \in SUBSET Nat
      OBVIOUS
    <3> HIDE DEF S
    <3> QED BY <3>1, LeastElement
  <2>2. CASE m = 0
    <3> DEFINE f == [i \in 0..0 |-> LoopStart(h)]
    <3>1. f = [i \in 0..0 |-> IF i = 0 THEN LoopStart(h) ELSE PollOne(g, f[i - 1], all[i])]
      OBVIOUS
    <3>2. Loop(f, m)
      BY <2>2, <3>1
    <3> HIDE DEF f
    <3> QED BY <2>1, <3>2
  <2>3. CASE m # 0
    <3>1. m - 1 \in 0..n /\ m - 1 \notin S /\ m \in 1..n
      <4>1. m \in 0..n
        OBVIOUS
      <4> HIDE DEF S
      <4> QED BY <2>1, <2>3, <4>1
    <3>2. PICK f : Loop(f, m - 1)
      <4> HIDE DEF Loop
      <4> QED BY <3>1
    <3> DEFINE k == [i \in 0..m |-> IF i = m THEN PollOne(g, f[m - 1], all[m]) ELSE f[i]]
    <3>3. ASSUME NEW i \in 0..m
          PROVE  k[i] = IF i = 0 THEN LoopStart(h) ELSE PollOne(g, k[i - 1], all[i])
      <4>1. CASE i = m
        <5>1. m - 1 \in 0..m /\ m - 1 # m /\ i # 0
          BY <2>3, <3>1, <4>1
        <5>2. k[m - 1] = f[m - 1] /\ k[i] = PollOne(g, f[m - 1], all[m])
          BY <4>1, <5>1
        <5> HIDE DEF k
        <5> QED BY <4>1, <5>1, <5>2
      <4>2. CASE i # m
        <5>1. i \in 0..m - 1 /\ k[i] = f[i] /\ (i # 0 => i - 1 \in 0..m /\ i - 1 # m /\ k[i - 1] = f[i - 1])
          BY <3>1, <3>3, <4>2
        <5> HIDE DEF k
        <5>2. f[i] = IF i = 0 THEN LoopStart(h) ELSE PollOne(g, f[i - 1], all[i])
          BY <3>2, <5>1
        <5> QED BY <5>1, <5>2
      <4> QED BY <4>1, <4>2
    <3>4. Loop(k, m)
      <4>1. k = [i \in 0..m |-> k[i]]
        OBVIOUS
      <4> HIDE DEF k
      <4> QED BY <3>3, <4>1
    <3> HIDE DEF k
    <3> QED BY <2>1, <3>4
  <2> QED BY <2>2, <2>3
<1>3. Loop(it, n)
  <2>1. n \in 0..n
    OBVIOUS
  <2>2. \E f : Loop(f, n)
    BY <1>2, <2>1
  <2> QED BY <2>2
<1> HIDE DEF it
<1>4. \A i \in 0..n : it[i] = IF i = 0 THEN LoopStart(h) ELSE PollOne(g, it[i - 1], all[i])
  BY <1>3
<1> QED BY <1>1, <1>4

-----------------------------------------------------------------------------
(* The shapes of the state.                                                *)

(* What a mailbox may hold, a registry, and the operations in progress.    *)
Mailable == {e \in EnvelopeType : e.kind = "Commit" => e.id \in 1..MaxCommits}

Registries == UNION {[D -> GroupState] : D \in SUBSET Groups}

Invite == [group : Groups, hist : Histories, tree : SUBSET Wallets, consumed : BOOLEAN, joiner : Wallets]

Invitations == UNION {[D -> Invite] : D \in SUBSET Tokens}

Message == [group : Groups, sender : Wallets, hist : Histories, gen : Nat, accepted : BOOLEAN,
            roster : SUBSET Wallets]

Operations ==
    {Idle, Persist}
    \union [pc : {"commit", "onboard"}, group : Groups, who : Wallets]
    \union [pc : {"welcome"}, env : Mailable]
    \union [pc : {"pending"}, todo : Seq(Mailable), rest : Seq(Mailable)]
    \union [pc : {"redeem"}, token : Tokens]

(* An operation in progress is about a group its daemon has, or does not   *)
(* have yet.                                                               *)
OpFits(o, gs, inv) ==
    /\ o.pc \in {"commit", "onboard"} => o.group \in DOMAIN gs
    /\ o.pc = "welcome" => o.env.group \notin DOMAIN gs
    /\ o.pc = "redeem" => o.token \in DOMAIN inv /\ inv[o.token].group \notin DOMAIN gs

DaemonType ==
    /\ groups \in [Wallets -> Registries] /\ disk \in [Wallets -> Registries]
    /\ inbox \in [Wallets -> Seq(Mailable)] /\ mail \in [Wallets -> Seq(Mailable)]
    /\ \A w \in Wallets : Len(inbox[w]) <= INBOX_CAP
    /\ op \in [Wallets -> Operations]
    /\ \A w \in Wallets : OpFits(op[w], groups[w], invites)
    /\ roster \in [Groups -> SUBSET Wallets] /\ order \in [Groups -> Histories]
    /\ packages \in [Wallets -> Nat]
    /\ invites \in Invitations
    /\ commits \in 0..MaxCommits /\ crashes \in 0..MaxCrashes /\ torn \in BOOLEAN
    /\ sent \in Seq(Message) /\ shown \in [Wallets -> Seq(Nat)]

(* A registry with a row put into it.                                      *)
LEMMA PutRegistry ==
    ASSUME NEW r \in Registries, NEW g \in Groups, NEW h \in GroupState
    PROVE  /\ Put(r, g, h) \in Registries
           /\ DOMAIN Put(r, g, h) = DOMAIN r \union {g}
           /\ Put(r, g, h)[g] = h
           /\ \A f \in DOMAIN r \ {g} : Put(r, g, h)[f] = r[f]
<1>1. PICK D \in SUBSET Groups : r \in [D -> GroupState]
  BY DEF Registries
<1>2. D \union {g} \in SUBSET Groups
  OBVIOUS
<1>3. Put(r, g, h) \in [D \union {g} -> GroupState]
  BY <1>1 DEF Put
<1>4. Put(r, g, h) \in Registries
  BY <1>2, <1>3 DEF Registries
<1> QED BY <1>1, <1>3, <1>4 DEF Put

LEMMA RegistryRows ==
    ASSUME NEW r \in Registries
    PROVE  DOMAIN r \subseteq Groups /\ \A g \in DOMAIN r : r[g] \in GroupState
  BY DEF Registries

LEMMA NoGroupsRegistry == NoGroups \in Registries /\ DOMAIN NoGroups = {}
<1>1. NoGroups \in [{} -> GroupState] /\ {} \in SUBSET Groups /\ DOMAIN NoGroups = {}
  BY DEF NoGroups
<1> QED BY <1>1 DEF Registries

LEMMA InviteRows ==
    ASSUME NEW v \in Invitations
    PROVE  DOMAIN v \subseteq Tokens /\ \A t \in DOMAIN v : v[t] \in Invite
  BY DEF Invitations

LEMMA InvitePut ==
    ASSUME NEW v \in Invitations, NEW t \in Tokens, NEW i \in Invite
    PROVE  /\ Put(v, t, i) \in Invitations
           /\ DOMAIN Put(v, t, i) = DOMAIN v \union {t}
           /\ \A s \in DOMAIN v \ {t} : Put(v, t, i)[s] = v[s]
<1>1. PICK D \in SUBSET Tokens : v \in [D -> Invite]
  BY DEF Invitations
<1>2. D \union {t} \in SUBSET Tokens
  OBVIOUS
<1>3. Put(v, t, i) \in [D \union {t} -> Invite]
  BY <1>1 DEF Put
<1>4. Put(v, t, i) \in Invitations
  BY <1>2, <1>3 DEF Invitations
<1> QED BY <1>1, <1>3, <1>4 DEF Put

LEMMA HandleType ==
    ASSUME NEW hist \in Histories, NEW tree \in SUBSET Wallets, NEW members \in SUBSET Wallets
    PROVE  Handle(hist, tree, members) \in GroupState
  BY DEF Handle, GroupState

(* The history after one more Commit.                                      *)
LEMMA HistoryGrows ==
    ASSUME NEW hist \in Histories, NEW id \in 1..MaxCommits
    PROVE  Append(hist, id) \in Histories /\ Len(Append(hist, id)) = Len(hist) + 1 /\ Len(hist) \in Nat
  BY DEF Histories

LEMMA EnvelopeMailable ==
    ASSUME NEW kind \in {"Commit", "Welcome", "Application"}, NEW g \in Groups, NEW w \in Wallets,
           NEW hist \in Histories, NEW tree \in SUBSET Wallets, NEW id \in Nat, NEW gen \in Nat,
           kind = "Commit" => id \in 1..MaxCommits
    PROVE  Envelope(kind, g, w, hist, tree, id, gen) \in Mailable
  BY DEF Envelope, EnvelopeType, Mailable

(* A delivery is at the end of the mailboxes of its recipients.            *)
LEMMA Delivered ==
    ASSUME NEW R, NEW e \in Mailable, mail \in [Wallets -> Seq(Mailable)]
    PROVE  /\ Deliver(R, e) \in [Wallets -> Seq(Mailable)]
           /\ \A w \in Wallets : Deliver(R, e)[w] = IF w \in R THEN Append(mail[w], e) ELSE mail[w]
<1>1. \A w \in Wallets : Append(mail[w], e) \in Seq(Mailable)
  <2> SUFFICES ASSUME NEW w \in Wallets PROVE Append(mail[w], e) \in Seq(Mailable)
    OBVIOUS
  <2>1. mail[w] \in Seq(Mailable)
    OBVIOUS
  <2> QED BY <2>1, AppendProperties
<1> QED BY <1>1 DEF Deliver

(* What take_inbox returns and what stays in the mailbox.                  *)
LEMMA Fetched ==
    ASSUME DaemonType, NEW w \in Wallets, NEW k \in 0..Len(mail[w])
    PROVE  /\ TakeInbox(w, k) \in Seq(Mailable)
           /\ SubSeq(mail[w], k + 1, Len(mail[w])) \in Seq(Mailable)
           /\ TakeInbox(w, k) \o SubSeq(mail[w], k + 1, Len(mail[w])) = inbox[w] \o mail[w]
<1> DEFINE s == mail[w]
           t == SubSeq(s, 1, k)
           u == SubSeq(s, k + 1, Len(s))
           i == inbox[w]
<1>1. s \in Seq(Mailable) /\ i \in Seq(Mailable) /\ Len(s) \in Nat
  BY DEF DaemonType
<1>2. 1 \in 1..Len(s) + 1 /\ k \in 0..Len(s) /\ k + 1 \in 1..Len(s) + 1 /\ Len(s) \in 0..Len(s)
      /\ k \in 1 - 1..Len(s) /\ Len(s) \in k..Len(s)
  BY <1>1
<1>3. t \in Seq(Mailable) /\ u \in Seq(Mailable)
  <2> HIDE DEF s
  <2> QED BY <1>1, <1>2, WithinStretch
<1>4. t \o u = s
  <2> HIDE DEF s
  <2>1. t \o u = SubSeq(s, 1, Len(s))
    BY <1>1, <1>2, ConcatAdjacentSubSeq
  <2> QED BY <1>1, <2>1, SubSeqFull
<1>5. (i \o t) \o u = i \o (t \o u)
  <2> HIDE DEF t, u, i
  <2> QED BY <1>1, <1>3, ConcatAssociative
<1>6. i \o t \in Seq(Mailable)
  <2> HIDE DEF t, i
  <2> QED BY <1>1, <1>3, ConcatProperties
<1> QED BY <1>3, <1>4, <1>5, <1>6 DEF TakeInbox

(* Some of the first i items of "all", in their order.                     *)
From(s, all, i) ==
    \E at \in [DOMAIN s -> 1..i] :
        /\ \A n \in DOMAIN s : s[n] = all[at[n]]
        /\ \A m, n \in DOMAIN s : m < n => at[m] < at[n]

LEMMA FromNothing ==
    ASSUME NEW all
    PROVE  From(<<>>, all, 0)
<1> DEFINE at == [n \in {} |-> 1]
<1>1. at \in [DOMAIN <<>> -> 1..0]
  OBVIOUS
<1>2. \A n \in DOMAIN <<>> : FALSE
  OBVIOUS
<1> QED BY <1>1, <1>2 DEF From

LEMMA FromMore ==
    ASSUME NEW s, NEW all, NEW i \in Nat \ {0}, From(s, all, i - 1)
    PROVE  From(s, all, i)
<1>1. \A at \in [DOMAIN s -> 1..i - 1] : at \in [DOMAIN s -> 1..i]
  OBVIOUS
<1> QED BY <1>1 DEF From

LEMMA FromNext ==
    ASSUME NEW T, NEW s \in Seq(T), NEW all, NEW i \in Nat \ {0}, all[i] \in T, From(s, all, i - 1)
    PROVE  Append(s, all[i]) \in Seq(T) /\ From(Append(s, all[i]), all, i)
<1>1. PICK f \in [DOMAIN s -> 1..i - 1] :
            /\ \A n \in DOMAIN s : s[n] = all[f[n]]
            /\ \A m, n \in DOMAIN s : m < n => f[m] < f[n]
  BY DEF From
<1> DEFINE t == Append(s, all[i])
           at == [n \in DOMAIN t |-> IF n <= Len(s) THEN f[n] ELSE i]
<1>2. /\ t \in Seq(T) /\ Len(t) = Len(s) + 1 /\ Len(s) \in Nat /\ DOMAIN s = 1..Len(s)
      /\ DOMAIN t = 1..Len(s) + 1
      /\ \A n \in 1..Len(s) : t[n] = s[n]
      /\ t[Len(s) + 1] = all[i]
  BY AppendProperties
<1> HIDE DEF t
<1>3. ASSUME NEW n \in DOMAIN t
      PROVE  at[n] \in 1..i /\ t[n] = all[at[n]] /\ (n \notin DOMAIN s => n = Len(s) + 1)
             /\ at[n] = IF n \in DOMAIN s THEN f[n] ELSE i
  <2>1. CASE n \in DOMAIN s
    BY <1>1, <1>2, <2>1
  <2>2. CASE n \notin DOMAIN s
    BY <1>2, <2>2
  <2> QED BY <2>1, <2>2
<1>4. at \in [DOMAIN t -> 1..i]
  BY <1>3
<1>5. ASSUME NEW m \in DOMAIN t, NEW n \in DOMAIN t, m < n
      PROVE  at[m] < at[n]
  <2> HIDE DEF at
  <2>1. m \in DOMAIN s
    BY <1>2, <1>5
  <2>2. CASE n \in DOMAIN s
    BY <1>1, <1>3, <1>5, <2>1, <2>2
  <2>3. CASE n \notin DOMAIN s
    <3>1. at[m] \in 1..i - 1 /\ at[n] = i
      BY <1>1, <1>3, <2>1, <2>3
    <3> QED BY <3>1
  <2> QED BY <2>2, <2>3
<1>6. From(t, all, i)
  <2> HIDE DEF at
  <2> QED BY <1>3, <1>4, <1>5 DEF From
<1> QED BY <1>2, <1>6 DEF t

Accumulator == [h : GroupState, out : Seq(Nat), keep : Seq(Mailable), failed : BOOLEAN, changed : BOOLEAN]

(* "ids" are those of Application envelopes of g, taken in their order.    *)
Taken(ids, g, all, i) ==
    \E s \in Seq(Mailable) :
        /\ From(s, all, i) /\ Len(s) = Len(ids)
        /\ \A n \in DOMAIN s : ids[n] = s[n].id /\ s[n].kind = "Application" /\ s[n].group = g

(* A handle moves on in its history, or stays there with its ratchets.     *)
MovesOn(h, old) == (h.hist = old.hist /\ h.gen = old.gen) \/ Len(old.hist) < Len(h.hist)

LoopFact(acc, g, h, all, i) ==
    /\ acc \in Accumulator
    /\ From(acc.keep, all, i)
    /\ ~acc.failed => \A n \in DOMAIN acc.keep : acc.keep[n].group # g
    /\ Taken(acc.out, g, all, i)
    /\ MovesOn(acc.h, h)

LEMMA LoopFactStart ==
    ASSUME NEW g, NEW h \in GroupState, NEW all
    PROVE  LoopFact(LoopStart(h), g, h, all, 0)
<1>1. LoopStart(h) \in Accumulator
  BY DEF LoopStart, Accumulator
<1>2. /\ LoopStart(h).keep = <<>> /\ LoopStart(h).out = <<>> /\ LoopStart(h).h = h
  BY DEF LoopStart
<1>3. Taken(<<>>, g, all, 0)
  <2>1. <<>> \in Seq(Mailable) /\ DOMAIN <<>> = {}
    OBVIOUS
  <2> QED BY <2>1, FromNothing DEF Taken
<1>4. From(<<>>, all, 0)
  BY FromNothing
<1>5. DOMAIN <<>> = {}
  OBVIOUS
<1> HIDE DEF LoopStart
<1> QED BY <1>1, <1>2, <1>3, <1>4, <1>5 DEF LoopFact, MovesOn

(* One envelope.                                                           *)
LEMMA LoopFactNext ==
    ASSUME NEW acc, NEW g, NEW h \in GroupState, NEW all, NEW i \in Nat \ {0}, all[i] \in Mailable,
           LoopFact(acc, g, h, all, i - 1)
    PROVE  LoopFact(PollOne(g, acc, all[i]), g, h, all, i)
<1> DEFINE e == all[i]
           res == PollOne(g, acc, e)
<1> SUFFICES LoopFact(res, g, h, all, i)
  OBVIOUS
<1>0. /\ acc \in Accumulator /\ From(acc.keep, all, i - 1) /\ Taken(acc.out, g, all, i - 1)
      /\ ~acc.failed => \A n \in DOMAIN acc.keep : acc.keep[n].group # g
      /\ MovesOn(acc.h, h)
  BY DEF LoopFact
<1>1. From(acc.keep, all, i) /\ Taken(acc.out, g, all, i)
  BY <1>0, FromMore DEF Taken
<1>2. /\ acc.h \in GroupState /\ acc.out \in Seq(Nat) /\ acc.keep \in Seq(Mailable)
      /\ acc.failed \in BOOLEAN /\ acc.changed \in BOOLEAN
  BY <1>0 DEF Accumulator
<1>3. e \in Mailable /\ e.kind \in {"Commit", "Welcome", "Application"} /\ e.sender \in Wallets
      /\ e.id \in Nat /\ e.gen \in Nat /\ e.tree \in SUBSET Wallets
      /\ (e.kind = "Commit" => e.id \in 1..MaxCommits)
  BY DEF Mailable, EnvelopeType
<1>4. CASE acc.failed \/ e.group # g
  <2> DEFINE k == Append(acc.keep, e)
  <2>1. res = [acc EXCEPT !.keep = k]
    BY <1>4 DEF PollOne
  <2>2. k \in Seq(Mailable) /\ From(k, all, i)
    BY <1>0, <1>2, FromNext
  <2>3. ~acc.failed => \A n \in DOMAIN k : k[n].group # g
    <3>1. /\ DOMAIN k = 1..Len(acc.keep) + 1 /\ DOMAIN acc.keep = 1..Len(acc.keep)
          /\ \A n \in 1..Len(acc.keep) : k[n] = acc.keep[n]
          /\ k[Len(acc.keep) + 1] = e
      BY <1>2, <1>3, AppendProperties
    <3>2. \A n \in 1..Len(acc.keep) + 1 : n \in 1..Len(acc.keep) \/ n = Len(acc.keep) + 1
      BY <1>2
    <3> HIDE DEF k, e
    <3> QED BY <1>0, <1>4, <3>1, <3>2
  <2> HIDE DEF k
  <2>4. /\ res \in Accumulator /\ res.keep = k /\ res.h = acc.h /\ res.out = acc.out
        /\ res.failed = acc.failed
    <3> HIDE DEF res
    <3> QED BY <1>0, <2>1, <2>2 DEF Accumulator
  <2> HIDE DEF res
  <2> QED BY <1>0, <1>1, <2>2, <2>3, <2>4 DEF LoopFact
<1>5. CASE ~acc.failed /\ e.group = g /\ e.kind = "Welcome"
  <2>1. res = acc
    BY <1>5 DEF PollOne
  <2> HIDE DEF res
  <2> QED BY <1>0, <1>1, <2>1 DEF LoopFact
<1>6. CASE res = [acc EXCEPT !.failed = TRUE]
  <2>1. /\ res \in Accumulator /\ res.keep = acc.keep /\ res.h = acc.h /\ res.out = acc.out
        /\ res.failed
    <3> HIDE DEF res
    <3> QED BY <1>0, <1>6 DEF Accumulator
  <2> HIDE DEF res
  <2> QED BY <1>0, <1>1, <2>1 DEF LoopFact
<1>7. CASE ~acc.failed /\ e.group = g /\ e.kind = "Commit"
  <2> SUFFICES ASSUME res # [acc EXCEPT !.failed = TRUE] PROVE LoopFact(res, g, h, all, i)
    BY <1>6
  <2> DEFINE n == ReconcileRoster(Handle(Append(acc.h.hist, e.id), e.tree, acc.h.members))
  <2>1. res = [acc EXCEPT !.h = n, !.changed = TRUE]
    BY <1>7 DEF PollOne
  <2>2. acc.h.hist \in Histories /\ acc.h.members \in SUBSET Wallets
    BY <1>2 DEF GroupState
  <2>3. Append(acc.h.hist, e.id) \in Histories
        /\ Len(Append(acc.h.hist, e.id)) = Len(acc.h.hist) + 1 /\ Len(acc.h.hist) \in Nat
    BY <1>3, <1>7, <2>2, HistoryGrows
  <2>4. n \in GroupState /\ n.hist = Append(acc.h.hist, e.id)
    <3> DEFINE a == Append(acc.h.hist, e.id)
               m == Handle(a, e.tree, acc.h.members)
    <3>1. m \in GroupState /\ m.hist = a /\ m.tree = e.tree /\ m.members = acc.h.members
      <4> HIDE DEF a
      <4> QED BY <1>3, <2>2, <2>3, HandleType DEF Handle, a
    <3> HIDE DEF m
    <3>2. n = [m EXCEPT !.members = acc.h.members \union e.tree]
      BY <3>1 DEF ReconcileRoster, m
    <3> HIDE DEF n, a
    <3> QED BY <1>3, <2>2, <3>1, <3>2 DEF GroupState, a
  <2>5. Len(h.hist) \in Nat /\ Len(acc.h.hist) \in Nat
    BY <2>2 DEF GroupState, Histories
  <2> HIDE DEF n
  <2>6. MovesOn(n, h)
    BY <1>0, <2>3, <2>4, <2>5 DEF MovesOn
  <2>7. /\ res \in Accumulator /\ res.keep = acc.keep /\ res.h = n /\ res.out = acc.out
        /\ res.failed = acc.failed
    <3> HIDE DEF res
    <3> QED BY <1>0, <2>1, <2>4 DEF Accumulator
  <2> HIDE DEF res
  <2> QED BY <1>0, <1>1, <2>6, <2>7 DEF LoopFact
<1>8. CASE ~acc.failed /\ e.group = g /\ e.kind = "Application"
  <2> SUFFICES ASSUME res # [acc EXCEPT !.failed = TRUE] PROVE LoopFact(res, g, h, all, i)
    BY <1>6
  <2> DEFINE n == [acc.h EXCEPT !.used = @ \union {<<e.sender, e.gen>>}]
             o == Append(acc.out, e.id)
  <2>1. res = [acc EXCEPT !.h = n, !.out = o, !.changed = TRUE]
    BY <1>2, <1>8 DEF PollOne, Accumulator
  <2>2. n \in GroupState /\ n.hist = acc.h.hist /\ n.gen = acc.h.gen
    <3> DEFINE u == acc.h.used \union {<<e.sender, e.gen>>}
               r == acc.h
    <3>1. u \in SUBSET (Wallets \X Nat)
      <4> HIDE DEF e
      <4> QED BY <1>2, <1>3 DEF GroupState
    <3>2. n = [r EXCEPT !.used = u] /\ r \in GroupState
      BY <1>2
    <3> HIDE DEF n, u, r
    <3>3. n \in GroupState /\ n.hist = r.hist /\ n.gen = r.gen
      BY <3>1, <3>2 DEF GroupState
    <3> QED BY <3>3 DEF r
  <2>3. o \in Seq(Nat)
    BY <1>2, <1>3
  <2>4. Taken(o, g, all, i)
    <3>1. PICK s \in Seq(Mailable) :
                /\ From(s, all, i - 1) /\ Len(s) = Len(acc.out)
                /\ \A x \in DOMAIN s : acc.out[x] = s[x].id /\ s[x].kind = "Application" /\ s[x].group = g
      BY <1>0 DEF Taken
    <3> DEFINE t == Append(s, e)
    <3>2. t \in Seq(Mailable) /\ From(t, all, i)
      BY <3>1, FromNext
    <3>3. /\ Len(t) = Len(s) + 1 /\ DOMAIN t = 1..Len(s) + 1 /\ DOMAIN s = 1..Len(s) /\ Len(s) \in Nat
          /\ \A x \in 1..Len(s) : t[x] = s[x]
          /\ t[Len(s) + 1] = e
      BY <1>3, AppendProperties
    <3>4. /\ Len(o) = Len(s) + 1 /\ \A x \in 1..Len(s) : o[x] = acc.out[x]
          /\ o[Len(s) + 1] = e.id
      BY <1>2, <1>3, <3>1, AppendProperties
    <3>5. \A x \in 1..Len(s) + 1 : x \in 1..Len(s) \/ x = Len(s) + 1
      BY <3>3
    <3> HIDE DEF t, o, e
    <3>6. \A x \in DOMAIN t : o[x] = t[x].id /\ t[x].kind = "Application" /\ t[x].group = g
      BY <1>8, <3>1, <3>3, <3>4, <3>5
    <3>7. Len(t) = Len(o)
      BY <3>3, <3>4
    <3> QED BY <3>2, <3>6, <3>7 DEF Taken
  <2> HIDE DEF n, o
  <2>5. MovesOn(n, h)
    BY <1>0, <2>2 DEF MovesOn
  <2>6. /\ res \in Accumulator /\ res.keep = acc.keep /\ res.h = n /\ res.out = o
        /\ res.failed = acc.failed
    <3> HIDE DEF res
    <3> QED BY <1>0, <2>1, <2>2, <2>3 DEF Accumulator
  <2> HIDE DEF res
  <2> QED BY <1>0, <1>1, <2>4, <2>5, <2>6 DEF LoopFact
<1> QED BY <1>2, <1>3, <1>4, <1>5, <1>7, <1>8

(* The loop, after each number of envelopes, and the whole of it.          *)
LEMMA PollSoFar ==
    ASSUME NEW g, NEW h \in GroupState, NEW all \in Seq(Mailable)
    PROVE  \A i \in 0..Len(all) : LoopFact(PollLoop(g, h, all)[i], g, h, all, i)
<1> DEFINE it == PollLoop(g, h, all)
           n == Len(all)
           S == {i \in 0..n : ~LoopFact(it[i], g, h, all, i)}
<1>1. n \in Nat /\ \A i \in 1..n : all[i] \in Mailable
  OBVIOUS
<1>2. it[0] = LoopStart(h) /\ \A i \in 1..n : it[i] = PollOne(g, it[i - 1], all[i])
  BY <1>1, PollLoopSteps
<1> HIDE DEF it, n
<1>3. S = {}
  <2> SUFFICES ASSUME S # {} PROVE FALSE
    OBVIOUS
  <2>1. PICK i \in S : \A j \in S : i <= j
    <3>1. S \in SUBSET Nat
      BY <1>1
    <3> HIDE DEF S
    <3> QED BY <3>1, LeastElement
  <2>2. i # 0
    BY <1>2, LoopFactStart
  <2>3. i \in 1..n /\ i - 1 \in 0..n /\ i - 1 \notin S
    <3>1. i \in 0..n
      OBVIOUS
    <3> HIDE DEF S
    <3> QED BY <1>1, <2>1, <2>2, <3>1
  <2>4. LoopFact(it[i - 1], g, h, all, i - 1)
    BY <2>3
  <2>5. LoopFact(it[i], g, h, all, i)
    <3>1. i \in Nat \ {0} /\ all[i] \in Mailable
      BY <1>1, <2>3
    <3>2. LoopFact(PollOne(g, it[i - 1], all[i]), g, h, all, i)
      BY <2>4, <3>1, LoopFactNext
    <3> QED BY <1>2, <2>3, <3>2
  <2> QED BY <2>5
<1> QED BY <1>1, <1>3 DEF it, n

LEMMA PollResult ==
    ASSUME NEW g, NEW h \in GroupState, NEW all \in Seq(Mailable)
    PROVE  LoopFact(PollLoop(g, h, all)[Len(all)], g, h, all, Len(all))
<1>1. Len(all) \in 0..Len(all)
  OBVIOUS
<1> QED BY <1>1, PollSoFar

(* What each operation in progress carries.                                *)
LEMMA OperationParts ==
    ASSUME NEW o \in Operations
    PROVE  /\ o.pc \in {"idle", "persist", "commit", "onboard", "welcome", "pending", "redeem"}
           /\ o.pc \in {"commit", "onboard"} => o.group \in Groups /\ o.who \in Wallets
           /\ o.pc = "welcome" => o.env \in Mailable
           /\ o.pc = "pending" => /\ o.todo \in Seq(Mailable) /\ o.rest \in Seq(Mailable)
                                  /\ o = [pc |-> "pending", todo |-> o.todo, rest |-> o.rest]
           /\ o.pc = "redeem" => o.token \in Tokens
  BY DEF Operations, Idle, Persist

(* ... and is about.                                                       *)
LEMMA QuietFits ==
    ASSUME NEW gs, NEW inv, NEW o \in {Idle, Persist}
    PROVE  o \in Operations /\ o.pc \in {"idle", "persist"} /\ OpFits(o, gs, inv)
  BY DEF Operations, Idle, Persist, OpFits

LEMMA PendingFits ==
    ASSUME NEW gs, NEW inv, NEW s \in Seq(Mailable), NEW t \in Seq(Mailable)
    PROVE  LET o == [pc |-> "pending", todo |-> s, rest |-> t]
           IN  o \in Operations /\ OpFits(o, gs, inv)
  BY DEF Operations, OpFits

(* One daemon's registry and operation change.                             *)
LEMMA ActorStep ==
    ASSUME DaemonType, NEW w \in Wallets, NEW r \in Registries, NEW o \in Operations,
           groups' = [groups EXCEPT ![w] = r], op' = [op EXCEPT ![w] = o],
           OpFits(o, r, invites'),
           \A t \in DOMAIN invites : t \in DOMAIN invites' /\ invites'[t].group = invites[t].group
    PROVE  /\ groups' \in [Wallets -> Registries] /\ op' \in [Wallets -> Operations]
           /\ \A v \in Wallets : OpFits(op'[v], groups'[v], invites')
           /\ groups'[w] = r /\ op'[w] = o
           /\ \A v \in Wallets \ {w} : groups'[v] = groups[v] /\ op'[v] = op[v]
<1>1. /\ groups' \in [Wallets -> Registries] /\ op' \in [Wallets -> Operations]
      /\ groups'[w] = r /\ op'[w] = o
      /\ \A v \in Wallets \ {w} : groups'[v] = groups[v] /\ op'[v] = op[v]
  BY DEF DaemonType
<1>2. ASSUME NEW v \in Wallets PROVE OpFits(op'[v], groups'[v], invites')
  <2>1. CASE v = w
    BY <1>1, <2>1
  <2>2. CASE v # w
    <3>1. groups'[v] = groups[v] /\ op'[v] = op[v] /\ OpFits(op[v], groups[v], invites)
      BY <1>1, <2>2 DEF DaemonType
    <3> DEFINE x == op[v]
    <3>2. x.pc = "redeem" => x.token \in DOMAIN invites' /\ invites'[x.token].group = invites[x.token].group
      BY <3>1 DEF OpFits
    <3> QED BY <3>1, <3>2 DEF OpFits
  <2> QED BY <2>1, <2>2
<1> QED BY <1>1, <1>2

(* The rest of the state, when it is left alone.                           *)
LEMMA SameTables ==
    ASSUME DaemonType
    PROVE  /\ (UNCHANGED disk => disk' \in [Wallets -> Registries])
           /\ (UNCHANGED inbox => inbox' \in [Wallets -> Seq(Mailable)] /\ \A w \in Wallets : Len(inbox'[w]) <= INBOX_CAP)
           /\ (UNCHANGED mail => mail' \in [Wallets -> Seq(Mailable)])
           /\ (UNCHANGED roster => roster' \in [Groups -> SUBSET Wallets])
           /\ (UNCHANGED order => order' \in [Groups -> Histories])
           /\ (UNCHANGED packages => packages' \in [Wallets -> Nat])
           /\ (UNCHANGED invites => /\ invites' \in Invitations
                                    /\ \A t \in DOMAIN invites : t \in DOMAIN invites' /\ invites'[t].group = invites[t].group)
           /\ (UNCHANGED commits => commits' \in 0..MaxCommits)
           /\ (UNCHANGED crashes => crashes' \in 0..MaxCrashes)
           /\ (UNCHANGED torn => torn' \in BOOLEAN)
           /\ (UNCHANGED sent => sent' \in Seq(Message))
           /\ (UNCHANGED shown => shown' \in [Wallets -> Seq(Nat)])
           /\ \A w \in Wallets : /\ groups[w] \in Registries /\ disk[w] \in Registries
                                 /\ op[w] \in Operations /\ OpFits(op[w], groups[w], invites)
                                 /\ groups = [groups EXCEPT ![w] = groups[w]]
                                 /\ op = [op EXCEPT ![w] = op[w]]
  BY DEF DaemonType

LEMMA CreateGroupTyped ==
    ASSUME DaemonType, NEW g \in Groups, CreateGroup(g)
    PROVE  DaemonType'
<1> USE DaemonAssumption
<1> DEFINE h == Handle(<<>>, {Owner}, {Owner})
           r == Put(groups[Owner], g, h)
<1>1. h \in GroupState
  <2>1. <<>> \in Histories
    BY DEF Histories
  <2> QED BY <2>1, HandleType
<1>2. r \in Registries
  BY <1>1, PutRegistry, SameTables
<1>3. Persist \in Operations /\ OpFits(Persist, r, invites')
  BY QuietFits
<1>4. groups' = [groups EXCEPT ![Owner] = r] /\ op' = [op EXCEPT ![Owner] = Persist]
  BY DEF CreateGroup, SetGroup, Set
<1> HIDE DEF r
<1>5. /\ groups' \in [Wallets -> Registries] /\ op' \in [Wallets -> Operations]
      /\ \A v \in Wallets : OpFits(op'[v], groups'[v], invites')
  BY <1>2, <1>3, <1>4, SameTables, ActorStep DEF CreateGroup
<1>6. roster' \in [Groups -> SUBSET Wallets]
  BY DEF CreateGroup, Set, DaemonType
<1> QED BY <1>5, <1>6, SameTables DEF CreateGroup, DaemonType

LEMMA PersistStateTyped ==
    ASSUME DaemonType, NEW w \in Wallets, PersistState(w)
    PROVE  DaemonType'
<1>1. groups' = [groups EXCEPT ![w] = groups[w]] /\ op' = [op EXCEPT ![w] = Idle]
  BY SameTables DEF PersistState, Set
<1>2. Idle \in Operations /\ OpFits(Idle, groups[w], invites')
  BY QuietFits
<1>3. /\ groups' \in [Wallets -> Registries] /\ op' \in [Wallets -> Operations]
      /\ \A v \in Wallets : OpFits(op'[v], groups'[v], invites')
  BY <1>1, <1>2, SameTables, ActorStep DEF PersistState, relayVars
<1>4. disk' \in [Wallets -> Registries]
  BY SameTables DEF PersistState, Set, DaemonType
<1> QED BY <1>3, <1>4, SameTables DEF PersistState, relayVars, DaemonType

LEMMA AddMemberTyped ==
    ASSUME DaemonType, NEW g \in Groups, NEW w \in Wallets, AddMember(g, w)
    PROVE  DaemonType'
<1> USE DaemonAssumption
<1> DEFINE o == [pc |-> "commit", group |-> g, who |-> w]
<1>1. groups' = [groups EXCEPT ![Owner] = groups[Owner]] /\ op' = [op EXCEPT ![Owner] = o]
  BY SameTables DEF AddMember, Set
<1>2. o \in Operations /\ OpFits(o, groups[Owner], invites')
  BY DEF Operations, OpFits, AddMember
<1> HIDE DEF o
<1>3. /\ groups' \in [Wallets -> Registries] /\ op' \in [Wallets -> Operations]
      /\ \A v \in Wallets : OpFits(op'[v], groups'[v], invites')
  BY <1>1, <1>2, SameTables, ActorStep DEF AddMember
<1>4. packages' \in [Wallets -> Nat]
  BY DEF AddMember, DaemonType
<1> QED BY <1>3, <1>4, SameTables DEF AddMember, DaemonType

(* A Commit is merged by its author; the relay takes it or not.            *)
LEMMA CommitTyped ==
    ASSUME DaemonType, commits < MaxCommits, NEW g \in Groups, NEW hist \in Histories, NEW tree \in SUBSET Wallets,
           NEW w \in Wallets, NEW R, NEW members \in SUBSET Wallets
    PROVE  LET id == commits + 1
               e == Envelope("Commit", g, w, hist, tree, id, 0)
           IN  /\ id \in 1..MaxCommits /\ id \in 0..MaxCommits
               /\ Set(order, g, Append(order[g], id)) \in [Groups -> Histories]
               /\ e \in Mailable
               /\ Deliver(R, e) \in [Wallets -> Seq(Mailable)]
               /\ Handle(Append(hist, id), tree, members) \in GroupState
<1> DEFINE id == commits + 1
           e == Envelope("Commit", g, w, hist, tree, id, 0)
<1>1. id \in 1..MaxCommits /\ id \in 0..MaxCommits /\ id \in Nat
  BY DaemonAssumption DEF DaemonType
<1> HIDE DEF id
<1>2. order[g] \in Histories
  BY DEF DaemonType
<1>3. Append(order[g], id) \in Histories /\ Append(hist, id) \in Histories
  BY <1>1, <1>2, HistoryGrows
<1>4. Set(order, g, Append(order[g], id)) \in [Groups -> Histories]
  <2> DEFINE a == Append(order[g], id)
  <2> HIDE DEF a
  <2>1. Set(order, g, a) \in [Groups -> Histories]
    BY <1>3 DEF Set, DaemonType, a
  <2> QED BY <2>1 DEF a
<1>5. e \in Mailable
  BY <1>1, EnvelopeMailable
<1> HIDE DEF e
<1>6. Deliver(R, e) \in [Wallets -> Seq(Mailable)]
  BY <1>5, Delivered DEF DaemonType
<1>7. Handle(Append(hist, id), tree, members) \in GroupState
  BY <1>3, HandleType
<1> QED BY <1>1, <1>4, <1>5, <1>6, <1>7 DEF e, id

LEMMA HandleParts ==
    ASSUME NEW h \in GroupState
    PROVE  /\ h.hist \in Histories /\ h.tree \in SUBSET Wallets /\ h.gen \in Nat
           /\ h.used \in SUBSET (Wallets \X Nat) /\ h.members \in SUBSET Wallets
           /\ Len(h.hist) \in Nat
  BY DEF GroupState, Histories

LEMMA SubmitAddTyped ==
    ASSUME DaemonType, SubmitAdd
    PROVE  DaemonType'
<1> USE DaemonAssumption
<1> DEFINE g == op[Owner].group
           w == op[Owner].who
           h == groups[Owner][g]
           id == commits + 1
           new == Handle(Append(h.hist, id), h.tree \cup {w}, h.members \cup {w})
           R == Recipients(h, Owner)
           e == Envelope("Commit", g, Owner, h.hist, h.tree \cup {w}, id, 0)
           ok == Admissible(g, Owner, R) /\ NextEpoch(g, h.hist)
           r == Put(groups[Owner], g, new)
           o == IF ok THEN [pc |-> "onboard", group |-> g, who |-> w] ELSE Idle
<1>1. g \in Groups /\ w \in Wallets /\ g \in DOMAIN groups[Owner] /\ groups[Owner] \in Registries
  <2>1. op[Owner] \in Operations /\ OpFits(op[Owner], groups[Owner], invites) /\ op[Owner].pc = "commit"
    BY SameTables DEF SubmitAdd
  <2>2. op[Owner].group \in Groups /\ op[Owner].who \in Wallets
    BY <2>1, OperationParts
  <2> QED BY <2>1, <2>2, SameTables DEF OpFits
<1>2. h \in GroupState
  BY <1>1, RegistryRows
<1>3. new.tree = h.tree \cup {w}
  BY DEF Handle
<1>4. /\ commits < MaxCommits /\ commits' = id /\ groups' = [groups EXCEPT ![Owner] = r]
      /\ order' = IF ok THEN Set(order, g, Append(order[g], id)) ELSE order
      /\ mail' = IF ok THEN Deliver(R, e) ELSE mail
      /\ op' = [op EXCEPT ![Owner] = o]
  BY <1>3 DEF SubmitAdd, SetGroup, Set
<1>5. /\ Set(order, g, Append(order[g], id)) \in [Groups -> Histories]
      /\ Deliver(R, e) \in [Wallets -> Seq(Mailable)]
      /\ new \in GroupState /\ id \in 0..MaxCommits
  <2>1. h.hist \in Histories /\ h.tree \cup {w} \in SUBSET Wallets /\ h.members \cup {w} \in SUBSET Wallets
    BY <1>1, <1>2, HandleParts
  <2> DEFINE tree == h.tree \cup {w}
             members == h.members \cup {w}
             hist == h.hist
  <2>2. hist \in Histories /\ tree \in SUBSET Wallets /\ members \in SUBSET Wallets
    BY <2>1
  <2> HIDE DEF hist, tree, members, R, w, g
  <2> QED BY <1>1, <1>4, <2>2, CommitTyped DEF tree, members, hist
<1> HIDE DEF new, e, R
<1>6. r \in Registries /\ DOMAIN r = DOMAIN groups[Owner] \union {g}
  <2> HIDE DEF g
  <2> QED BY <1>1, <1>5, PutRegistry
<1>7. o \in Operations /\ OpFits(o, r, invites')
  <2>1. CASE ok
    <3>1. o = [pc |-> "onboard", group |-> g, who |-> w]
      BY <2>1
    <3> HIDE DEF o, g, w, r
    <3> QED BY <1>1, <1>6, <3>1 DEF Operations, OpFits
  <2>2. CASE ~ok
    BY <2>2, QuietFits
  <2> QED BY <2>1, <2>2
<1> HIDE DEF r, o, ok
<1>8. /\ groups' \in [Wallets -> Registries] /\ op' \in [Wallets -> Operations]
      /\ \A v \in Wallets : OpFits(op'[v], groups'[v], invites')
  BY <1>4, <1>6, <1>7, SameTables, ActorStep DEF SubmitAdd
<1>9. order' \in [Groups -> Histories] /\ mail' \in [Wallets -> Seq(Mailable)] /\ commits' \in 0..MaxCommits
  BY <1>4, <1>5 DEF DaemonType
<1> QED BY <1>8, <1>9, SameTables DEF SubmitAdd, DaemonType

LEMMA OnboardTyped ==
    ASSUME DaemonType, Onboard
    PROVE  DaemonType'
<1> USE DaemonAssumption
<1> DEFINE g == op[Owner].group
           w == op[Owner].who
           h == groups[Owner][g]
           e == Envelope("Welcome", g, Owner, h.hist, h.tree, 0, 0)
<1>1. g \in Groups /\ w \in Wallets /\ g \in DOMAIN groups[Owner] /\ groups[Owner] \in Registries
  <2>1. op[Owner] \in Operations /\ OpFits(op[Owner], groups[Owner], invites) /\ op[Owner].pc = "onboard"
    BY SameTables DEF Onboard
  <2>2. op[Owner].group \in Groups /\ op[Owner].who \in Wallets
    BY <2>1, OperationParts
  <2> QED BY <2>1, <2>2, SameTables DEF OpFits
<1>2. h \in GroupState
  BY <1>1, RegistryRows
<1>3. e \in Mailable
  BY <1>1, <1>2, HandleParts, EnvelopeMailable
<1>4. /\ groups' = [groups EXCEPT ![Owner] = groups[Owner]] /\ op' = [op EXCEPT ![Owner] = Persist]
      /\ roster' = Set(roster, g, roster[g] \cup {w}) /\ mail' = Deliver({w}, e)
  BY SameTables DEF Onboard, Set
<1>5. Persist \in Operations /\ OpFits(Persist, groups[Owner], invites')
  BY QuietFits
<1>6. /\ groups' \in [Wallets -> Registries] /\ op' \in [Wallets -> Operations]
      /\ \A v \in Wallets : OpFits(op'[v], groups'[v], invites')
  BY <1>4, <1>5, SameTables, ActorStep DEF Onboard
<1> HIDE DEF e
<1>7. mail' \in [Wallets -> Seq(Mailable)]
  BY <1>3, <1>4, Delivered DEF DaemonType
<1>8. roster' \in [Groups -> SUBSET Wallets]
  <2> HIDE DEF g, w
  <2> QED BY <1>1, <1>4 DEF Set, DaemonType
<1> QED BY <1>6, <1>7, <1>8, SameTables DEF Onboard, DaemonType

LEMMA OffboardTyped ==
    ASSUME DaemonType, NEW g \in Groups, NEW w \in Wallets, Offboard(g, w)
    PROVE  DaemonType'
<1> USE DaemonAssumption
<1> DEFINE h == groups[Owner][g]
           id == commits + 1
           tree == h.tree \ {w}
           members == h.members \ {w}
           hist == h.hist
           new == Handle(Append(hist, id), tree, members)
           R == Recipients(new, Owner)
           e == Envelope("Commit", g, Owner, hist, tree, id, 0)
           ok == w \in roster[g] /\ Admissible(g, Owner, R) /\ NextEpoch(g, hist)
           r == Put(groups[Owner], g, new)
           o == IF ok THEN Persist ELSE Idle
<1>1. groups[Owner] \in Registries /\ h \in GroupState
  BY RegistryRows, SameTables DEF Offboard
<1>2. hist \in Histories /\ tree \in SUBSET Wallets /\ members \in SUBSET Wallets
  BY <1>1, HandleParts
<1>3. new.tree = tree
  BY DEF Handle
<1>4. /\ commits < MaxCommits /\ commits' = id /\ groups' = [groups EXCEPT ![Owner] = r]
      /\ order' = IF ok THEN Set(order, g, Append(order[g], id)) ELSE order
      /\ mail' = IF ok THEN Deliver(R, e) ELSE mail
      /\ roster' = IF ok THEN Set(roster, g, roster[g] \ {w}) ELSE roster
      /\ op' = [op EXCEPT ![Owner] = o]
  BY <1>3 DEF Offboard, SetGroup, Set
<1> HIDE DEF R, tree, members, hist
<1>5. /\ Set(order, g, Append(order[g], id)) \in [Groups -> Histories]
      /\ Deliver(R, e) \in [Wallets -> Seq(Mailable)]
      /\ new \in GroupState /\ id \in 0..MaxCommits
  BY <1>2, <1>4, CommitTyped
<1> HIDE DEF new, e
<1>6. r \in Registries
  BY <1>1, <1>5, PutRegistry
<1>7. o \in Operations /\ OpFits(o, r, invites')
  <2>1. o \in {Idle, Persist}
    OBVIOUS
  <2> HIDE DEF o
  <2> QED BY <2>1, QuietFits
<1> HIDE DEF r, o, ok
<1>8. /\ groups' \in [Wallets -> Registries] /\ op' \in [Wallets -> Operations]
      /\ \A v \in Wallets : OpFits(op'[v], groups'[v], invites')
  BY <1>4, <1>6, <1>7, SameTables, ActorStep DEF Offboard
<1>9. order' \in [Groups -> Histories] /\ mail' \in [Wallets -> Seq(Mailable)] /\ commits' \in 0..MaxCommits
  BY <1>4, <1>5 DEF DaemonType
<1>10. roster' \in [Groups -> SUBSET Wallets]
  BY <1>4 DEF Set, DaemonType
<1> QED BY <1>8, <1>9, <1>10, SameTables DEF Offboard, DaemonType

LEMMA SendTyped ==
    ASSUME DaemonType, NEW w \in Wallets, NEW g \in Groups, Send(w, g)
    PROVE  DaemonType'
<1> DEFINE h == groups[w][g]
           new == [h EXCEPT !.gen = @ + 1]
           R == Recipients(h, w)
           ok == Admissible(g, w, R)
           m == [group |-> g, sender |-> w, hist |-> h.hist, gen |-> h.gen, accepted |-> ok,
                 roster |-> roster[g]]
           e == Envelope("Application", g, w, h.hist, {}, Len(sent'), h.gen)
           r == Put(groups[w], g, new)
           o == IF ok THEN Persist ELSE Idle
<1>1. groups[w] \in Registries /\ h \in GroupState
  BY RegistryRows, SameTables DEF Send
<1>2. /\ groups' = [groups EXCEPT ![w] = r] /\ sent' = Append(sent, m)
      /\ mail' = IF ok THEN Deliver(R, e) ELSE mail
      /\ op' = [op EXCEPT ![w] = o]
  BY DEF Send, SetGroup, Set, AfterSend
<1>3. m \in Message
  <2>1. roster[g] \in SUBSET Wallets /\ ok \in BOOLEAN
    BY DEF DaemonType, Admissible
  <2> QED BY <1>1, <2>1, HandleParts DEF Message
<1> HIDE DEF m
<1>4. sent' \in Seq(Message) /\ Len(sent') \in Nat
  BY <1>2, <1>3 DEF DaemonType
<1>5. e \in Mailable
  BY <1>1, <1>4, HandleParts, EnvelopeMailable
<1> HIDE DEF e
<1>6. mail' \in [Wallets -> Seq(Mailable)]
  BY <1>2, <1>5, Delivered DEF DaemonType
<1>7. new \in GroupState
  <2> HIDE DEF h
  <2> QED BY <1>1 DEF GroupState
<1> HIDE DEF new
<1>8. r \in Registries
  BY <1>1, <1>7, PutRegistry
<1>9. o \in Operations /\ OpFits(o, r, invites')
  <2>1. o \in {Idle, Persist}
    OBVIOUS
  <2> HIDE DEF o
  <2> QED BY <2>1, QuietFits
<1> HIDE DEF r, o, ok
<1>10. /\ groups' \in [Wallets -> Registries] /\ op' \in [Wallets -> Operations]
       /\ \A v \in Wallets : OpFits(op'[v], groups'[v], invites')
  BY <1>2, <1>8, <1>9, SameTables, ActorStep DEF Send
<1> QED BY <1>4, <1>6, <1>10, SameTables DEF Send, DaemonType

(* All items but one.                                                      *)
LEMMA WithinRemoved ==
    ASSUME NEW T, NEW s \in Seq(T), NEW i \in DOMAIN s
    PROVE  RemoveAt(s, i) \in Seq(T) /\ Within(RemoveAt(s, i), s)
<1> DEFINE t == SubSeq(s, 1, i - 1)
           u == SubSeq(s, i + 1, Len(s))
           r == t \o u
<1>1. Len(s) \in Nat /\ DOMAIN s = 1..Len(s) /\ i \in 1..Len(s) /\ \A j \in 1..Len(s) : s[j] \in T
  OBVIOUS
<1>2. /\ t \in Seq(T) /\ Len(t) = i - 1 /\ \A j \in 1..i - 1 : t[j] = s[j]
  <2>1. \A j \in 1..i - 1 : s[j] \in T
    BY <1>1
  <2>2. t \in Seq(T) /\ Len(t) = (IF 1 <= i - 1 THEN i - 1 - 1 + 1 ELSE 0)
        /\ \A j \in 1..i - 1 - 1 + 1 : t[j] = s[1 + j - 1]
    BY <1>1, <2>1, SubSeqProperties
  <2> HIDE DEF t
  <2>3. Len(t) = i - 1
    BY <1>1, <2>2
  <2>4. ASSUME NEW j \in 1..i - 1 PROVE t[j] = s[j]
    <3>1. j \in 1..i - 1 - 1 + 1 /\ 1 + j - 1 = j
      BY <1>1
    <3> QED BY <2>2, <3>1
  <2> QED BY <2>2, <2>3, <2>4
<1>3. /\ u \in Seq(T) /\ Len(u) = Len(s) - i /\ \A j \in 1..Len(s) - i : u[j] = s[i + j]
  <2>1. \A j \in i + 1..Len(s) : s[j] \in T
    BY <1>1
  <2>2. u \in Seq(T) /\ Len(u) = (IF i + 1 <= Len(s) THEN Len(s) - (i + 1) + 1 ELSE 0)
        /\ \A j \in 1..Len(s) - (i + 1) + 1 : u[j] = s[i + 1 + j - 1]
    BY <1>1, <2>1, SubSeqProperties
  <2> HIDE DEF u
  <2>3. Len(u) = Len(s) - i
    BY <1>1, <2>2
  <2>4. ASSUME NEW j \in 1..Len(s) - i PROVE u[j] = s[i + j]
    <3>1. j \in 1..Len(s) - (i + 1) + 1 /\ i + 1 + j - 1 = i + j
      BY <1>1
    <3> QED BY <2>2, <3>1
  <2> QED BY <2>2, <2>3, <2>4
<1> HIDE DEF t, u
<1>4. /\ r \in Seq(T) /\ DOMAIN r = 1..Len(t) + Len(u)
      /\ \A j \in 1..Len(t) : r[j] = t[j]
      /\ \A j \in Len(t) + 1..Len(t) + Len(u) : r[j] = u[j - Len(t)]
  <2>1. t \in Seq(T) /\ u \in Seq(T)
    BY <1>2, <1>3
  <2> QED BY <2>1, Joined
<1> HIDE DEF r
<1> DEFINE at == [j \in DOMAIN r |-> IF j < i THEN j ELSE j + 1]
<1>5. DOMAIN r = 1..Len(s) - 1
  BY <1>1, <1>2, <1>3, <1>4
<1>6. ASSUME NEW j \in DOMAIN r PROVE at[j] \in DOMAIN s /\ r[j] = s[at[j]]
  <2>1. CASE j < i
    <3>1. j \in 1..i - 1 /\ j \in 1..Len(t)
      BY <1>1, <1>2, <1>5, <2>1
    <3> QED BY <1>1, <1>2, <1>4, <2>1, <3>1
  <2>2. CASE ~(j < i)
    <3>1. j \in Len(t) + 1..Len(t) + Len(u) /\ j - Len(t) \in 1..Len(s) - i /\ i + (j - Len(t)) = j + 1
      BY <1>1, <1>2, <1>3, <1>5, <2>2
    <3>2. r[j] = s[j + 1]
      BY <1>3, <1>4, <3>1
    <3>3. at[j] = j + 1 /\ j + 1 \in DOMAIN s
      BY <1>1, <1>5, <2>2
    <3> QED BY <3>2, <3>3
  <2> QED BY <2>1, <2>2
<1>7. at \in [DOMAIN r -> DOMAIN s] /\ \A j \in DOMAIN r : r[j] = s[at[j]]
  BY <1>6
<1>8. \A j, k \in DOMAIN r : j < k => at[j] < at[k]
  BY <1>1, <1>5
<1>9. Within(r, s)
  BY <1>7, <1>8 DEF Within
<1> QED BY <1>4, <1>9 DEF r, RemoveAt, t, u

LEMMA PollTyped ==
    ASSUME DaemonType, NEW w \in Wallets, NEW g \in Groups, NEW k \in 0..Len(mail[w]), Poll(w, g, k)
    PROVE  DaemonType'
<1> DEFINE all == TakeInbox(w, k)
           h == groups[w][g]
           res == PollLoop(g, h, all)[Len(all)]
           r == Put(groups[w], g, res.h)
           o == IF res.changed THEN Persist ELSE Idle
           m == SubSeq(mail[w], k + 1, Len(mail[w]))
           ids == shown[w] \o res.out
           box == Stash(groups[w], res.keep)
<1>1. groups[w] \in Registries /\ h \in GroupState
  BY RegistryRows, SameTables DEF Poll
<1>2. all \in Seq(Mailable) /\ m \in Seq(Mailable)
  BY Fetched
<1>3. res \in Accumulator
  <2> HIDE DEF all, h
  <2> QED BY <1>1, <1>2, PollResult DEF LoopFact
<1>4. /\ groups' = [groups EXCEPT ![w] = r] /\ inbox' = [inbox EXCEPT ![w] = box]
      /\ shown' = IF res.failed THEN shown ELSE [shown EXCEPT ![w] = ids]
      /\ op' = [op EXCEPT ![w] = o] /\ mail' = [mail EXCEPT ![w] = m]
  BY DEF Poll, SetGroup, Set
<1> HIDE DEF all, res, m
<1>5. res.h \in GroupState /\ res.out \in Seq(Nat) /\ res.keep \in Seq(Mailable)
  BY <1>3 DEF Accumulator
<1>6. r \in Registries
  BY <1>1, <1>5, PutRegistry
<1>7. o \in Operations /\ OpFits(o, r, invites')
  <2>1. o \in {Idle, Persist}
    OBVIOUS
  <2> HIDE DEF o
  <2> QED BY <2>1, QuietFits
<1>8. ids \in Seq(Nat)
  BY <1>5 DEF DaemonType
<1>9. box \in Seq(Mailable) /\ Len(box) <= INBOX_CAP
  BY <1>5, WithinStash
<1> HIDE DEF r, o, ids, box
<1>10. /\ groups' \in [Wallets -> Registries] /\ op' \in [Wallets -> Operations]
       /\ \A v \in Wallets : OpFits(op'[v], groups'[v], invites')
  BY <1>4, <1>6, <1>7, SameTables, ActorStep DEF Poll
<1>11. mail' \in [Wallets -> Seq(Mailable)] /\ shown' \in [Wallets -> Seq(Nat)]
  BY <1>2, <1>4, <1>8 DEF DaemonType
<1>12. inbox' \in [Wallets -> Seq(Mailable)] /\ \A v \in Wallets : Len(inbox'[v]) <= INBOX_CAP
  BY <1>4, <1>9 DEF DaemonType
<1> QED BY <1>10, <1>11, <1>12, SameTables DEF Poll, DaemonType

LEMMA JoinGroupTyped ==
    ASSUME DaemonType, NEW w \in Wallets, NEW g \in Groups, NEW k \in 0..Len(mail[w]), JoinGroup(w, g, k)
    PROVE  DaemonType'
<1> DEFINE all == TakeInbox(w, k)
           m == SubSeq(mail[w], k + 1, Len(mail[w]))
           pos == {i \in DOMAIN all : IsWelcomeFor(g, all[i])}
<1>1. all \in Seq(Mailable) /\ m \in Seq(Mailable)
  BY Fetched
<1>2. \/ /\ inbox' = [inbox EXCEPT ![w] = Stash(groups[w], all)] /\ op' = [op EXCEPT ![w] = op[w]]
      \/ \E i \in pos : /\ inbox' = [inbox EXCEPT ![w] = Stash(groups[w], RemoveAt(all, i))]
                        /\ op' = [op EXCEPT ![w] = [pc |-> "welcome", env |-> all[i]]]
  <2>1. CASE pos = {}
    BY <2>1, SameTables DEF JoinGroup, Set
  <2>2. CASE pos # {}
    <3> DEFINE i == CHOOSE i \in pos : \A j \in pos : i <= j
    <3>1. i \in pos
      <4>1. pos \in SUBSET Nat
        BY <1>1
      <4> HIDE DEF pos
      <4> QED BY <2>2, <4>1, LeastElement
    <3>2. /\ inbox' = [inbox EXCEPT ![w] = Stash(groups[w], RemoveAt(all, i))]
          /\ op' = [op EXCEPT ![w] = [pc |-> "welcome", env |-> all[i]]]
      BY <2>2 DEF JoinGroup, Set
    <3> QED BY <3>1, <3>2
  <2> QED BY <2>1, <2>2
<1>3. groups' = [groups EXCEPT ![w] = groups[w]] /\ mail' = [mail EXCEPT ![w] = m]
  BY SameTables DEF JoinGroup, Set
<1> HIDE DEF all, m
<1>4. \E box, o : /\ box \in Seq(Mailable) /\ Len(box) <= INBOX_CAP /\ o \in Operations
                  /\ OpFits(o, groups[w], invites')
                  /\ inbox' = [inbox EXCEPT ![w] = box] /\ op' = [op EXCEPT ![w] = o]
  <2>1. CASE inbox' = [inbox EXCEPT ![w] = Stash(groups[w], all)] /\ op' = [op EXCEPT ![w] = op[w]]
    <3>1. op[w] \in Operations /\ OpFits(op[w], groups[w], invites')
      BY SameTables DEF JoinGroup
    <3>2. Stash(groups[w], all) \in Seq(Mailable) /\ Len(Stash(groups[w], all)) <= INBOX_CAP
      BY <1>1, WithinStash
    <3> QED BY <2>1, <3>1, <3>2
  <2>2. ASSUME NEW i \in pos, inbox' = [inbox EXCEPT ![w] = Stash(groups[w], RemoveAt(all, i))],
               op' = [op EXCEPT ![w] = [pc |-> "welcome", env |-> all[i]]]
        PROVE  \E box, o : /\ box \in Seq(Mailable) /\ Len(box) <= INBOX_CAP /\ o \in Operations
                           /\ OpFits(o, groups[w], invites')
                           /\ inbox' = [inbox EXCEPT ![w] = box] /\ op' = [op EXCEPT ![w] = o]
    <3> DEFINE e == all[i]
               rest == RemoveAt(all, i)
               o == [pc |-> "welcome", env |-> e]
    <3>1. e \in Mailable /\ e.group = g /\ i \in DOMAIN all
      BY <1>1 DEF IsWelcomeFor
    <3>2. rest \in Seq(Mailable)
      BY <1>1, <3>1, WithinRemoved
    <3> HIDE DEF e, rest
    <3>3. Stash(groups[w], rest) \in Seq(Mailable) /\ Len(Stash(groups[w], rest)) <= INBOX_CAP
      BY <3>2, WithinStash
    <3>4. o \in Operations /\ OpFits(o, groups[w], invites')
      BY <3>1 DEF Operations, OpFits, JoinGroup
    <3>5. inbox' = [inbox EXCEPT ![w] = Stash(groups[w], rest)] /\ op' = [op EXCEPT ![w] = o]
      BY <2>2 DEF e, rest
    <3> HIDE DEF o
    <3> QED BY <3>3, <3>4, <3>5
  <2> QED BY <1>2, <2>1, <2>2
<1>5. PICK box, o : /\ box \in Seq(Mailable) /\ Len(box) <= INBOX_CAP /\ o \in Operations
                    /\ OpFits(o, groups[w], invites')
                    /\ inbox' = [inbox EXCEPT ![w] = box] /\ op' = [op EXCEPT ![w] = o]
  BY <1>4
<1>6. /\ groups' \in [Wallets -> Registries] /\ op' \in [Wallets -> Operations]
      /\ \A v \in Wallets : OpFits(op'[v], groups'[v], invites')
  BY <1>3, <1>5, SameTables, ActorStep DEF JoinGroup
<1>7. inbox' \in [Wallets -> Seq(Mailable)] /\ \A v \in Wallets : Len(inbox'[v]) <= INBOX_CAP
  BY <1>5 DEF DaemonType
<1>8. mail' \in [Wallets -> Seq(Mailable)]
  BY <1>1, <1>3 DEF DaemonType
<1> QED BY <1>6, <1>7, <1>8, SameTables DEF JoinGroup, DaemonType

(* A Welcome adds a row to the registry of w, and to its state file.       *)
LEMMA Welcomed ==
    ASSUME DaemonType, NEW w \in Wallets, NEW e \in Mailable, JoinWithWelcome(w, e)
    PROVE  \E r \in Registries : /\ groups' = [groups EXCEPT ![w] = r] /\ disk' = [disk EXCEPT ![w] = r]
                                 /\ r = Put(groups[w], e.group, Handle(e.hist, e.tree, roster[e.group]))
                                 /\ DOMAIN r = DOMAIN groups[w] \union {e.group}
                                 /\ \A f \in DOMAIN groups[w] \ {e.group} : r[f] = groups[w][f]
<1> DEFINE h == Handle(e.hist, e.tree, roster[e.group])
           r == Put(groups[w], e.group, h)
<1>1. e.group \in Groups /\ e.hist \in Histories /\ e.tree \in SUBSET Wallets
  BY DEF Mailable, EnvelopeType
<1>2. h \in GroupState
  BY <1>1, HandleType DEF DaemonType
<1> HIDE DEF h
<1>3. r \in Registries /\ DOMAIN r = DOMAIN groups[w] \union {e.group}
      /\ \A f \in DOMAIN groups[w] \ {e.group} : r[f] = groups[w][f]
  <2> DEFINE g == e.group
  <2>1. g \in Groups /\ groups[w] \in Registries
    BY <1>1, SameTables
  <2> HIDE DEF g
  <2>2. r = Put(groups[w], g, h)
    BY DEF g
  <2> HIDE DEF r
  <2>3. r \in Registries /\ DOMAIN r = DOMAIN groups[w] \union {g}
        /\ \A f \in DOMAIN groups[w] \ {g} : r[f] = groups[w][f]
    BY <1>2, <2>1, <2>2, PutRegistry
  <2> QED BY <2>3 DEF g
<1>4. groups' = [groups EXCEPT ![w] = r] /\ disk' = [disk EXCEPT ![w] = r]
  BY DEF JoinWithWelcome, Set, h
<1> QED BY <1>3, <1>4 DEF h

LEMMA JoinGroupFinishTyped ==
    ASSUME DaemonType, NEW w \in Wallets, JoinGroupFinish(w)
    PROVE  DaemonType'
<1>1. op[w].env \in Mailable
  BY OperationParts, SameTables DEF JoinGroupFinish
<1>2. PICK r \in Registries : groups' = [groups EXCEPT ![w] = r] /\ disk' = [disk EXCEPT ![w] = r]
  BY <1>1, Welcomed DEF JoinGroupFinish
<1>3. Idle \in Operations /\ OpFits(Idle, r, invites') /\ op' = [op EXCEPT ![w] = Idle]
  BY QuietFits DEF JoinGroupFinish, Set
<1>4. /\ groups' \in [Wallets -> Registries] /\ op' \in [Wallets -> Operations]
      /\ \A v \in Wallets : OpFits(op'[v], groups'[v], invites')
  BY <1>2, <1>3, SameTables, ActorStep DEF JoinGroupFinish, relayVars
<1>5. disk' \in [Wallets -> Registries]
  BY <1>2 DEF DaemonType
<1> QED BY <1>4, <1>5, SameTables DEF JoinGroupFinish, relayVars, DaemonType

LEMMA JoinPendingTyped ==
    ASSUME DaemonType, NEW w \in Wallets, NEW k \in 0..Len(mail[w]), JoinPending(w, k)
    PROVE  DaemonType'
<1> DEFINE all == TakeInbox(w, k)
           m == SubSeq(mail[w], k + 1, Len(mail[w]))
           o == [pc |-> "pending", todo |-> all, rest |-> <<>>]
<1>1. all \in Seq(Mailable) /\ m \in Seq(Mailable)
  BY Fetched
<1>2. /\ groups' = [groups EXCEPT ![w] = groups[w]] /\ op' = [op EXCEPT ![w] = o]
      /\ inbox' = [inbox EXCEPT ![w] = <<>>] /\ mail' = [mail EXCEPT ![w] = m]
  BY SameTables DEF JoinPending, Set
<1> HIDE DEF all, m
<1>3. o \in Operations /\ OpFits(o, groups[w], invites')
  <2>1. <<>> \in Seq(Mailable)
    OBVIOUS
  <2> QED BY <1>1, <2>1, PendingFits
<1> HIDE DEF o
<1>4. /\ groups' \in [Wallets -> Registries] /\ op' \in [Wallets -> Operations]
      /\ \A v \in Wallets : OpFits(op'[v], groups'[v], invites')
  BY <1>2, <1>3, SameTables, ActorStep DEF JoinPending
<1>5. inbox' \in [Wallets -> Seq(Mailable)] /\ \A v \in Wallets : Len(inbox'[v]) <= INBOX_CAP
  <2>1. <<>> \in Seq(Mailable) /\ Len(<<>>) = 0 /\ 0 <= INBOX_CAP
    BY DaemonAssumption
  <2> QED BY <1>2, <2>1 DEF DaemonType
<1>6. mail' \in [Wallets -> Seq(Mailable)]
  BY <1>1, <1>2 DEF DaemonType
<1> QED BY <1>4, <1>5, <1>6, SameTables DEF JoinPending, DaemonType

(* One envelope of the loop leaves the operation, or moves to its rest.    *)
LEMMA PendingStep ==
    ASSUME DaemonType, NEW w \in Wallets, JoinPendingNext(w)
    PROVE  LET e == Head(op[w].todo)
               t == Tail(op[w].todo)
               s == op[w].rest
           IN  /\ op[w].todo \in Seq(Mailable) /\ op[w].todo # <<>> /\ s \in Seq(Mailable)
               /\ e \in Mailable /\ t \in Seq(Mailable)
               /\ \/ /\ e.group \notin DOMAIN groups[w] /\ JoinWithWelcome(w, e)
                     /\ op' = [op EXCEPT ![w] = [pc |-> "pending", todo |-> t, rest |-> s]]
                  \/ /\ UNCHANGED <<groups, disk>>
                     /\ op' = [op EXCEPT ![w] = [pc |-> "pending", todo |-> t, rest |-> Append(s, e)]]
<1> DEFINE x == op[w]
           e == Head(x.todo)
           t == Tail(x.todo)
           s == x.rest
<1>1. /\ x.todo \in Seq(Mailable) /\ s \in Seq(Mailable) /\ x.todo # <<>>
      /\ x = [pc |-> "pending", todo |-> x.todo, rest |-> s]
  <2>1. x \in Operations /\ x.pc = "pending" /\ x.todo # <<>>
    BY SameTables DEF JoinPendingNext
  <2> HIDE DEF x
  <2> QED BY <2>1, OperationParts
<1>2. e \in Mailable /\ t \in Seq(Mailable)
  <2> DEFINE y == x.todo
  <2>1. y \in Seq(Mailable) /\ y # <<>>
    BY <1>1
  <2> HIDE DEF y
  <2>2. Head(y) \in Mailable /\ Tail(y) \in Seq(Mailable)
    BY <2>1, HeadTailProperties
  <2> QED BY <2>2 DEF y
<1>3. /\ [x EXCEPT !.todo = t] = [pc |-> "pending", todo |-> t, rest |-> s]
      /\ [x EXCEPT !.todo = t, !.rest = Append(s, e)] = [pc |-> "pending", todo |-> t, rest |-> Append(s, e)]
  <2> DEFINE y == x.todo
             z == Append(s, e)
             u == [x EXCEPT !.todo = t]
  <2>1. x = [pc |-> "pending", todo |-> y, rest |-> s]
    BY <1>1
  <2>2. [x EXCEPT !.todo = t, !.rest = z] = [u EXCEPT !.rest = z]
    OBVIOUS
  <2> HIDE DEF x, s, y, e, t, z
  <2>3. u = [pc |-> "pending", todo |-> t, rest |-> s]
    BY <2>1
  <2> HIDE DEF u
  <2>4. [u EXCEPT !.rest = z] = [pc |-> "pending", todo |-> t, rest |-> z]
    BY <2>3
  <2> QED BY <2>2, <2>3, <2>4 DEF u, z
<1>4. \/ /\ e.group \notin DOMAIN groups[w] /\ JoinWithWelcome(w, e)
         /\ op' = [op EXCEPT ![w] = [pc |-> "pending", todo |-> t, rest |-> s]]
      \/ /\ UNCHANGED <<groups, disk>>
         /\ op' = [op EXCEPT ![w] = [pc |-> "pending", todo |-> t, rest |-> Append(s, e)]]
  <2>1. \/ /\ e.group \notin DOMAIN groups[w] /\ JoinWithWelcome(w, e)
           /\ op' = [op EXCEPT ![w] = [x EXCEPT !.todo = t]]
        \/ /\ UNCHANGED <<groups, disk>>
           /\ op' = [op EXCEPT ![w] = [x EXCEPT !.todo = t, !.rest = Append(s, e)]]
    BY DEF JoinPendingNext, Set
  <2> HIDE DEF x, e, t, s
  <2> QED BY <1>3, <2>1
<1> QED BY <1>1, <1>2, <1>4

LEMMA JoinPendingNextTyped ==
    ASSUME DaemonType, NEW w \in Wallets, JoinPendingNext(w)
    PROVE  DaemonType'
<1> DEFINE e == Head(op[w].todo)
           t == Tail(op[w].todo)
           s == op[w].rest
<1>1. /\ e \in Mailable /\ t \in Seq(Mailable) /\ s \in Seq(Mailable)
      /\ \/ /\ JoinWithWelcome(w, e)
            /\ op' = [op EXCEPT ![w] = [pc |-> "pending", todo |-> t, rest |-> s]]
         \/ /\ UNCHANGED <<groups, disk>>
            /\ op' = [op EXCEPT ![w] = [pc |-> "pending", todo |-> t, rest |-> Append(s, e)]]
  BY PendingStep
<1> HIDE DEF e, t, s
<1>2. Append(s, e) \in Seq(Mailable)
  BY <1>1, AppendProperties
<1>3. \E u \in Seq(Mailable) : op' = [op EXCEPT ![w] = [pc |-> "pending", todo |-> t, rest |-> u]]
  BY <1>1, <1>2
<1>4. PICK u \in Seq(Mailable) : op' = [op EXCEPT ![w] = [pc |-> "pending", todo |-> t, rest |-> u]]
  BY <1>3
<1> DEFINE o == [pc |-> "pending", todo |-> t, rest |-> u]
<1>5. o \in Operations /\ \A r : OpFits(o, r, invites')
  BY <1>1, PendingFits
<1> HIDE DEF o
<1>6. \E r \in Registries : groups' = [groups EXCEPT ![w] = r] /\ disk' \in [Wallets -> Registries]
  <2>1. CASE JoinWithWelcome(w, e)
    <3>1. PICK r \in Registries : groups' = [groups EXCEPT ![w] = r] /\ disk' = [disk EXCEPT ![w] = r]
      BY <1>1, <2>1, Welcomed
    <3> QED BY <3>1 DEF DaemonType
  <2>2. CASE UNCHANGED <<groups, disk>>
    BY <2>2, SameTables
  <2> QED BY <1>1, <2>1, <2>2
<1>7. /\ groups' \in [Wallets -> Registries] /\ op' \in [Wallets -> Operations]
      /\ \A v \in Wallets : OpFits(op'[v], groups'[v], invites')
  <2>1. PICK r \in Registries : groups' = [groups EXCEPT ![w] = r]
    BY <1>6
  <2>2. op' = [op EXCEPT ![w] = o]
    BY <1>4 DEF o
  <2>3. invites' = invites
    BY DEF JoinPendingNext, relayVars
  <2>4. OpFits(o, r, invites') /\ o \in Operations
    BY <1>5
  <2>5. \A x \in DOMAIN invites : x \in DOMAIN invites' /\ invites'[x].group = invites[x].group
    BY <2>3
  <2> QED BY <2>1, <2>2, <2>4, <2>5, ActorStep
<1> QED BY <1>6, <1>7, SameTables DEF JoinPendingNext, relayVars, DaemonType

LEMMA JoinPendingEndTyped ==
    ASSUME DaemonType, NEW w \in Wallets, JoinPendingEnd(w)
    PROVE  DaemonType'
<1> DEFINE rest == op[w].rest
           box == Stash(groups[w], rest)
<1>1. rest \in Seq(Mailable)
  BY OperationParts, SameTables DEF JoinPendingEnd
<1>2. /\ groups' = [groups EXCEPT ![w] = groups[w]] /\ op' = [op EXCEPT ![w] = Idle]
      /\ inbox' = [inbox EXCEPT ![w] = box]
  BY SameTables DEF JoinPendingEnd, Set
<1>3. box \in Seq(Mailable) /\ Len(box) <= INBOX_CAP
  <2> HIDE DEF rest
  <2> QED BY <1>1, WithinStash
<1> HIDE DEF box
<1>4. Idle \in Operations /\ OpFits(Idle, groups[w], invites')
  BY QuietFits
<1>5. /\ groups' \in [Wallets -> Registries] /\ op' \in [Wallets -> Operations]
      /\ \A v \in Wallets : OpFits(op'[v], groups'[v], invites')
  BY <1>2, <1>4, SameTables, ActorStep DEF JoinPendingEnd, relayVars
<1>6. inbox' \in [Wallets -> Seq(Mailable)] /\ \A v \in Wallets : Len(inbox'[v]) <= INBOX_CAP
  BY <1>2, <1>3 DEF DaemonType
<1> QED BY <1>5, <1>6, SameTables DEF JoinPendingEnd, relayVars, DaemonType

LEMMA PublishInviteTyped ==
    ASSUME DaemonType, NEW g \in Groups, NEW t \in Tokens, PublishInvite(g, t)
    PROVE  DaemonType'
<1> USE DaemonAssumption
<1> DEFINE h == groups[Owner][g]
           i == [group |-> g, hist |-> h.hist, tree |-> h.tree, consumed |-> FALSE, joiner |-> Owner]
<1>1. groups[Owner] \in Registries /\ h \in GroupState
  BY RegistryRows, SameTables DEF PublishInvite
<1>2. i \in Invite
  BY <1>1, HandleParts DEF Invite
<1>3. invites' = Put(invites, t, i) /\ t \notin DOMAIN invites
  BY DEF PublishInvite
<1> HIDE DEF i
<1>4. /\ invites' \in Invitations
      /\ \A s \in DOMAIN invites : s \in DOMAIN invites' /\ invites'[s].group = invites[s].group
  <2>1. invites \in Invitations
    BY DEF DaemonType
  <2>2. /\ invites' \in Invitations
        /\ DOMAIN invites' = DOMAIN invites \union {t}
        /\ \A s \in DOMAIN invites \ {t} : invites'[s] = invites[s]
    BY <1>2, <1>3, <2>1, InvitePut
  <2> QED BY <1>3, <2>2
<1>5. /\ groups' = [groups EXCEPT ![Owner] = groups[Owner]] /\ op' = [op EXCEPT ![Owner] = op[Owner]]
  BY SameTables DEF PublishInvite, daemonVars
<1>6. op[Owner] \in Operations /\ OpFits(op[Owner], groups[Owner], invites')
  BY QuietFits DEF PublishInvite
<1>7. /\ groups' \in [Wallets -> Registries] /\ op' \in [Wallets -> Operations]
      /\ \A v \in Wallets : OpFits(op'[v], groups'[v], invites')
  BY <1>1, <1>4, <1>5, <1>6, ActorStep
<1> QED BY <1>4, <1>7, SameTables DEF PublishInvite, daemonVars, DaemonType

LEMMA RedeemInviteTyped ==
    ASSUME DaemonType, NEW w \in Wallets, NEW t \in Tokens, RedeemInvite(w, t)
    PROVE  DaemonType'
<1> DEFINE o == [pc |-> "redeem", token |-> t]
           g == invites[t].group
<1>1. /\ t \in DOMAIN invites /\ g \notin DOMAIN groups[w]
      /\ invites' = [invites EXCEPT ![t].consumed = TRUE, ![t].joiner = w]
      /\ roster' = [roster EXCEPT ![g] = roster[g] \cup {w}]
      /\ groups' = [groups EXCEPT ![w] = groups[w]] /\ op' = [op EXCEPT ![w] = o]
  BY SameTables DEF RedeemInvite, Set
<1>2. g \in Groups
  BY <1>1, InviteRows DEF DaemonType, Invite
<1>3. /\ invites' \in Invitations
      /\ DOMAIN invites' = DOMAIN invites
      /\ \A s \in DOMAIN invites : invites'[s].group = invites[s].group
  <2>1. invites \in Invitations
    BY DEF DaemonType
  <2>2. t \in DOMAIN invites /\ invites' = [invites EXCEPT ![t].consumed = TRUE, ![t].joiner = w]
    BY <1>1
  <2> DEFINE u == invites'
             v == invites
  <2>3. PICK D \in SUBSET Tokens : v \in [D -> Invite]
    BY <2>1 DEF Invitations
  <2>4. u = [v EXCEPT ![t].consumed = TRUE, ![t].joiner = w] /\ t \in DOMAIN v
    BY <2>2
  <2> HIDE DEF u, v
  <2>5. u \in [D -> Invite] /\ \A s \in DOMAIN v : u[s].group = v[s].group
    BY <2>3, <2>4 DEF Invite
  <2>6. u \in Invitations
    BY <2>3, <2>5 DEF Invitations
  <2>7. DOMAIN u = DOMAIN v
    BY <2>3, <2>5
  <2> QED BY <2>5, <2>6, <2>7 DEF u, v
<1>4. o \in Operations /\ OpFits(o, groups[w], invites')
  BY <1>1, <1>3 DEF Operations, OpFits
<1> HIDE DEF o, g
<1>5. /\ groups' \in [Wallets -> Registries] /\ op' \in [Wallets -> Operations]
      /\ \A v \in Wallets : OpFits(op'[v], groups'[v], invites')
  BY <1>1, <1>3, <1>4, SameTables, ActorStep
<1>6. roster' \in [Groups -> SUBSET Wallets]
  BY <1>1, <1>2 DEF DaemonType
<1> QED BY <1>3, <1>5, <1>6, SameTables DEF RedeemInvite, DaemonType

LEMMA RedeemCommitTyped ==
    ASSUME DaemonType, NEW w \in Wallets, RedeemCommit(w)
    PROVE  DaemonType'
<1> DEFINE i == invites[op[w].token]
           g == i.group
           id == commits + 1
           R == roster[g] \ {w}
           hist == i.hist
           tree == i.tree \cup {w}
           members == R \cup {w}
           ok == Admissible(g, w, R) /\ NextEpoch(g, hist)
           new == Handle(Append(hist, id), tree, members)
           e == Envelope("Commit", g, w, hist, tree, id, 0)
           r == IF ok THEN Put(groups[w], g, new) ELSE groups[w]
           o == IF ok THEN Persist ELSE Idle
<1>1. i \in Invite
  <2>1. op[w].token \in DOMAIN invites
    BY SameTables DEF RedeemCommit, OpFits
  <2> QED BY <2>1, InviteRows DEF DaemonType
<1>2. g \in Groups /\ hist \in Histories /\ i.tree \in SUBSET Wallets
  BY <1>1 DEF Invite
<1>3. tree \in SUBSET Wallets /\ members \in SUBSET Wallets
  BY <1>2 DEF DaemonType
<1>4. new.tree = tree
  BY DEF Handle
<1>5. /\ commits < MaxCommits /\ commits' = id
      /\ groups' = [groups EXCEPT ![w] = r]
      /\ order' = IF ok THEN Set(order, g, Append(order[g], id)) ELSE order
      /\ mail' = IF ok THEN Deliver(R, e) ELSE mail
      /\ op' = [op EXCEPT ![w] = o]
  BY <1>4, SameTables DEF RedeemCommit, SetGroup, Set
<1> HIDE DEF R, tree, members, hist, g, i
<1>6. /\ Set(order, g, Append(order[g], id)) \in [Groups -> Histories]
      /\ Deliver(R, e) \in [Wallets -> Seq(Mailable)]
      /\ new \in GroupState /\ id \in 0..MaxCommits
  BY <1>2, <1>3, <1>5, CommitTyped
<1> HIDE DEF new, e
<1>7. r \in Registries
  <2>1. groups[w] \in Registries
    BY SameTables
  <2> QED BY <1>2, <1>6, <2>1, PutRegistry
<1>8. o \in Operations /\ OpFits(o, r, invites')
  <2>1. o \in {Idle, Persist}
    OBVIOUS
  <2> HIDE DEF o
  <2> QED BY <2>1, QuietFits
<1> HIDE DEF r, o, ok
<1>9. /\ groups' \in [Wallets -> Registries] /\ op' \in [Wallets -> Operations]
      /\ \A v \in Wallets : OpFits(op'[v], groups'[v], invites')
  BY <1>5, <1>7, <1>8, SameTables, ActorStep DEF RedeemCommit
<1>10. order' \in [Groups -> Histories] /\ mail' \in [Wallets -> Seq(Mailable)] /\ commits' \in 0..MaxCommits
  BY <1>5, <1>6 DEF DaemonType
<1> QED BY <1>9, <1>10, SameTables DEF RedeemCommit, DaemonType

LEMMA RestartTyped ==
    ASSUME DaemonType, NEW w \in Wallets, NEW k \in 0..Len(mail[w]), Restart(w, k)
    PROVE  DaemonType'
<1> DEFINE m == SubSeq(mail[w], k + 1, Len(mail[w]))
<1>1. /\ groups' = [groups EXCEPT ![w] = disk[w]] /\ op' = [op EXCEPT ![w] = Idle]
      /\ inbox' = [inbox EXCEPT ![w] = <<>>] /\ mail' = [mail EXCEPT ![w] = m]
      /\ packages' = [packages EXCEPT ![w] = @ + 1] /\ crashes' = crashes + 1 /\ crashes < MaxCrashes
      /\ torn' = (torn \/ op[w] # Idle)
  BY DEF Restart, Set
<1>2. m \in Seq(Mailable)
  BY Fetched
<1> HIDE DEF m
<1>3. Idle \in Operations /\ OpFits(Idle, disk[w], invites')
  BY QuietFits
<1>4. /\ groups' \in [Wallets -> Registries] /\ op' \in [Wallets -> Operations]
      /\ \A v \in Wallets : OpFits(op'[v], groups'[v], invites')
  BY <1>1, <1>3, SameTables, ActorStep DEF Restart
<1>5. inbox' \in [Wallets -> Seq(Mailable)] /\ \A v \in Wallets : Len(inbox'[v]) <= INBOX_CAP
  <2>1. <<>> \in Seq(Mailable) /\ Len(<<>>) = 0 /\ 0 <= INBOX_CAP
    BY DaemonAssumption
  <2> QED BY <1>1, <2>1 DEF DaemonType
<1>6. mail' \in [Wallets -> Seq(Mailable)] /\ packages' \in [Wallets -> Nat]
  BY <1>1, <1>2 DEF DaemonType
<1>7. crashes' \in 0..MaxCrashes /\ torn' \in BOOLEAN
  BY <1>1, DaemonAssumption DEF DaemonType
<1> QED BY <1>4, <1>5, <1>6, <1>7, SameTables DEF Restart, DaemonType

LEMMA TypedInit ==
    ASSUME Init
    PROVE  DaemonType
<1>1. NoGroups \in Registries /\ Idle \in Operations
      /\ \A w \in Wallets : OpFits(Idle, NoGroups, invites)
  BY NoGroupsRegistry, QuietFits
<1>2. <<>> \in Seq(Mailable) /\ <<>> \in Seq(Message) /\ <<>> \in Seq(Nat) /\ Len(<<>>) = 0
      /\ <<>> \in Histories /\ INBOX_CAP \in Nat /\ MaxCommits \in Nat /\ MaxCrashes \in Nat
  BY DaemonAssumption DEF Histories
<1>3. [t \in {} |-> 0] \in Invitations
  <2>1. [t \in {} |-> 0] \in [{} -> Invite] /\ {} \in SUBSET Tokens
    OBVIOUS
  <2> QED BY <2>1 DEF Invitations
<1>4. /\ groups \in [Wallets -> Registries] /\ disk \in [Wallets -> Registries]
      /\ op \in [Wallets -> Operations]
      /\ \A w \in Wallets : OpFits(op[w], groups[w], invites)
  BY <1>1 DEF Init
<1>5. /\ inbox \in [Wallets -> Seq(Mailable)] /\ mail \in [Wallets -> Seq(Mailable)]
      /\ \A w \in Wallets : Len(inbox[w]) <= INBOX_CAP
      /\ sent \in Seq(Message) /\ shown \in [Wallets -> Seq(Nat)]
  BY <1>2 DEF Init
<1>6. /\ roster \in [Groups -> SUBSET Wallets] /\ order \in [Groups -> Histories]
      /\ packages \in [Wallets -> Nat] /\ invites \in Invitations
      /\ commits \in 0..MaxCommits /\ crashes \in 0..MaxCrashes /\ torn \in BOOLEAN
  <2>1. roster \in [Groups -> SUBSET Wallets] /\ order \in [Groups -> Histories]
    BY <1>2 DEF Init
  <2>2. packages \in [Wallets -> Nat]
    BY DEF Init
  <2>3. invites \in Invitations
    BY <1>3 DEF Init
  <2>4. commits \in 0..MaxCommits /\ crashes \in 0..MaxCrashes /\ torn \in BOOLEAN
    <3>1. commits = 0 /\ crashes = 0 /\ torn = FALSE
      BY DEF Init
    <3>2. MaxCommits \in Nat /\ MaxCrashes \in Nat
      BY DaemonAssumption
    <3>3. 0 \in 0..MaxCommits /\ 0 \in 0..MaxCrashes
      BY <3>2
    <3>4. torn \in BOOLEAN
      BY <3>1
    <3> QED BY <3>1, <3>3, <3>4
  <2> QED BY <2>1, <2>2, <2>3, <2>4
<1> QED BY <1>4, <1>5, <1>6 DEF DaemonType

LEMMA TypedNext ==
    ASSUME DaemonType, [Next]_vars
    PROVE  DaemonType'
<1>1. CASE UNCHANGED vars
  BY <1>1 DEF vars, daemonVars, relayVars, DaemonType
<1>2. CASE Next
  BY <1>2, CreateGroupTyped, AddMemberTyped, SubmitAddTyped, OnboardTyped, OffboardTyped, SendTyped,
     PollTyped, JoinGroupTyped, JoinGroupFinishTyped, JoinPendingTyped, JoinPendingNextTyped,
     JoinPendingEndTyped, PublishInviteTyped, RedeemInviteTyped, RedeemCommitTyped, PersistStateTyped,
     RestartTyped DEF Next
<1> QED BY <1>1, <1>2

(* What daemons, disks, mailboxes, invites and operations under way hold   *)
(* is of their types, no inbox holds more than INBOX_CAP, and an           *)
(* operation under way is about a group its daemon has, or one it does     *)
(* not have yet (the handlers of lib.rs).                                  *)
THEOREM DaemonTyped == Spec => []DaemonType
<1> QED BY TypedInit, TypedNext, PTL DEF Spec

-----------------------------------------------------------------------------
(* The order of messages.                                                  *)

IsApp(e) == e.kind = "Application"

(* Every waiting message was sent to w's group while w was in its roster.  *)
Grounded(w, s, st) ==
    \A i \in DOMAIN s : IsApp(s[i]) =>
        s[i].id \in DOMAIN st /\ st[s[i].id].group = s[i].group /\ w \in st[s[i].id].roster

(* They wait in the order in which they were sent.                         *)
Rising(s) == \A i, j \in DOMAIN s : i < j /\ IsApp(s[i]) /\ IsApp(s[j]) => s[i].id < s[j].id

(* What w was shown.                                                       *)
Past(w, sh, st) ==
    /\ \A n \in DOMAIN sh : sh[n] \in DOMAIN st /\ w \in st[sh[n]].roster
    /\ \A m, n \in DOMAIN sh : m < n /\ st[sh[m]].group = st[sh[n]].group => sh[m] < sh[n]

(* What waits is later than what was shown of its group.                   *)
Ahead(s, sh, st) ==
    \A n \in DOMAIN sh, i \in DOMAIN s :
        IsApp(s[i]) /\ st[sh[n]].group = s[i].group => sh[n] < s[i].id

Orderly(w, s, sh, st) == Grounded(w, s, st) /\ Rising(s) /\ Past(w, sh, st) /\ Ahead(s, sh, st)

OrderInv == \A w \in Wallets : Orderly(w, Waiting(w), shown[w], sent)

(* Fewer wait.                                                             *)
LEMMA OrderlyLess ==
    ASSUME NEW w, NEW s, NEW t, NEW sh, NEW st, Orderly(w, s, sh, st), Within(t, s), DOMAIN s \subseteq Nat
    PROVE  Orderly(w, t, sh, st)
<1>1. PICK f \in [DOMAIN t -> DOMAIN s] :
            /\ \A i \in DOMAIN t : t[i] = s[f[i]]
            /\ \A i, j \in DOMAIN t : i < j => f[i] < f[j]
  BY DEF Within
<1>2. Grounded(w, t, st)
  <2> SUFFICES ASSUME NEW i \in DOMAIN t, IsApp(t[i])
               PROVE  t[i].id \in DOMAIN st /\ st[t[i].id].group = t[i].group /\ w \in st[t[i].id].roster
    BY DEF Grounded
  <2>1. t[i] = s[f[i]] /\ f[i] \in DOMAIN s
    BY <1>1
  <2> QED BY <2>1 DEF Orderly, Grounded
<1>3. Rising(t)
  <2> SUFFICES ASSUME NEW i \in DOMAIN t, NEW j \in DOMAIN t, i < j, IsApp(t[i]), IsApp(t[j])
               PROVE  t[i].id < t[j].id
    BY DEF Rising
  <2>1. t[i] = s[f[i]] /\ f[i] \in DOMAIN s /\ t[j] = s[f[j]] /\ f[j] \in DOMAIN s /\ f[i] < f[j]
    BY <1>1
  <2> QED BY <2>1 DEF Orderly, Rising
<1>4. Ahead(t, sh, st)
  <2> SUFFICES ASSUME NEW n \in DOMAIN sh, NEW i \in DOMAIN t, IsApp(t[i]), st[sh[n]].group = t[i].group
               PROVE  sh[n] < t[i].id
    BY DEF Ahead
  <2>1. t[i] = s[f[i]] /\ f[i] \in DOMAIN s
    BY <1>1
  <2> QED BY <2>1 DEF Orderly, Ahead
<1> QED BY <1>2, <1>3, <1>4 DEF Orderly

(* One more was sent.                                                      *)
LEMMA OrderlySent ==
    ASSUME NEW w, NEW s, NEW sh, NEW st \in Seq(Message), NEW m \in Message, Orderly(w, s, sh, st)
    PROVE  Orderly(w, s, sh, Append(st, m))
<1> DEFINE u == Append(st, m)
<1>1. /\ DOMAIN u = 1..Len(st) + 1 /\ DOMAIN st = 1..Len(st) /\ Len(st) \in Nat
      /\ \A i \in 1..Len(st) : u[i] = st[i]
  BY AppendProperties
<1> HIDE DEF u
<1>2. \A i \in DOMAIN st : i \in DOMAIN u /\ u[i] = st[i]
  BY <1>1
<1>3. Orderly(w, s, sh, u)
  <2>1. Grounded(w, s, u)
    BY <1>2 DEF Orderly, Grounded
  <2>2. Past(w, sh, u)
    BY <1>2 DEF Orderly, Past
  <2>3. Ahead(s, sh, u)
    BY <1>2 DEF Orderly, Ahead, Past
  <2> QED BY <2>1, <2>2, <2>3 DEF Orderly
<1> QED BY <1>3 DEF u

(* A Commit or a Welcome arrives.                                          *)
LEMMA OrderlyQuiet ==
    ASSUME NEW w, NEW s \in Seq(Mailable), NEW sh, NEW st, NEW e \in Mailable, ~IsApp(e), Orderly(w, s, sh, st)
    PROVE  Orderly(w, Append(s, e), sh, st)
<1> DEFINE t == Append(s, e)
<1>1. /\ DOMAIN t = 1..Len(s) + 1 /\ DOMAIN s = 1..Len(s) /\ Len(s) \in Nat
      /\ \A i \in 1..Len(s) : t[i] = s[i]
      /\ t[Len(s) + 1] = e
  BY AppendProperties
<1> HIDE DEF t
<1>2. \A i \in DOMAIN t : IsApp(t[i]) => i \in DOMAIN s /\ t[i] = s[i]
  BY <1>1
<1>3. Grounded(w, t, st) /\ Rising(t) /\ Ahead(t, sh, st)
  BY <1>2 DEF Orderly, Grounded, Rising, Ahead
<1> QED BY <1>3 DEF Orderly, t

(* A message is sent to w.                                                 *)
LEMMA OrderlyNew ==
    ASSUME NEW w, NEW s \in Seq(Mailable), NEW sh \in Seq(Nat), NEW st \in Seq(Message), NEW m \in Message, NEW e \in Mailable,
           Orderly(w, s, sh, st), e.id = Len(st) + 1, e.group = m.group, w \in m.roster
    PROVE  Orderly(w, Append(s, e), sh, Append(st, m))
<1> DEFINE t == Append(s, e)
           u == Append(st, m)
<1>1. /\ DOMAIN t = 1..Len(s) + 1 /\ DOMAIN s = 1..Len(s) /\ Len(s) \in Nat
      /\ \A i \in 1..Len(s) : t[i] = s[i]
      /\ t[Len(s) + 1] = e
  BY AppendProperties
<1>2. /\ DOMAIN u = 1..Len(st) + 1 /\ DOMAIN st = 1..Len(st) /\ Len(st) \in Nat
      /\ \A i \in 1..Len(st) : u[i] = st[i]
      /\ u[Len(st) + 1] = m
  BY AppendProperties
<1>3. Orderly(w, s, sh, u)
  BY OrderlySent
<1> HIDE DEF t, u
<1>4. \A i \in DOMAIN t : (i \in DOMAIN s /\ t[i] = s[i]) \/ (i = Len(s) + 1 /\ t[i] = e)
  BY <1>1
<1>5. e.id \in DOMAIN u /\ u[e.id] = m
  BY <1>2
<1>6. \A i \in DOMAIN s : IsApp(s[i]) => s[i].id < e.id
  BY <1>2 DEF Orderly, Grounded
<1>7. \A n \in DOMAIN sh : sh[n] < e.id
  BY <1>2 DEF Orderly, Past
<1>8. Grounded(w, t, u)
  BY <1>3, <1>4, <1>5 DEF Orderly, Grounded
<1>9. Rising(t)
  <2> SUFFICES ASSUME NEW i \in DOMAIN t, NEW j \in DOMAIN t, i < j, IsApp(t[i]), IsApp(t[j])
               PROVE  t[i].id < t[j].id
    BY DEF Rising
  <2>1. i \in DOMAIN s /\ t[i] = s[i]
    BY <1>1, <1>4
  <2> QED BY <1>3, <1>4, <1>6, <2>1 DEF Orderly, Rising
<1>10. Ahead(t, sh, u)
  BY <1>3, <1>4, <1>7 DEF Orderly, Ahead
<1>11. Orderly(w, t, sh, u)
  BY <1>3, <1>8, <1>9, <1>10 DEF Orderly
<1> QED BY <1>11 DEF t, u

(* A poll of g has gone through "all"; m still waits behind it.            *)
LEMMA OrderlyPolled ==
    ASSUME NEW w, NEW g, NEW all \in Seq(Mailable), NEW m \in Seq(Mailable), NEW sh \in Seq(Nat), NEW st,
           NEW keep \in Seq(Mailable), NEW t \in Seq(Mailable), NEW ids \in Seq(Nat),
           Orderly(w, all \o m, sh, st), From(keep, all, Len(all)), Within(t, keep),
           \A n \in DOMAIN keep : keep[n].group # g,
           Taken(ids, g, all, Len(all))
    PROVE  Orderly(w, t \o m, sh \o ids, st)
<1> DEFINE s == all \o m
           y == t \o m
           z == sh \o ids
<1>1. /\ s \in Seq(Mailable) /\ Len(all) \in Nat /\ Len(m) \in Nat /\ DOMAIN all = 1..Len(all) /\ DOMAIN m = 1..Len(m)
      /\ DOMAIN s = 1..Len(all) + Len(m)
      /\ \A i \in 1..Len(all) : s[i] = all[i]
      /\ \A i \in Len(all) + 1..Len(all) + Len(m) : s[i] = m[i - Len(all)]
  BY Joined
<1>2. /\ y \in Seq(Mailable) /\ Len(t) \in Nat /\ DOMAIN t = 1..Len(t)
      /\ DOMAIN y = 1..Len(t) + Len(m)
      /\ \A i \in 1..Len(t) : y[i] = t[i]
      /\ \A i \in Len(t) + 1..Len(t) + Len(m) : y[i] = m[i - Len(t)]
  BY Joined
<1>3. /\ z \in Seq(Nat) /\ Len(sh) \in Nat /\ Len(ids) \in Nat /\ DOMAIN sh = 1..Len(sh) /\ DOMAIN ids = 1..Len(ids)
      /\ DOMAIN z = 1..Len(sh) + Len(ids)
      /\ \A i \in 1..Len(sh) : z[i] = sh[i]
      /\ \A i \in Len(sh) + 1..Len(sh) + Len(ids) : z[i] = ids[i - Len(sh)]
  BY Joined
<1>4. Orderly(w, y, sh, st)
  <2>1. Within(keep, all)
    BY <1>1 DEF From, Within
  <2>2. Within(t, all) /\ Within(m, m)
    BY <2>1, WithinSome, WithinSame
  <2>3. Within(y, s)
    BY <2>2, WithinJoined
  <2>4. Orderly(w, s, sh, st) /\ DOMAIN s \subseteq Nat
    BY <1>1
  <2> HIDE DEF s, y
  <2> QED BY <2>3, <2>4, OrderlyLess
<1>0. Orderly(w, s, sh, st)
  OBVIOUS
<1> HIDE DEF s, y, z
<1>5. ASSUME NEW i \in DOMAIN y, y[i].group = g
      PROVE  \E p \in DOMAIN s : p > Len(all) /\ y[i] = s[p]
  <2>1. CASE i <= Len(t)
    <3>1. i \in DOMAIN t /\ y[i] = t[i]
      BY <1>2, <2>1
    <3>2. PICK f \in [DOMAIN t -> DOMAIN keep] : \A j \in DOMAIN t : t[j] = keep[f[j]]
      BY DEF Within
    <3> QED BY <1>5, <3>1, <3>2
  <2>2. CASE i > Len(t)
    <3>1. i \in Len(t) + 1..Len(t) + Len(m) /\ y[i] = m[i - Len(t)]
      <4>1. i \in 1..Len(t) + Len(m) /\ Len(t) \in Nat /\ Len(m) \in Nat
        BY <1>1, <1>2
      <4>2. i \in Len(t) + 1..Len(t) + Len(m)
        BY <2>2, <4>1
      <4> QED BY <1>2, <4>2
    <3> DEFINE p == Len(all) + (i - Len(t))
    <3>2. p \in DOMAIN s /\ p > Len(all) /\ p \in Len(all) + 1..Len(all) + Len(m) /\ p - Len(all) = i - Len(t)
      BY <1>1, <1>2, <3>1
    <3> HIDE DEF p
    <3>3. y[i] = s[p]
      BY <1>1, <3>1, <3>2
    <3> QED BY <3>2, <3>3
  <2> QED BY <1>2, <2>1, <2>2
<1>6. PICK x \in Seq(Mailable) :
            /\ From(x, all, Len(all)) /\ Len(x) = Len(ids)
            /\ \A n \in DOMAIN x : ids[n] = x[n].id /\ x[n].kind = "Application" /\ x[n].group = g
  BY DEF Taken
<1>7. PICK f \in [DOMAIN x -> 1..Len(all)] :
            /\ \A n \in DOMAIN x : x[n] = all[f[n]]
            /\ \A k, n \in DOMAIN x : k < n => f[k] < f[n]
  BY <1>6 DEF From
<1>8. DOMAIN x = DOMAIN ids
  BY <1>3, <1>6
<1> DEFINE q(n) == f[n - Len(sh)]
<1>9. ASSUME NEW n \in DOMAIN z, n > Len(sh)
      PROVE  /\ q(n) \in DOMAIN s /\ q(n) <= Len(all) /\ z[n] = s[q(n)].id /\ IsApp(s[q(n)])
             /\ s[q(n)].group = g /\ st[z[n]].group = g /\ z[n] \in DOMAIN st /\ w \in st[z[n]].roster
             /\ n - Len(sh) \in DOMAIN x /\ q(n) \in Nat
  <2>1. n - Len(sh) \in DOMAIN x /\ z[n] = ids[n - Len(sh)]
    <3>1. n \in Len(sh) + 1..Len(sh) + Len(ids)
      BY <1>3, <1>9
    <3>2. n - Len(sh) \in 1..Len(ids)
      BY <1>3, <3>1
    <3> QED BY <1>3, <1>8, <3>1, <3>2
  <2>2. q(n) \in 1..Len(all) /\ z[n] = all[q(n)].id /\ all[q(n)].kind = "Application" /\ all[q(n)].group = g
    BY <1>6, <1>7, <2>1
  <2> DEFINE p == q(n)
  <2> HIDE DEF q
  <2>3. q(n) \in DOMAIN s /\ s[q(n)] = all[q(n)] /\ q(n) <= Len(all) /\ q(n) \in Nat
    BY <1>1, <2>2
  <2>4. IsApp(s[q(n)])
    BY <2>2, <2>3 DEF IsApp
  <2>5. s[q(n)].id \in DOMAIN st /\ st[s[q(n)].id].group = s[q(n)].group /\ w \in st[s[q(n)].id].roster
    BY <1>0, <2>3, <2>4 DEF Orderly, Grounded
  <2> QED BY <2>1, <2>2, <2>3, <2>4, <2>5
<1>10. ASSUME NEW n \in DOMAIN z, ~(n > Len(sh))
       PROVE  n \in DOMAIN sh /\ z[n] = sh[n]
  BY <1>3, <1>10
<1> HIDE DEF q
<1>11. Past(w, z, st)
  <2>1. ASSUME NEW n \in DOMAIN z PROVE z[n] \in DOMAIN st /\ w \in st[z[n]].roster
    <3>1. CASE n > Len(sh)
      BY <1>9, <3>1
    <3>2. CASE ~(n > Len(sh))
      BY <1>0, <1>10, <3>2 DEF Orderly, Past
    <3> QED BY <3>1, <3>2
  <2>2. ASSUME NEW k \in DOMAIN z, NEW n \in DOMAIN z, k < n, st[z[k]].group = st[z[n]].group
        PROVE  z[k] < z[n]
    <3>1. CASE k > Len(sh)
      <4>1. n > Len(sh) /\ k - Len(sh) < n - Len(sh)
        BY <1>3, <2>2, <3>1
      <4>2. q(k) < q(n)
        BY <1>7, <1>9, <3>1, <4>1 DEF q
      <4> QED BY <1>0, <1>9, <3>1, <4>1, <4>2 DEF Orderly, Rising
    <3>2. CASE ~(k > Len(sh)) /\ n > Len(sh)
      <4>1. k \in DOMAIN sh /\ z[k] = sh[k]
        BY <1>10, <3>2
      <4>2. q(n) \in DOMAIN s /\ IsApp(s[q(n)]) /\ st[sh[k]].group = s[q(n)].group /\ z[n] = s[q(n)].id
        BY <1>9, <2>2, <3>2, <4>1
      <4> QED BY <1>0, <4>1, <4>2 DEF Orderly, Ahead
    <3>3. CASE ~(k > Len(sh)) /\ ~(n > Len(sh))
      <4>1. k \in DOMAIN sh /\ z[k] = sh[k] /\ n \in DOMAIN sh /\ z[n] = sh[n]
        BY <1>10, <3>3
      <4> QED BY <1>0, <2>2, <4>1 DEF Orderly, Past
    <3> QED BY <3>1, <3>2, <3>3
  <2> QED BY <2>1, <2>2 DEF Past
<1>12. Ahead(y, z, st)
  <2> SUFFICES ASSUME NEW n \in DOMAIN z, NEW i \in DOMAIN y, IsApp(y[i]), st[z[n]].group = y[i].group
               PROVE  z[n] < y[i].id
    BY DEF Ahead
  <2>1. CASE n > Len(sh)
    <3>1. y[i].group = g
      BY <1>9, <2>1
    <3>2. PICK p \in DOMAIN s : p > Len(all) /\ y[i] = s[p]
      BY <1>5, <3>1
    <3>3. /\ q(n) \in DOMAIN s /\ q(n) <= Len(all) /\ q(n) \in Nat /\ IsApp(s[q(n)])
          /\ z[n] = s[q(n)].id
      BY <1>9, <2>1
    <3>4. q(n) < p
      BY <1>1, <3>2, <3>3
    <3>5. IsApp(s[p])
      BY <3>2
    <3> QED BY <1>0, <3>2, <3>3, <3>4, <3>5 DEF Orderly, Rising
  <2>2. CASE ~(n > Len(sh))
    <3>1. n \in DOMAIN sh /\ z[n] = sh[n]
      BY <1>10, <2>2
    <3> QED BY <1>4, <3>1 DEF Orderly, Ahead
  <2> QED BY <2>1, <2>2
<1>13. Orderly(w, y, z, st)
  BY <1>4, <1>11, <1>12 DEF Orderly
<1> QED BY <1>13 DEF y, z

Line(o, box, m) == (IF o.pc = "pending" THEN o.rest \o o.todo ELSE box) \o m

LEMMA WaitingLine ==
    ASSUME NEW w
    PROVE  Waiting(w) = Line(op[w], inbox[w], mail[w])
  BY DEF Waiting, InHand, Line

LEMMA LineTyped ==
    ASSUME NEW o \in Operations, NEW box \in Seq(Mailable), NEW m \in Seq(Mailable)
    PROVE  /\ Line(o, box, m) \in Seq(Mailable) /\ DOMAIN Line(o, box, m) \subseteq Nat
           /\ \A e \in Mailable : Line(o, box, Append(m, e)) = Append(Line(o, box, m), e)
<1> DEFINE hand == IF o.pc = "pending" THEN o.rest \o o.todo ELSE box
<1>1. hand \in Seq(Mailable)
  <2>1. CASE o.pc = "pending"
    <3> DEFINE r == o.rest
               t == o.todo
    <3>1. r \in Seq(Mailable) /\ t \in Seq(Mailable) /\ hand = r \o t
      BY <2>1, OperationParts
    <3> HIDE DEF r, t, hand
    <3> QED BY <3>1, Joined
  <2>2. CASE o.pc # "pending"
    BY <2>2
  <2> QED BY <2>1, <2>2
<1>2. Line(o, box, m) = hand \o m /\ \A e : Line(o, box, Append(m, e)) = hand \o Append(m, e)
  BY DEF Line
<1> HIDE DEF hand
<1>3. hand \o m \in Seq(Mailable)
  BY <1>1, Joined
<1>4. ASSUME NEW e \in Mailable
      PROVE  hand \o Append(m, e) = Append(hand \o m, e)
  <2> DEFINE s == hand \o m
             one == <<e>>
  <2>1. Append(m, e) = m \o one /\ Append(s, e) = s \o one
    <3>1. s \in Seq(Mailable)
      BY <1>3
    <3> HIDE DEF s
    <3> QED BY <3>1, AppendIsConcat
  <2>2. one \in Seq(Mailable)
    OBVIOUS
  <2> HIDE DEF one
  <2>3. hand \o (m \o one) = (hand \o m) \o one
    BY <1>1, <2>2, ConcatAssociative
  <2> QED BY <2>1, <2>3
<1>5. DOMAIN Line(o, box, m) \subseteq Nat
  <2> DEFINE s == hand \o m
  <2>1. s \in Seq(Mailable) /\ Line(o, box, m) = s
    BY <1>2, <1>3
  <2> HIDE DEF s
  <2> QED BY <2>1
<1>6. ASSUME NEW e \in Mailable
      PROVE  Line(o, box, Append(m, e)) = Append(Line(o, box, m), e)
  BY <1>2, <1>4
<1> QED BY <1>2, <1>3, <1>5, <1>6

(* Of one daemon: what waits for it may only get less.                     *)
LEMMA OrderKept ==
    ASSUME DaemonType, NEW w \in Wallets, Orderly(w, Waiting(w), shown[w], sent),
           Within(Waiting(w)', Waiting(w)), shown'[w] = shown[w], sent' = sent
    PROVE  Orderly(w, Waiting(w)', shown'[w], sent')
<1> DEFINE s == Waiting(w)
           t == Waiting(w)'
<1>1. Orderly(w, s, shown[w], sent) /\ Within(t, s)
  OBVIOUS
<1>2. DOMAIN s \subseteq Nat
  BY WaitingLine, LineTyped DEF DaemonType
<1> HIDE DEF s, t
<1>3. Orderly(w, t, shown[w], sent)
  BY <1>1, <1>2, OrderlyLess
<1> QED BY <1>3 DEF t

(* Nothing waits that did not, and nothing was sent or shown: what the     *)
(* others wait for is untouched.                                           *)
LEMMA OthersWait ==
    ASSUME DaemonType, NEW w \in Wallets, NEW o, NEW box, NEW m,
           op' = [op EXCEPT ![w] = o], inbox' = [inbox EXCEPT ![w] = box], mail' = [mail EXCEPT ![w] = m],
           sent' = sent, OrderInv, \A v \in Wallets \ {w} : shown'[v] = shown[v],
           Orderly(w, Line(o, box, m), shown'[w], sent)
    PROVE  OrderInv'
<1> SUFFICES ASSUME NEW v \in Wallets
             PROVE  Orderly(v, Waiting(v)', shown'[v], sent')
  BY DEF OrderInv
<1>1. CASE v = w
  <2>1. op'[v] = o /\ inbox'[v] = box /\ mail'[v] = m
    BY <1>1 DEF DaemonType
  <2>2. Waiting(v)' = Line(op'[v], inbox'[v], mail'[v])
    <3>1. InHand(v)' = IF op'[v].pc = "pending" THEN op'[v].rest \o op'[v].todo ELSE inbox'[v]
      BY DEF InHand
    <3> QED BY <3>1 DEF Waiting, Line
  <2> QED BY <1>1, <2>1, <2>2
<1>2. CASE v # w
  <2>1. op'[v] = op[v] /\ inbox'[v] = inbox[v] /\ mail'[v] = mail[v]
    BY <1>2 DEF DaemonType
  <2>2. Waiting(v)' = Waiting(v)
    BY <2>1 DEF Waiting, InHand
  <2> QED BY <1>2, <2>2 DEF OrderInv
<1> QED BY <1>1, <1>2

(* The mailboxes after a submission that is not a message.                 *)
LEMMA OrderSubmitted ==
    ASSUME DaemonType, NEW w \in Wallets, NEW o, op' = [op EXCEPT ![w] = o],
           op[w].pc # "pending", o.pc # "pending", inbox' = inbox, shown' = shown, sent' = sent,
           NEW R, NEW e \in Mailable, ~IsApp(e), mail' = Deliver(R, e) \/ mail' = mail, OrderInv
    PROVE  OrderInv'
<1> SUFFICES ASSUME NEW v \in Wallets
             PROVE  Orderly(v, Waiting(v)', shown'[v], sent')
  BY DEF OrderInv
<1>1. InHand(v)' = InHand(v)
  <2>1. CASE v = w
    <3>1. op'[v] = o
      BY <2>1 DEF DaemonType
    <3> QED BY <2>1, <3>1 DEF InHand
  <2>2. CASE v # w
    <3>1. op'[v] = op[v]
      BY <2>2 DEF DaemonType
    <3> QED BY <3>1 DEF InHand
  <2> QED BY <2>1, <2>2
<1> DEFINE s == Waiting(v)
<1>2. s = Line(op[v], inbox[v], mail[v]) /\ op[v] \in Operations /\ inbox[v] \in Seq(Mailable) /\ mail[v] \in Seq(Mailable)
  BY WaitingLine DEF DaemonType
<1>3. s \in Seq(Mailable) /\ Line(op[v], inbox[v], Append(mail[v], e)) = Append(s, e)
  BY <1>2, LineTyped
<1>4. Waiting(v)' = s \/ Waiting(v)' = Append(s, e)
  <2>1. mail'[v] = mail[v] \/ mail'[v] = Append(mail[v], e)
    <3>1. mail \in [Wallets -> Seq(Mailable)]
      BY DEF DaemonType
    <3>2. Deliver(R, e)[v] = IF v \in R THEN Append(mail[v], e) ELSE mail[v]
      BY <3>1, Delivered
    <3> QED BY <3>2
  <2>2. CASE mail'[v] = mail[v]
    BY <1>1, <2>2 DEF Waiting
  <2>3. CASE mail'[v] = Append(mail[v], e)
    <3>1. Waiting(v)' = InHand(v) \o Append(mail[v], e)
      BY <1>1, <2>3 DEF Waiting
    <3>2. Line(op[v], inbox[v], Append(mail[v], e)) = InHand(v) \o Append(mail[v], e)
      BY DEF Line, InHand
    <3> QED BY <1>3, <3>1, <3>2
  <2> QED BY <2>1, <2>2, <2>3
<1>5. Orderly(v, s, shown[v], sent)
  BY DEF OrderInv
<1> HIDE DEF s
<1>6. Orderly(v, Append(s, e), shown[v], sent)
  BY <1>3, <1>5, OrderlyQuiet
<1> QED BY <1>4, <1>5, <1>6

(* Nothing is submitted at all.                                            *)
LEMMA OrderQuiet ==
    ASSUME DaemonType, NEW w \in Wallets, NEW o, op' = [op EXCEPT ![w] = o],
           op[w].pc # "pending", o.pc # "pending", UNCHANGED <<inbox, mail, shown, sent>>, OrderInv
    PROVE  OrderInv'
<1>1. Waiting(w) = inbox[w] \o mail[w] /\ Line(o, inbox[w], mail[w]) = inbox[w] \o mail[w]
  BY DEF Waiting, InHand, Line
<1>2. inbox' = [inbox EXCEPT ![w] = inbox[w]] /\ mail' = [mail EXCEPT ![w] = mail[w]]
  BY DEF DaemonType
<1>3. Orderly(w, Line(o, inbox[w], mail[w]), shown'[w], sent)
  BY <1>1 DEF OrderInv
<1>4. sent' = sent /\ \A v \in Wallets \ {w} : shown'[v] = shown[v]
  OBVIOUS
<1> DEFINE box == inbox[w]
           m == mail[w]
<1>5. inbox' = [inbox EXCEPT ![w] = box] /\ mail' = [mail EXCEPT ![w] = m] /\ Orderly(w, Line(o, box, m), shown'[w], sent)
  BY <1>2, <1>3
<1> HIDE DEF box, m
<1> QED BY <1>4, <1>5, OthersWait

(* Of what was fetched, some is kept.                                      *)
LEMMA OrderFetched ==
    ASSUME DaemonType, OrderInv, NEW w \in Wallets, NEW k \in 0..Len(mail[w]), op[w].pc # "pending",
           NEW t \in Seq(Mailable), Within(t, TakeInbox(w, k))
    PROVE  LET m == SubSeq(mail[w], k + 1, Len(mail[w]))
           IN  /\ Orderly(w, t \o m, shown[w], sent)
               /\ Orderly(w, TakeInbox(w, k) \o m, shown[w], sent)
<1> DEFINE all == TakeInbox(w, k)
           m == SubSeq(mail[w], k + 1, Len(mail[w]))
           s == all \o m
           y == t \o m
<1>1. all \in Seq(Mailable) /\ m \in Seq(Mailable) /\ s = Waiting(w)
  BY Fetched DEF Waiting, InHand
<1>2. Orderly(w, s, shown[w], sent)
  BY <1>1 DEF OrderInv
<1> HIDE DEF all, m
<1>3. s \in Seq(Mailable) /\ DOMAIN s \subseteq Nat
  <2>1. s \in Seq(Mailable)
    BY <1>1, Joined
  <2> HIDE DEF s
  <2> QED BY <2>1
<1>4. Within(y, s)
  <2>1. Within(t, all)
    BY DEF all
  <2>2. Within(m, m)
    BY WithinSame
  <2> QED BY <1>1, <2>1, <2>2, WithinJoined
<1>5. Orderly(w, y, shown[w], sent)
  <2> HIDE DEF y, s
  <2> QED BY <1>2, <1>3, <1>4, OrderlyLess
<1> QED BY <1>2, <1>5 DEF all, m

LEMMA OrderByQuiet ==
    ASSUME DaemonType, OrderInv,
           \/ \E g \in Groups : CreateGroup(g)
           \/ \E g \in Groups, w \in Wallets : AddMember(g, w)
           \/ \E w \in Wallets : JoinGroupFinish(w)
           \/ \E g \in Groups, t \in Tokens : PublishInvite(g, t)
           \/ \E w \in Wallets, t \in Tokens : RedeemInvite(w, t)
           \/ \E w \in Wallets : PersistState(w)
    PROVE  OrderInv'
<1> DEFINE Quiet == \E w \in Wallets : \E o : /\ op' = [op EXCEPT ![w] = o] /\ op[w].pc # "pending" /\ o.pc # "pending"
                                             /\ UNCHANGED <<inbox, mail, shown, sent>>
<1>1. Quiet
  <2>0. Idle.pc # "pending" /\ Persist.pc # "pending"
    BY DEF Idle, Persist
  <2>1. ASSUME NEW g \in Groups, CreateGroup(g) PROVE Quiet
    BY <2>0, <2>1, DaemonAssumption DEF CreateGroup, Set
  <2>2. ASSUME NEW g \in Groups, NEW w \in Wallets, AddMember(g, w) PROVE Quiet
    <3> DEFINE o == [pc |-> "commit", group |-> g, who |-> w]
    <3>1. o.pc # "pending" /\ op' = [op EXCEPT ![Owner] = o]
      BY <2>2 DEF AddMember, Set
    <3> HIDE DEF o
    <3> QED BY <2>0, <2>2, <3>1, DaemonAssumption DEF AddMember
  <2>3. ASSUME NEW w \in Wallets, JoinGroupFinish(w) PROVE Quiet
    BY <2>0, <2>3 DEF JoinGroupFinish, relayVars, Set
  <2>4. ASSUME NEW g \in Groups, NEW t \in Tokens, PublishInvite(g, t) PROVE Quiet
    BY <2>0, <2>4, SameTables, DaemonAssumption DEF PublishInvite, daemonVars
  <2>5. ASSUME NEW w \in Wallets, NEW t \in Tokens, RedeemInvite(w, t) PROVE Quiet
    <3> DEFINE o == [pc |-> "redeem", token |-> t]
    <3>1. o.pc # "pending" /\ op' = [op EXCEPT ![w] = o]
      BY <2>5 DEF RedeemInvite, Set
    <3> HIDE DEF o
    <3> QED BY <2>0, <2>5, <3>1 DEF RedeemInvite
  <2>6. ASSUME NEW w \in Wallets, PersistState(w) PROVE Quiet
    BY <2>0, <2>6 DEF PersistState, relayVars, Set
  <2> QED BY <2>1, <2>2, <2>3, <2>4, <2>5, <2>6
<1> QED BY <1>1, OrderQuiet

LEMMA OrderBySubmitAdd ==
    ASSUME DaemonType, DaemonType', OrderInv, SubmitAdd
    PROVE  OrderInv'
<1> USE DaemonAssumption
<1> DEFINE g == op[Owner].group
           w == op[Owner].who
           h == groups[Owner][g]
           id == commits + 1
           R == Recipients(h, Owner)
           tree == h.tree \cup {w}
           e == Envelope("Commit", g, Owner, h.hist, tree, id, 0)
           ok == Admissible(g, Owner, R) /\ NextEpoch(g, h.hist)
           o == IF ok THEN [pc |-> "onboard", group |-> g, who |-> w] ELSE Idle
<1>1. g \in Groups /\ w \in Wallets /\ g \in DOMAIN groups[Owner] /\ groups[Owner] \in Registries
  <2>1. op[Owner] \in Operations /\ OpFits(op[Owner], groups[Owner], invites) /\ op[Owner].pc = "commit"
    BY SameTables DEF SubmitAdd
  <2>2. op[Owner].group \in Groups /\ op[Owner].who \in Wallets
    BY <2>1, OperationParts
  <2> QED BY <2>1, <2>2, SameTables DEF OpFits
<1>2. h \in GroupState
  BY <1>1, RegistryRows
<1>3. /\ mail' = IF ok THEN Deliver(R, e) ELSE mail
      /\ op' = [op EXCEPT ![Owner] = o] /\ op[Owner].pc = "commit" /\ o.pc # "pending"
      /\ inbox' = inbox /\ shown' = shown /\ sent' = sent /\ commits < MaxCommits
  BY DEF SubmitAdd, Set, Handle, Idle
<1>4. e \in Mailable
  <2> DEFINE hist == h.hist
  <2>1. hist \in Histories /\ tree \in SUBSET Wallets
    BY <1>1, <1>2, HandleParts
  <2> HIDE DEF tree, hist, g
  <2> QED BY <1>1, <1>3, <2>1, CommitTyped DEF hist
<1>5. ~IsApp(e)
  BY DEF IsApp, Envelope
<1> HIDE DEF e, o, R, ok
<1>6. mail' = Deliver(R, e) \/ mail' = mail
  BY <1>3
<1>7. op[Owner].pc # "pending"
  BY <1>3
<1> QED BY <1>3, <1>4, <1>5, <1>6, <1>7, OrderSubmitted

LEMMA OrderByOnboard ==
    ASSUME DaemonType, OrderInv, Onboard
    PROVE  OrderInv'
<1> USE DaemonAssumption
<1> DEFINE g == op[Owner].group
           w == op[Owner].who
           h == groups[Owner][g]
           R == {w}
           e == Envelope("Welcome", g, Owner, h.hist, h.tree, 0, 0)
<1>1. g \in Groups /\ w \in Wallets /\ g \in DOMAIN groups[Owner] /\ groups[Owner] \in Registries
  <2>1. op[Owner] \in Operations /\ OpFits(op[Owner], groups[Owner], invites) /\ op[Owner].pc = "onboard"
    BY SameTables DEF Onboard
  <2>2. op[Owner].group \in Groups /\ op[Owner].who \in Wallets
    BY <2>1, OperationParts
  <2> QED BY <2>1, <2>2, SameTables DEF OpFits
<1>2. h \in GroupState
  BY <1>1, RegistryRows
<1>3. e \in Mailable
  BY <1>1, <1>2, HandleParts, EnvelopeMailable
<1>4. mail' = Deliver(R, e) /\ op' = [op EXCEPT ![Owner] = Persist] /\ op[Owner].pc # "pending"
      /\ Persist.pc # "pending" /\ inbox' = inbox /\ shown' = shown /\ sent' = sent
  BY DEF Onboard, Set, Persist
<1>5. ~IsApp(e)
  BY DEF IsApp, Envelope
<1> HIDE DEF e, R
<1> QED BY <1>3, <1>4, <1>5, OrderSubmitted

LEMMA OrderByOffboard ==
    ASSUME DaemonType, OrderInv, NEW g \in Groups, NEW w \in Wallets, Offboard(g, w)
    PROVE  OrderInv'
<1> USE DaemonAssumption
<1> DEFINE h == groups[Owner][g]
           id == commits + 1
           tree == h.tree \ {w}
           hist == h.hist
           new == Handle(Append(hist, id), tree, h.members \ {w})
           R == Recipients(new, Owner)
           e == Envelope("Commit", g, Owner, hist, tree, id, 0)
           ok == w \in roster[g] /\ Admissible(g, Owner, R) /\ NextEpoch(g, hist)
           o == IF ok THEN Persist ELSE Idle
<1>1. groups[Owner] \in Registries /\ h \in GroupState
  BY RegistryRows, SameTables DEF Offboard
<1>2. /\ mail' = IF ok THEN Deliver(R, e) ELSE mail
      /\ op' = [op EXCEPT ![Owner] = o] /\ op[Owner] = Idle
      /\ inbox' = inbox /\ shown' = shown /\ sent' = sent /\ commits < MaxCommits
  BY DEF Offboard, Set, Handle
<1>3. op[Owner].pc # "pending" /\ o.pc # "pending"
  BY <1>2 DEF Idle, Persist
<1>4. e \in Mailable
  <2>1. hist \in Histories /\ tree \in SUBSET Wallets
    BY <1>1, HandleParts
  <2> HIDE DEF tree, hist
  <2> QED BY <1>2, <2>1, CommitTyped
<1>5. ~IsApp(e)
  BY DEF IsApp, Envelope
<1> HIDE DEF e, o, R, ok
<1>6. mail' = Deliver(R, e) \/ mail' = mail
  BY <1>2
<1> QED BY <1>2, <1>3, <1>4, <1>5, <1>6, OrderSubmitted

LEMMA OrderByRedeemCommit ==
    ASSUME DaemonType, OrderInv, NEW w \in Wallets, RedeemCommit(w)
    PROVE  OrderInv'
<1> DEFINE i == invites[op[w].token]
           g == i.group
           id == commits + 1
           R == roster[g] \ {w}
           hist == i.hist
           tree == i.tree \cup {w}
           ok == Admissible(g, w, R) /\ NextEpoch(g, hist)
           e == Envelope("Commit", g, w, hist, tree, id, 0)
           o == IF ok THEN Persist ELSE Idle
<1>1. i \in Invite
  <2>1. op[w].token \in DOMAIN invites
    BY SameTables DEF RedeemCommit, OpFits
  <2> QED BY <2>1, InviteRows DEF DaemonType
<1>2. g \in Groups /\ hist \in Histories /\ tree \in SUBSET Wallets
  BY <1>1 DEF Invite
<1>3. /\ mail' = IF ok THEN Deliver(R, e) ELSE mail
      /\ op' = [op EXCEPT ![w] = o] /\ op[w].pc # "pending"
      /\ inbox' = inbox /\ shown' = shown /\ sent' = sent /\ commits < MaxCommits
  BY DEF RedeemCommit, Set, Handle
<1>4. o.pc # "pending"
  BY DEF Idle, Persist
<1>5. e \in Mailable
  <2> HIDE DEF tree, hist, g
  <2> QED BY <1>2, <1>3, CommitTyped
<1>6. ~IsApp(e)
  BY DEF IsApp, Envelope
<1> HIDE DEF e, o, R, ok
<1>7. mail' = Deliver(R, e) \/ mail' = mail
  BY <1>3
<1> QED BY <1>3, <1>4, <1>5, <1>6, <1>7, OrderSubmitted

LEMMA OrderBySend ==
    ASSUME DaemonType, OrderInv, NEW w \in Wallets, NEW g \in Groups, Send(w, g)
    PROVE  OrderInv'
<1> DEFINE h == groups[w][g]
           R == Recipients(h, w)
           ok == Admissible(g, w, R)
           m == [group |-> g, sender |-> w, hist |-> h.hist, gen |-> h.gen, accepted |-> ok,
                 roster |-> roster[g]]
           e == Envelope("Application", g, w, h.hist, {}, Len(sent'), h.gen)
           o == IF ok THEN Persist ELSE Idle
<1>1. groups[w] \in Registries /\ h \in GroupState
  BY RegistryRows, SameTables DEF Send
<1>2. /\ sent' = Append(sent, m) /\ mail' = IF ok THEN Deliver(R, e) ELSE mail
      /\ op' = [op EXCEPT ![w] = o] /\ op[w] = Idle /\ inbox' = inbox /\ shown' = shown
  BY DEF Send, Set, AfterSend
<1>3. m \in Message /\ m.group = g /\ m.roster = roster[g]
  <2>1. roster[g] \in SUBSET Wallets /\ ok \in BOOLEAN
    BY DEF DaemonType, Admissible
  <2> QED BY <1>1, <2>1, HandleParts DEF Message
<1> HIDE DEF m
<1>4. sent \in Seq(Message) /\ Len(sent') = Len(sent) + 1 /\ Len(sent') \in Nat
  BY <1>2, <1>3 DEF DaemonType
<1>5. e \in Mailable
  BY <1>1, <1>4, HandleParts, EnvelopeMailable
<1>6. e.id = Len(sent) + 1 /\ e.group = m.group
  BY <1>3, <1>4 DEF Envelope
<1>7. ok => R \subseteq m.roster
  BY <1>3 DEF Admissible
<1> HIDE DEF e, R, ok
<1>8. op[w].pc # "pending" /\ o.pc # "pending"
  BY <1>2 DEF Idle, Persist
<1> HIDE DEF o
<1> SUFFICES ASSUME NEW v \in Wallets
             PROVE  Orderly(v, Waiting(v)', shown'[v], sent')
  BY DEF OrderInv
<1>9. InHand(v)' = InHand(v)
  <2>1. CASE v = w
    <3>1. op'[v] = o
      BY <1>2, <2>1 DEF DaemonType
    <3> QED BY <1>2, <1>8, <2>1, <3>1 DEF InHand
  <2>2. CASE v # w
    <3>1. op'[v] = op[v]
      BY <1>2, <2>2 DEF DaemonType
    <3> QED BY <1>2, <3>1 DEF InHand
  <2> QED BY <2>1, <2>2
<1> DEFINE s == Waiting(v)
           sh == shown[v]
<1>10. s = Line(op[v], inbox[v], mail[v]) /\ op[v] \in Operations /\ inbox[v] \in Seq(Mailable) /\ mail[v] \in Seq(Mailable)
       /\ sh \in Seq(Nat) /\ shown'[v] = sh
  BY <1>2, WaitingLine DEF DaemonType
<1>11. s \in Seq(Mailable) /\ Line(op[v], inbox[v], Append(mail[v], e)) = Append(s, e)
  BY <1>5, <1>10, LineTyped
<1>12. Orderly(v, s, sh, sent)
  BY DEF OrderInv
<1>13. \/ mail'[v] = mail[v]
       \/ mail'[v] = Append(mail[v], e) /\ ok /\ v \in R
  <2>1. CASE ok
    <3>1. mail \in [Wallets -> Seq(Mailable)]
      BY DEF DaemonType
    <3>2. Deliver(R, e)[v] = IF v \in R THEN Append(mail[v], e) ELSE mail[v]
      BY <1>5, <3>1, Delivered
    <3> QED BY <1>2, <2>1, <3>2
  <2>2. CASE ~ok
    BY <1>2, <2>2
  <2> QED BY <2>1, <2>2
<1>14. CASE mail'[v] = mail[v]
  <2>1. Waiting(v)' = s
    BY <1>9, <1>14 DEF Waiting
  <2> HIDE DEF s, sh
  <2>2. Orderly(v, s, sh, Append(sent, m))
    BY <1>3, <1>4, <1>12, OrderlySent
  <2> QED BY <1>2, <1>10, <2>1, <2>2
<1>15. CASE mail'[v] = Append(mail[v], e) /\ ok /\ v \in R
  <2>1. Waiting(v)' = Append(s, e)
    <3>1. Waiting(v)' = InHand(v) \o Append(mail[v], e)
      BY <1>9, <1>15 DEF Waiting
    <3>2. Line(op[v], inbox[v], Append(mail[v], e)) = InHand(v) \o Append(mail[v], e)
      BY DEF Line, InHand
    <3> QED BY <1>11, <3>1, <3>2
  <2>2. v \in m.roster
    BY <1>7, <1>15
  <2> HIDE DEF s, sh
  <2>3. Orderly(v, Append(s, e), sh, Append(sent, m))
    BY <1>3, <1>4, <1>5, <1>6, <1>10, <1>11, <1>12, <2>2, OrderlyNew
  <2> QED BY <1>2, <1>10, <2>1, <2>3
<1> QED BY <1>13, <1>14, <1>15

LEMMA OrderByPoll ==
    ASSUME DaemonType, OrderInv, NEW w \in Wallets, NEW g \in Groups, NEW k \in 0..Len(mail[w]), Poll(w, g, k)
    PROVE  OrderInv'
<1> DEFINE all == TakeInbox(w, k)
           h == groups[w][g]
           res == PollLoop(g, h, all)[Len(all)]
           o == IF res.changed THEN Persist ELSE Idle
           m == SubSeq(mail[w], k + 1, Len(mail[w]))
           keep == res.keep
           box == Stash(groups[w], keep)
           ids == res.out
           sh == shown[w]
<1>1. groups[w] \in Registries /\ h \in GroupState
  BY RegistryRows, SameTables DEF Poll
<1>2. all \in Seq(Mailable) /\ m \in Seq(Mailable)
  BY Fetched
<1>3. LoopFact(res, g, h, all, Len(all))
  <2> HIDE DEF all, h
  <2> QED BY <1>1, <1>2, PollResult
<1>4. /\ inbox' = [inbox EXCEPT ![w] = box]
      /\ shown' = IF res.failed THEN shown ELSE [shown EXCEPT ![w] = sh \o ids]
      /\ op' = [op EXCEPT ![w] = o] /\ mail' = [mail EXCEPT ![w] = m] /\ op[w] = Idle /\ sent' = sent
  BY DEF Poll, Set
<1> HIDE DEF res
<1>5. /\ keep \in Seq(Mailable) /\ ids \in Seq(Nat) /\ From(keep, all, Len(all)) /\ Taken(ids, g, all, Len(all))
      /\ ~res.failed => \A n \in DOMAIN keep : keep[n].group # g
  BY <1>3 DEF LoopFact, Accumulator
<1>6. op[w].pc # "pending" /\ o.pc # "pending" /\ sh \in Seq(Nat)
  BY <1>4 DEF Idle, Persist, DaemonType
<1> HIDE DEF o, keep, ids
<1>7. box \in Seq(Mailable) /\ Within(box, keep)
  BY <1>5, WithinStash
<1>8. Within(keep, all)
  <2>1. DOMAIN all = 1..Len(all)
    <3> HIDE DEF all
    <3> QED BY <1>2
  <2> HIDE DEF all
  <2> QED BY <1>5, <2>1 DEF From, Within
<1> HIDE DEF box
<1>9. Within(box, all)
  <2> HIDE DEF all
  <2> QED BY <1>7, <1>8, WithinSome
<1>10. /\ Orderly(w, box \o m, sh, sent) /\ Orderly(w, all \o m, sh, sent)
  BY <1>6, <1>7, <1>9, OrderFetched
<1>11. Line(o, box, m) = box \o m
  BY <1>6 DEF Line
<1> HIDE DEF all, m
<1>12. ~res.failed => Orderly(w, box \o m, sh \o ids, sent)
  <2> SUFFICES ASSUME ~res.failed PROVE Orderly(w, box \o m, sh \o ids, sent)
    OBVIOUS
  <2> HIDE DEF sh
  <2> QED BY <1>2, <1>5, <1>6, <1>7, <1>10, OrderlyPolled
<1>13. Orderly(w, Line(o, box, m), shown'[w], sent) /\ \A v \in Wallets \ {w} : shown'[v] = shown[v]
  <2>1. CASE res.failed
    BY <1>4, <1>10, <1>11, <2>1
  <2>2. CASE ~res.failed
    <3>1. shown'[w] = sh \o ids /\ \A v \in Wallets \ {w} : shown'[v] = shown[v]
      BY <1>4, <2>2 DEF DaemonType
    <3> QED BY <1>11, <1>12, <2>2, <3>1
  <2> QED BY <2>1, <2>2
<1> QED BY <1>4, <1>13, OthersWait

(* A call of w that fetches, keeps some, and shows nothing.                *)
LEMMA OrderByFetch ==
    ASSUME DaemonType, OrderInv, NEW w \in Wallets, NEW k \in 0..Len(mail[w]), op[w] = Idle,
           NEW t \in Seq(Mailable), Within(t, TakeInbox(w, k)), NEW o, NEW box,
           op' = [op EXCEPT ![w] = o], inbox' = [inbox EXCEPT ![w] = box],
           mail' = [mail EXCEPT ![w] = SubSeq(mail[w], k + 1, Len(mail[w]))],
           \A m : Line(o, box, m) = t \o m, sent' = sent, shown' = shown
    PROVE  OrderInv'
<1> DEFINE m == SubSeq(mail[w], k + 1, Len(mail[w]))
<1>1. op[w].pc # "pending"
  BY DEF Idle
<1>2. Orderly(w, t \o m, shown[w], sent)
  BY <1>1, OrderFetched
<1>3. Orderly(w, Line(o, box, m), shown'[w], sent) /\ mail' = [mail EXCEPT ![w] = m]
  BY <1>2
<1>4. \A v \in Wallets \ {w} : shown'[v] = shown[v]
  OBVIOUS
<1> HIDE DEF m
<1> QED BY <1>3, <1>4, OthersWait

LEMMA OrderByJoinGroup ==
    ASSUME DaemonType, OrderInv, NEW w \in Wallets, NEW g \in Groups, NEW k \in 0..Len(mail[w]), JoinGroup(w, g, k)
    PROVE  OrderInv'
<1> DEFINE all == TakeInbox(w, k)
           m == SubSeq(mail[w], k + 1, Len(mail[w]))
           pos == {i \in DOMAIN all : IsWelcomeFor(g, all[i])}
<1>1. all \in Seq(Mailable) /\ m \in Seq(Mailable)
  BY Fetched
<1>2. \E t, o : /\ t \in Seq(Mailable) /\ Within(t, all) /\ o.pc # "pending"
                /\ op' = [op EXCEPT ![w] = o] /\ inbox' = [inbox EXCEPT ![w] = Stash(groups[w], t)]
  <2>1. CASE pos = {}
    <3>1. inbox' = [inbox EXCEPT ![w] = Stash(groups[w], all)] /\ op' = [op EXCEPT ![w] = op[w]] /\ op[w] = Idle
      BY <2>1, SameTables DEF JoinGroup, Set
    <3>2. op[w].pc # "pending" /\ Within(all, all)
      BY <3>1, WithinSame DEF Idle
    <3> HIDE DEF all
    <3> QED BY <1>1, <3>1, <3>2
  <2>2. CASE pos # {}
    <3> DEFINE i == CHOOSE i \in pos : \A j \in pos : i <= j
               t == RemoveAt(all, i)
               o == [pc |-> "welcome", env |-> all[i]]
    <3>1. i \in pos
      <4>1. pos \in SUBSET Nat
        BY <1>1
      <4> HIDE DEF pos
      <4> QED BY <2>2, <4>1, LeastElement
    <3>2. /\ inbox' = [inbox EXCEPT ![w] = Stash(groups[w], t)]
          /\ op' = [op EXCEPT ![w] = o] /\ o.pc # "pending"
      BY <2>2 DEF JoinGroup, Set
    <3>3. i \in DOMAIN all
      BY <3>1
    <3> HIDE DEF i, all, o
    <3>4. t \in Seq(Mailable) /\ Within(t, all)
      BY <1>1, <3>3, WithinRemoved
    <3> HIDE DEF t
    <3> QED BY <3>2, <3>4
  <2> QED BY <2>1, <2>2
<1>3. PICK t, o : /\ t \in Seq(Mailable) /\ Within(t, all) /\ o.pc # "pending"
                 /\ op' = [op EXCEPT ![w] = o] /\ inbox' = [inbox EXCEPT ![w] = Stash(groups[w], t)]
  BY <1>2
<1> DEFINE box == Stash(groups[w], t)
<1>4. box \in Seq(Mailable) /\ Within(box, t)
  BY <1>3, WithinStash
<1>5. Within(box, all)
  BY <1>3, <1>4, WithinSome
<1>6. op[w] = Idle /\ mail' = [mail EXCEPT ![w] = m] /\ sent' = sent /\ shown' = shown
  BY DEF JoinGroup, Set
<1>7. \A n : Line(o, box, n) = box \o n
  BY <1>3 DEF Line
<1> HIDE DEF box
<1>8. inbox' = [inbox EXCEPT ![w] = box] /\ op' = [op EXCEPT ![w] = o]
  BY <1>3 DEF box
<1> QED BY <1>4, <1>5, <1>6, <1>7, <1>8, OrderByFetch

LEMMA OrderByJoinPending ==
    ASSUME DaemonType, OrderInv, NEW w \in Wallets, NEW k \in 0..Len(mail[w]), JoinPending(w, k)
    PROVE  OrderInv'
<1> DEFINE all == TakeInbox(w, k)
           m == SubSeq(mail[w], k + 1, Len(mail[w]))
           o == [pc |-> "pending", todo |-> all, rest |-> <<>>]
           box == <<>>
<1>1. all \in Seq(Mailable) /\ m \in Seq(Mailable) /\ Within(all, all)
  BY Fetched, WithinSame
<1>2. /\ op[w] = Idle /\ op' = [op EXCEPT ![w] = o] /\ inbox' = [inbox EXCEPT ![w] = box]
      /\ mail' = [mail EXCEPT ![w] = m] /\ sent' = sent /\ shown' = shown
  BY DEF JoinPending, Set
<1>3. o.rest \o o.todo = all
  <2>1. o.rest = <<>> /\ o.todo = all
    OBVIOUS
  <2> HIDE DEF all
  <2> QED BY <1>1, <2>1, ConcatEmptySeq
<1>4. \A n : Line(o, box, n) = all \o n
  BY <1>3 DEF Line
<1> HIDE DEF o, box
<1>5. all \in Seq(Mailable) /\ Within(all, TakeInbox(w, k))
  BY <1>1
<1> QED BY <1>2, <1>4, <1>5, OrderByFetch

LEMMA OrderByRestart ==
    ASSUME DaemonType, OrderInv, NEW w \in Wallets, NEW k \in 0..Len(mail[w]), Restart(w, k)
    PROVE  OrderInv'
<1> DEFINE s == mail[w]
           m == SubSeq(s, k + 1, Len(s))
           hand == InHand(w)
           box == <<>>
<1>1. /\ op' = [op EXCEPT ![w] = Idle] /\ inbox' = [inbox EXCEPT ![w] = box]
      /\ mail' = [mail EXCEPT ![w] = m] /\ sent' = sent /\ shown' = shown
  BY DEF Restart, Set
<1>2. s \in Seq(Mailable) /\ k + 1 \in 1..Len(s) + 1 /\ Len(s) \in 0..Len(s)
  BY DEF DaemonType
<1>3. m \in Seq(Mailable) /\ Within(m, s)
  <2> HIDE DEF s
  <2> QED BY <1>2, WithinStretch
<1>4. hand \in Seq(Mailable)
  <2>1. CASE op[w].pc = "pending"
    <3> DEFINE r == op[w].rest
               t == op[w].todo
    <3>1. r \in Seq(Mailable) /\ t \in Seq(Mailable) /\ hand = r \o t
      BY <2>1, OperationParts, SameTables DEF InHand
    <3> HIDE DEF r, t, hand
    <3> QED BY <3>1, Joined
  <2>2. CASE op[w].pc # "pending"
    BY <2>2 DEF InHand, DaemonType
  <2> QED BY <2>1, <2>2
<1>5. Waiting(w) = hand \o s /\ Orderly(w, Waiting(w), shown[w], sent)
  BY DEF Waiting, OrderInv
<1> HIDE DEF hand, s, m
<1>6. Within(<<>> \o m, hand \o s)
  <2>1. <<>> \in Seq(Mailable) /\ Within(<<>>, hand)
    <3>1. [n \in {} |-> 0] \in [DOMAIN <<>> -> DOMAIN hand]
      OBVIOUS
    <3>2. \A n \in DOMAIN <<>> : FALSE
      OBVIOUS
    <3>3. Within(<<>>, hand)
      BY <3>1, <3>2 DEF Within
    <3> QED BY <3>3
  <2> QED BY <1>2, <1>3, <1>4, <2>1, WithinJoined
<1>7. Orderly(w, <<>> \o m, shown[w], sent)
  <2> DEFINE x == hand \o s
             y == <<>> \o m
  <2>1. x \in Seq(Mailable)
    BY <1>2, <1>4, Joined
  <2> HIDE DEF x, y
  <2>2. DOMAIN x \subseteq Nat
    BY <2>1
  <2>3. Within(y, x) /\ Orderly(w, x, shown[w], sent)
    BY <1>5, <1>6 DEF x, y
  <2>4. Orderly(w, y, shown[w], sent)
    BY <2>2, <2>3, OrderlyLess
  <2> QED BY <2>4 DEF y
<1>8. Line(Idle, box, m) = <<>> \o m
  BY DEF Line, Idle
<1>9. Orderly(w, Line(Idle, box, m), shown'[w], sent) /\ \A v \in Wallets \ {w} : shown'[v] = shown[v]
  BY <1>1, <1>7, <1>8
<1> HIDE DEF box
<1> QED BY <1>1, <1>9, OthersWait

(* The first item and the others.                                          *)
LEMMA HeadThenTail ==
    ASSUME NEW T, NEW s \in Seq(T), s # <<>>
    PROVE  /\ s = <<Head(s)>> \o Tail(s) /\ <<Head(s)>> \in Seq(T)
           /\ Head(s) \in T /\ Tail(s) \in Seq(T) /\ Within(Tail(s), s)
<1>1. Len(s) \in Nat \ {0}
  BY EmptySeq
<1>2. 1 \in 1..Len(s) /\ Len(s) \in 1..Len(s) /\ 2 \in 1..Len(s) + 1 /\ Len(s) \in 0..Len(s)
  BY <1>1
<1>3. SubSeq(s, 1, Len(s)) = <<s[1]>> \o SubSeq(s, 2, Len(s))
  <2>1. 1 + 1 = 2
    OBVIOUS
  <2>2. SubSeq(s, 1, Len(s)) = <<s[1]>> \o SubSeq(s, 1 + 1, Len(s))
    BY <1>2, SubSeqRecursiveFirst
  <2> QED BY <2>1, <2>2
<1>4. Tail(s) = SubSeq(s, 2, Len(s)) /\ Head(s) = s[1] /\ Head(s) \in T /\ Tail(s) \in Seq(T)
  BY TailIsSubSeq, HeadTailProperties
<1>5. SubSeq(s, 1, Len(s)) = s
  BY SubSeqFull
<1>6. Within(Tail(s), s)
  BY <1>2, <1>4, WithinStretch
<1> QED BY <1>3, <1>4, <1>5, <1>6

LEMMA OrderByJoinPendingNext ==
    ASSUME DaemonType, OrderInv, NEW w \in Wallets, JoinPendingNext(w)
    PROVE  OrderInv'
<1> DEFINE e == Head(op[w].todo)
           t == Tail(op[w].todo)
           s == op[w].rest
           y == op[w].todo
           m == mail[w]
           box == inbox[w]
<1>1. /\ y \in Seq(Mailable) /\ y # <<>> /\ e \in Mailable /\ t \in Seq(Mailable) /\ s \in Seq(Mailable)
      /\ \/ op' = [op EXCEPT ![w] = [pc |-> "pending", todo |-> t, rest |-> s]]
         \/ op' = [op EXCEPT ![w] = [pc |-> "pending", todo |-> t, rest |-> Append(s, e)]]
  BY PendingStep
<1>2. m \in Seq(Mailable)
  BY DEF DaemonType
<1>3. Orderly(w, (s \o y) \o m, shown[w], sent)
  BY DEF OrderInv, Waiting, InHand, JoinPendingNext
<1>4. /\ inbox' = [inbox EXCEPT ![w] = box] /\ mail' = [mail EXCEPT ![w] = m] /\ shown' = shown /\ sent' = sent
  BY DEF JoinPendingNext, relayVars, DaemonType
<1>5. y = <<e>> \o t /\ <<e>> \in Seq(Mailable) /\ Within(t, y)
  <2> DEFINE z == op[w].todo
  <2>1. z \in Seq(Mailable) /\ z # <<>>
    BY <1>1
  <2> HIDE DEF z
  <2>2. z = <<Head(z)>> \o Tail(z) /\ <<Head(z)>> \in Seq(Mailable) /\ Within(Tail(z), z)
    BY <2>1, HeadThenTail
  <2> QED BY <2>2 DEF z
<1> HIDE DEF e, t, s, y, m, box
<1>6. \E r \in Seq(Mailable) : /\ op' = [op EXCEPT ![w] = [pc |-> "pending", todo |-> t, rest |-> r]]
                               /\ Orderly(w, (r \o t) \o m, shown[w], sent)
  <2>1. CASE op' = [op EXCEPT ![w] = [pc |-> "pending", todo |-> t, rest |-> s]]
    <3> DEFINE a == s \o y
               b == s \o t
               c == a \o m
               d == b \o m
    <3>1. a \in Seq(Mailable) /\ b \in Seq(Mailable)
      BY <1>1, Joined
    <3>2. Within(s, s) /\ Within(m, m)
      BY WithinSame
    <3>3. Within(b, a)
      BY <1>1, <1>5, <3>2, WithinJoined
    <3> HIDE DEF a, b
    <3>4. c \in Seq(Mailable) /\ Within(d, c)
      <4>1. c \in Seq(Mailable)
        BY <1>2, <3>1, Joined
      <4>2. Within(d, c)
        BY <1>2, <3>1, <3>2, <3>3, WithinJoined
      <4> QED BY <4>1, <4>2
    <3>5. Orderly(w, c, shown[w], sent)
      BY <1>3 DEF a
    <3> HIDE DEF c, d
    <3>6. DOMAIN c \subseteq Nat
      BY <3>4
    <3>7. Orderly(w, d, shown[w], sent)
      BY <3>4, <3>5, <3>6, OrderlyLess
    <3> QED BY <1>1, <2>1, <3>7 DEF d, b
  <2>2. CASE op' = [op EXCEPT ![w] = [pc |-> "pending", todo |-> t, rest |-> Append(s, e)]]
    <3> DEFINE r == Append(s, e)
               one == <<e>>
    <3>1. r \in Seq(Mailable) /\ r = s \o one
      BY <1>1, AppendProperties, AppendIsConcat
    <3>2. one \in Seq(Mailable) /\ y = one \o t
      BY <1>5
    <3> HIDE DEF one, r
    <3>3. r \o t = s \o y
      <4>1. (s \o one) \o t = s \o (one \o t)
        BY <1>1, <3>2, ConcatAssociative
      <4> QED BY <3>1, <3>2, <4>1
    <3>4. op' = [op EXCEPT ![w] = [pc |-> "pending", todo |-> t, rest |-> r]]
      BY <2>2 DEF r
    <3> QED BY <1>3, <3>1, <3>3, <3>4
  <2> QED BY <1>1, <2>1, <2>2
<1>7. PICK r \in Seq(Mailable) : /\ op' = [op EXCEPT ![w] = [pc |-> "pending", todo |-> t, rest |-> r]]
                                 /\ Orderly(w, (r \o t) \o m, shown[w], sent)
  BY <1>6
<1> DEFINE o == [pc |-> "pending", todo |-> t, rest |-> r]
<1>8. Line(o, box, m) = (r \o t) \o m
  BY DEF Line
<1>9. op' = [op EXCEPT ![w] = o] /\ Orderly(w, Line(o, box, m), shown'[w], sent)
      /\ \A v \in Wallets \ {w} : shown'[v] = shown[v]
  BY <1>4, <1>7, <1>8
<1> HIDE DEF o
<1> QED BY <1>4, <1>9, OthersWait

LEMMA OrderByJoinPendingEnd ==
    ASSUME DaemonType, OrderInv, NEW w \in Wallets, JoinPendingEnd(w)
    PROVE  OrderInv'
<1> DEFINE s == op[w].rest
           m == mail[w]
           box == Stash(groups[w], s)
           none == <<>>
<1>1. s \in Seq(Mailable) /\ m \in Seq(Mailable) /\ op[w].todo = none /\ none \in Seq(Mailable)
  <2>1. op[w].rest \in Seq(Mailable)
    BY OperationParts, SameTables DEF JoinPendingEnd
  <2> QED BY <2>1 DEF DaemonType, JoinPendingEnd
<1>2. Orderly(w, (s \o none) \o m, shown[w], sent)
  BY DEF OrderInv, Waiting, InHand, JoinPendingEnd
<1>3. /\ op' = [op EXCEPT ![w] = Idle] /\ inbox' = [inbox EXCEPT ![w] = box]
      /\ mail' = [mail EXCEPT ![w] = m] /\ shown' = shown /\ sent' = sent
  BY DEF JoinPendingEnd, Set, relayVars, DaemonType
<1> HIDE DEF s, m
<1>4. s \o none = s
  BY <1>1, ConcatEmptySeq
<1>5. box \in Seq(Mailable) /\ Within(box, s)
  BY <1>1, WithinStash
<1> HIDE DEF box, none
<1> DEFINE c == s \o m
           d == box \o m
<1>6. c \in Seq(Mailable) /\ Within(d, c) /\ Orderly(w, c, shown[w], sent)
  <2>1. c \in Seq(Mailable)
    BY <1>1, Joined
  <2>2. Within(m, m)
    BY WithinSame
  <2>3. Within(d, c)
    BY <1>1, <1>5, <2>2, WithinJoined
  <2> QED BY <1>2, <1>4, <2>1, <2>3
<1>7. Line(Idle, box, m) = d
  BY DEF Line, Idle
<1> HIDE DEF c, d
<1>8. DOMAIN c \subseteq Nat
  BY <1>6
<1>9. Orderly(w, d, shown[w], sent)
  BY <1>6, <1>8, OrderlyLess
<1>10. Orderly(w, Line(Idle, box, m), shown'[w], sent) /\ \A v \in Wallets \ {w} : shown'[v] = shown[v]
  BY <1>3, <1>7, <1>9
<1> QED BY <1>3, <1>10, OthersWait

LEMMA OrderInit ==
    ASSUME Init
    PROVE  OrderInv
<1> SUFFICES ASSUME NEW w \in Wallets PROVE Orderly(w, Waiting(w), shown[w], sent)
  BY DEF OrderInv
<1>1. Waiting(w) = <<>> \o <<>> /\ shown[w] = <<>>
  BY DEF Init, Waiting, InHand, Idle
<1>2. <<>> \o <<>> = <<>> /\ DOMAIN <<>> = {}
  <2>1. <<>> \in Seq(Nat)
    OBVIOUS
  <2> QED BY <2>1, ConcatEmptySeq
<1> DEFINE none == <<>>
<1>3. DOMAIN none = {} /\ Waiting(w) = none /\ shown[w] = none
  BY <1>1, <1>2
<1> HIDE DEF none
<1> QED BY <1>3 DEF Orderly, Grounded, Rising, Past, Ahead

LEMMA OrderNext ==
    ASSUME DaemonType, DaemonType', OrderInv, [Next]_vars
    PROVE  OrderInv'
<1>1. CASE UNCHANGED vars
  <2>1. UNCHANGED <<op, inbox, mail, shown, sent>>
    BY <1>1 DEF vars, daemonVars, relayVars
  <2> QED BY <2>1 DEF OrderInv, Waiting, InHand
<1>2. CASE Next
  <2>1. CASE \/ \E g \in Groups : CreateGroup(g)
             \/ \E g \in Groups, w \in Wallets : AddMember(g, w)
             \/ \E w \in Wallets : JoinGroupFinish(w)
             \/ \E g \in Groups, t \in Tokens : PublishInvite(g, t)
             \/ \E w \in Wallets, t \in Tokens : RedeemInvite(w, t)
             \/ \E w \in Wallets : PersistState(w)
    BY <2>1, OrderByQuiet
  <2> QED BY <1>2, <2>1, OrderBySubmitAdd, OrderByOnboard, OrderByOffboard, OrderByRedeemCommit, OrderBySend,
             OrderByPoll, OrderByJoinGroup, OrderByJoinPending, OrderByJoinPendingNext,
             OrderByJoinPendingEnd, OrderByRestart DEF Next
<1> QED BY <1>1, <1>2

(* What waits for a member rises within the whole line of its mailbox,     *)
(* its inbox and the loop of poll_messages, and is later than anything     *)
(* shown of its group; who was shown a message was in the group when it    *)
(* was sent.                                                               *)
THEOREM DaemonOrdered == Spec => []OrderInv
<1> QED BY DaemonTyped, OrderInit, OrderNext, PTL DEF Spec

-----------------------------------------------------------------------------
(* The keys of messages.                                                   *)

(* A message of w that the relay accepted.                                 *)
Spent(i, w, st) == i \in DOMAIN st /\ st[i].accepted /\ st[i].sender = w

(* The registry reg of w is past every key with which w has had a message  *)
(* accepted.                                                               *)
Covers(reg, w, st) ==
    \A i \in DOMAIN st : Spent(i, w, st) =>
        /\ st[i].group \in DOMAIN reg
        /\ Len(st[i].hist) <= Len(reg[st[i].group].hist)
        /\ st[i].hist = reg[st[i].group].hist => st[i].gen < reg[st[i].group].gen

KeyInv ==
    /\ \A i \in DOMAIN sent : Spent(i, Owner, sent) => Owner \in roster[sent[i].group]
    /\ ~torn => \A w \in Wallets : /\ Covers(groups[w], w, sent)
                                   /\ op[w] # Persist => Covers(disk[w], w, sent)
    /\ AcceptedOnce

Later(h, old) == (h.hist = old.hist /\ old.gen <= h.gen) \/ Len(old.hist) < Len(h.hist)

(* A handle may be put where nothing was sent, or where it moves on.       *)
LEMMA CoversPut ==
    ASSUME NEW r \in Registries, NEW w, NEW st \in Seq(Message), NEW g \in Groups, NEW h \in GroupState,
           Covers(r, w, st),
           \/ \A i \in DOMAIN st : Spent(i, w, st) => st[i].group # g
           \/ g \in DOMAIN r /\ Later(h, r[g])
    PROVE  Covers(Put(r, g, h), w, st)
<1> DEFINE p == Put(r, g, h)
<1>1. /\ DOMAIN p = DOMAIN r \union {g} /\ p[g] = h /\ \A f \in DOMAIN r \ {g} : p[f] = r[f]
  BY PutRegistry
<1> HIDE DEF p
<1> SUFFICES ASSUME NEW i \in DOMAIN st, Spent(i, w, st)
             PROVE  /\ st[i].group \in DOMAIN p
                    /\ Len(st[i].hist) <= Len(p[st[i].group].hist)
                    /\ st[i].hist = p[st[i].group].hist => st[i].gen < p[st[i].group].gen
  BY DEF Covers, p
<1> DEFINE f == st[i].group
           sh == st[i].hist
           sg == st[i].gen
<1>2. f \in DOMAIN r /\ Len(sh) <= Len(r[f].hist) /\ (sh = r[f].hist => sg < r[f].gen)
  BY DEF Covers
<1>3. CASE f # g
  BY <1>1, <1>2, <1>3
<1>4. CASE f = g
  <2>1. Later(h, r[g]) /\ r[g] \in GroupState
    BY <1>2, <1>4, RegistryRows
  <2>2. sh \in Histories /\ sg \in Nat
    <3>1. st[i] \in Message
      OBVIOUS
    <3> QED BY <3>1 DEF Message
  <2>3. Len(sh) \in Nat
    BY <2>2 DEF Histories
  <2> DEFINE old == r[g]
  <2>4. Len(h.hist) \in Nat /\ Len(old.hist) \in Nat /\ h.gen \in Nat /\ old.gen \in Nat
    BY <2>1, HandleParts
  <2>5. Len(sh) <= Len(old.hist) /\ (sh = old.hist => sg < old.gen) /\ Later(h, old)
    BY <1>2, <1>4, <2>1
  <2> HIDE DEF old, sh, sg
  <2>6. Len(sh) <= Len(h.hist) /\ (sh = h.hist => sg < h.gen)
    <3>1. CASE h.hist = old.hist /\ old.gen <= h.gen
      BY <2>2, <2>4, <2>5, <3>1
    <3>2. CASE Len(old.hist) < Len(h.hist)
      BY <2>3, <2>4, <2>5, <3>2
    <3> QED BY <2>5, <3>1, <3>2 DEF Later
  <2> QED BY <1>1, <1>4, <2>6 DEF sh, sg
<1> QED BY <1>3, <1>4

(* A step of one daemon in which nothing is sent.                          *)
LEMMA KeyStep ==
    ASSUME DaemonType, KeyInv, NEW w \in Wallets, NEW r, NEW d, NEW o,
           groups' = [groups EXCEPT ![w] = r], disk' = [disk EXCEPT ![w] = d], op' = [op EXCEPT ![w] = o],
           sent' = sent, \A g \in Groups : Owner \in roster[g] => Owner \in roster'[g],
           torn => torn',
           ~torn /\ ~torn' /\ Covers(groups[w], w, sent)
               => Covers(r, w, sent) /\ (o # Persist => Covers(d, w, sent))
    PROVE  KeyInv'
<1>1. \A i \in DOMAIN sent' : Spent(i, Owner, sent') => Owner \in roster'[sent'[i].group]
  <2>1. \A i \in DOMAIN sent : sent[i].group \in Groups
    <3>1. \A i \in DOMAIN sent : sent[i] \in Message
      BY DEF DaemonType
    <3> QED BY <3>1 DEF Message
  <2> QED BY <2>1 DEF KeyInv, Spent
<1>2. AcceptedOnce'
  BY DEF KeyInv, AcceptedOnce, SameKey
<1>3. ASSUME ~torn', NEW v \in Wallets
      PROVE  Covers(groups'[v], v, sent') /\ (op'[v] # Persist => Covers(disk'[v], v, sent'))
  <2>1. CASE v = w
    <3>1. groups'[v] = r /\ disk'[v] = d /\ op'[v] = o
      BY <2>1 DEF DaemonType
    <3>2. Covers(groups[w], w, sent) /\ ~torn
      BY <1>3 DEF KeyInv
    <3> QED BY <1>3, <2>1, <3>1, <3>2
  <2>2. CASE v # w
    <3>1. groups'[v] = groups[v] /\ disk'[v] = disk[v] /\ op'[v] = op[v]
      BY <2>2 DEF DaemonType
    <3> QED BY <1>3, <3>1 DEF KeyInv
  <2> QED BY <2>1, <2>2
<1> QED BY <1>1, <1>2, <1>3 DEF KeyInv

(* ... that leaves its registry and its state file alone.                  *)
LEMMA KeyQuiet ==
    ASSUME DaemonType, KeyInv, NEW w \in Wallets, NEW o, op' = [op EXCEPT ![w] = o], o = Persist \/ op[w] # Persist,
           UNCHANGED <<groups, disk, sent, torn>>, \A g \in Groups : Owner \in roster[g] => Owner \in roster'[g]
    PROVE  KeyInv'
<1> DEFINE r == groups[w]
           d == disk[w]
<1>1. groups' = [groups EXCEPT ![w] = r] /\ disk' = [disk EXCEPT ![w] = d]
  BY DEF DaemonType
<1>2. ~torn => Covers(r, w, sent) /\ (o # Persist => Covers(d, w, sent))
  BY DEF KeyInv
<1>3. sent' = sent /\ (torn => torn')
  OBVIOUS
<1>4. ~torn /\ ~torn' /\ Covers(groups[w], w, sent) => Covers(r, w, sent) /\ (o # Persist => Covers(d, w, sent))
  BY <1>2
<1> HIDE DEF r, d
<1> QED BY <1>1, <1>3, <1>4, KeyStep

LEMMA KeyByQuiet ==
    ASSUME DaemonType, KeyInv,
           \/ \E g \in Groups, w \in Wallets : AddMember(g, w)
           \/ Onboard
           \/ \E w \in Wallets, g \in Groups : \E k \in 0..Len(mail[w]) : JoinGroup(w, g, k)
           \/ \E w \in Wallets : \E k \in 0..Len(mail[w]) : JoinPending(w, k)
           \/ \E w \in Wallets : JoinPendingEnd(w)
           \/ \E g \in Groups, t \in Tokens : PublishInvite(g, t)
           \/ \E w \in Wallets, t \in Tokens : RedeemInvite(w, t)
    PROVE  KeyInv'
<1> USE DaemonAssumption
<1> DEFINE Quiet == \E w \in Wallets : \E o : /\ op' = [op EXCEPT ![w] = o] /\ (o = Persist \/ op[w] # Persist)
                                             /\ UNCHANGED <<groups, disk, sent, torn>>
                                             /\ \A g \in Groups : Owner \in roster[g] => Owner \in roster'[g]
<1>1. Quiet
  <2>0. Idle # Persist /\ Idle.pc = "idle" /\ Persist.pc = "persist"
    BY DEF Idle, Persist
  <2>1. ASSUME NEW g \in Groups, NEW w \in Wallets, AddMember(g, w) PROVE Quiet
    <3> DEFINE o == [pc |-> "commit", group |-> g, who |-> w]
    <3>1. op' = [op EXCEPT ![Owner] = o]
      BY <2>1 DEF AddMember, Set
    <3> HIDE DEF o
    <3> QED BY <2>0, <2>1, <3>1 DEF AddMember
  <2>2. ASSUME Onboard PROVE Quiet
    <3> DEFINE f == op[Owner].group
               x == op[Owner].who
    <3>1. op' = [op EXCEPT ![Owner] = Persist] /\ UNCHANGED <<groups, disk, sent, torn>>
          /\ roster' = [roster EXCEPT ![f] = roster[f] \cup {x}]
      BY <2>2 DEF Onboard, Set
    <3> HIDE DEF f, x
    <3>2. \A g \in Groups : Owner \in roster[g] => Owner \in roster'[g]
      BY <3>1 DEF DaemonType
    <3> QED BY <3>1, <3>2
  <2>3. ASSUME NEW w \in Wallets, NEW g \in Groups, NEW k \in 0..Len(mail[w]), JoinGroup(w, g, k) PROVE Quiet
    <3>1. op[w] = Idle /\ UNCHANGED <<groups, disk, sent, torn, roster>>
      BY <2>3 DEF JoinGroup
    <3>2. \E o : op' = [op EXCEPT ![w] = o]
      <4>1. op = [op EXCEPT ![w] = op[w]]
        BY SameTables
      <4> QED BY <2>3, <4>1 DEF JoinGroup, Set
    <3> QED BY <2>0, <3>1, <3>2
  <2>4. ASSUME NEW w \in Wallets, NEW k \in 0..Len(mail[w]), JoinPending(w, k) PROVE Quiet
    <3> DEFINE o == [pc |-> "pending", todo |-> TakeInbox(w, k), rest |-> <<>>]
    <3>1. op' = [op EXCEPT ![w] = o]
      BY <2>4 DEF JoinPending, Set
    <3> HIDE DEF o
    <3> QED BY <2>0, <2>4, <3>1 DEF JoinPending
  <2>5. ASSUME NEW w \in Wallets, JoinPendingEnd(w) PROVE Quiet
    <3>1. op[w].pc = "pending" /\ op' = [op EXCEPT ![w] = Idle] /\ UNCHANGED <<groups, disk, sent, torn, roster>>
      BY <2>5 DEF JoinPendingEnd, relayVars, Set
    <3>2. op[w] # Persist
      BY <2>0, <3>1
    <3> QED BY <3>1, <3>2
  <2>6. ASSUME NEW g \in Groups, NEW t \in Tokens, PublishInvite(g, t) PROVE Quiet
    BY <2>0, <2>6, SameTables DEF PublishInvite, daemonVars
  <2>7. ASSUME NEW w \in Wallets, NEW t \in Tokens, RedeemInvite(w, t) PROVE Quiet
    <3> DEFINE o == [pc |-> "redeem", token |-> t]
               f == invites[t].group
    <3>1. op' = [op EXCEPT ![w] = o] /\ op[w] = Idle /\ UNCHANGED <<groups, disk, sent, torn>>
          /\ roster' = [roster EXCEPT ![f] = roster[f] \cup {w}]
      BY <2>7 DEF RedeemInvite, Set
    <3> HIDE DEF o, f
    <3>2. \A g \in Groups : Owner \in roster[g] => Owner \in roster'[g]
      BY <3>1 DEF DaemonType
    <3> QED BY <2>0, <3>1, <3>2
  <2> QED BY <2>1, <2>2, <2>3, <2>4, <2>5, <2>6, <2>7
<1> HIDE DEF Quiet
<1>2. PICK w \in Wallets : \E o : /\ op' = [op EXCEPT ![w] = o] /\ (o = Persist \/ op[w] # Persist)
                                  /\ UNCHANGED <<groups, disk, sent, torn>>
                                  /\ \A g \in Groups : Owner \in roster[g] => Owner \in roster'[g]
  BY <1>1 DEF Quiet
<1>3. PICK o : /\ op' = [op EXCEPT ![w] = o] /\ (o = Persist \/ op[w] # Persist)
               /\ UNCHANGED <<groups, disk, sent, torn>>
               /\ \A g \in Groups : Owner \in roster[g] => Owner \in roster'[g]
  BY <1>2
<1> QED BY <1>3, KeyQuiet

(* A step of w that puts handle h into its registry.                       *)
LEMMA KeyPut ==
    ASSUME DaemonType, KeyInv, NEW w \in Wallets, NEW g \in Groups, NEW h \in GroupState, NEW o,
           groups' = [groups EXCEPT ![w] = Put(groups[w], g, h)], op' = [op EXCEPT ![w] = o],
           o = Persist \/ op[w] # Persist,
           disk' = disk \/ disk' = [disk EXCEPT ![w] = Put(groups[w], g, h)],
           UNCHANGED <<sent, torn>>, \A f \in Groups : Owner \in roster[f] => Owner \in roster'[f],
           \/ \A i \in DOMAIN sent : Spent(i, w, sent) => sent[i].group # g
           \/ g \in DOMAIN groups[w] /\ Later(h, groups[w][g])
           \/ g \notin DOMAIN groups[w]
    PROVE  KeyInv'
<1> DEFINE r == Put(groups[w], g, h)
           gs == groups[w]
<1>1. ASSUME Covers(gs, w, sent)
      PROVE  Covers(r, w, sent)
  <2>1. gs \in Registries /\ sent \in Seq(Message)
    BY DEF DaemonType
  <2>2. \/ \A i \in DOMAIN sent : Spent(i, w, sent) => sent[i].group # g
        \/ g \in DOMAIN gs /\ Later(h, gs[g])
    BY <1>1 DEF Covers
  <2> HIDE DEF gs
  <2>3. Covers(Put(gs, g, h), w, sent)
    BY <1>1, <2>1, <2>2, CoversPut
  <2> QED BY <2>3 DEF gs
<1>2. groups' = [groups EXCEPT ![w] = r] /\ sent' = sent /\ (torn => torn')
  OBVIOUS
<1> HIDE DEF r
<1>3. \E d : /\ disk' = [disk EXCEPT ![w] = d]
             /\ (~torn /\ ~torn' /\ Covers(groups[w], w, sent) => Covers(r, w, sent) /\ (o # Persist => Covers(d, w, sent)))
  <2>1. CASE disk' = disk
    <3>1. disk' = [disk EXCEPT ![w] = disk[w]]
      BY <2>1 DEF DaemonType
    <3>2. ~torn /\ op[w] # Persist => Covers(disk[w], w, sent)
      BY DEF KeyInv
    <3> QED BY <1>1, <3>1, <3>2 DEF gs
  <2>2. CASE disk' = [disk EXCEPT ![w] = r]
    BY <1>1, <2>2 DEF gs
  <2> QED BY <2>1, <2>2 DEF r
<1>4. PICK d : /\ disk' = [disk EXCEPT ![w] = d]
               /\ (~torn /\ ~torn' /\ Covers(groups[w], w, sent) => Covers(r, w, sent) /\ (o # Persist => Covers(d, w, sent)))
  BY <1>3
<1> QED BY <1>2, <1>4, KeyStep

LEMMA KeyByCreateGroup ==
    ASSUME DaemonType, KeyInv, NEW g \in Groups, CreateGroup(g)
    PROVE  KeyInv'
<1> USE DaemonAssumption
<1> DEFINE h == Handle(<<>>, {Owner}, {Owner})
<1>1. h \in GroupState
  <2>1. <<>> \in Histories
    BY DEF Histories
  <2> QED BY <2>1, HandleType
<1>2. /\ groups' = [groups EXCEPT ![Owner] = Put(groups[Owner], g, h)] /\ op' = [op EXCEPT ![Owner] = Persist]
      /\ disk' = disk /\ sent' = sent /\ torn' = torn
      /\ roster[g] = {} /\ roster' = [roster EXCEPT ![g] = {Owner}]
  BY DEF CreateGroup, SetGroup, Set
<1>3. \A f \in Groups : Owner \in roster[f] => Owner \in roster'[f]
  BY <1>2 DEF DaemonType
<1>4. \A i \in DOMAIN sent : Spent(i, Owner, sent) => sent[i].group # g
  BY <1>2 DEF KeyInv
<1> HIDE DEF h
<1> QED BY <1>1, <1>2, <1>3, <1>4, KeyPut

LEMMA KeyByPersistState ==
    ASSUME DaemonType, KeyInv, NEW w \in Wallets, PersistState(w)
    PROVE  KeyInv'
<1> DEFINE r == groups[w]
<1>1. /\ groups' = [groups EXCEPT ![w] = r] /\ disk' = [disk EXCEPT ![w] = r] /\ op' = [op EXCEPT ![w] = Idle]
      /\ sent' = sent /\ (torn => torn') /\ \A g \in Groups : Owner \in roster[g] => Owner \in roster'[g]
  BY DEF PersistState, relayVars, Set, DaemonType
<1>2. ~torn /\ ~torn' /\ Covers(groups[w], w, sent) => Covers(r, w, sent) /\ (Idle # Persist => Covers(r, w, sent))
  OBVIOUS
<1> HIDE DEF r
<1> QED BY <1>1, <1>2, KeyStep

(* The owner merges a Commit of its own.                                   *)
LEMMA OwnCommitLater ==
    ASSUME NEW h \in GroupState, NEW id \in 1..MaxCommits, NEW tree \in SUBSET Wallets, NEW members \in SUBSET Wallets
    PROVE  LET new == Handle(Append(h.hist, id), tree, members)
           IN  new \in GroupState /\ Later(new, h)
<1> DEFINE hist == h.hist
           a == Append(hist, id)
           new == Handle(a, tree, members)
<1>1. hist \in Histories
  BY HandleParts
<1>2. a \in Histories /\ Len(a) = Len(hist) + 1 /\ Len(hist) \in Nat
  <2> HIDE DEF hist
  <2> QED BY <1>1, HistoryGrows
<1>3. new \in GroupState
  <2> HIDE DEF a
  <2> QED BY <1>2, HandleType
<1>4. new.hist = a
  <2> HIDE DEF a
  <2> QED BY DEF Handle
<1>5. Len(h.hist) < Len(new.hist)
  <2> HIDE DEF new, a
  <2> QED BY <1>2, <1>4 DEF hist
<1> QED BY <1>3, <1>5 DEF Later

LEMMA KeyBySubmitAdd ==
    ASSUME DaemonType, KeyInv, SubmitAdd
    PROVE  KeyInv'
<1> USE DaemonAssumption
<1> DEFINE g == op[Owner].group
           w == op[Owner].who
           h == groups[Owner][g]
           id == commits + 1
           tree == h.tree \cup {w}
           members == h.members \cup {w}
           new == Handle(Append(h.hist, id), tree, members)
           R == Recipients(h, Owner)
           ok == Admissible(g, Owner, R) /\ NextEpoch(g, h.hist)
           o == IF ok THEN [pc |-> "onboard", group |-> g, who |-> w] ELSE Idle
<1>1. g \in Groups /\ w \in Wallets /\ g \in DOMAIN groups[Owner] /\ groups[Owner] \in Registries
  <2>1. op[Owner] \in Operations /\ OpFits(op[Owner], groups[Owner], invites) /\ op[Owner].pc = "commit"
    BY SameTables DEF SubmitAdd
  <2>2. op[Owner].group \in Groups /\ op[Owner].who \in Wallets
    BY <2>1, OperationParts
  <2> QED BY <2>1, <2>2, SameTables DEF OpFits
<1>2. h \in GroupState
  BY <1>1, RegistryRows
<1>3. /\ groups' = [groups EXCEPT ![Owner] = Put(groups[Owner], g, new)]
      /\ op' = [op EXCEPT ![Owner] = o] /\ commits < MaxCommits
      /\ disk' = disk /\ sent' = sent /\ torn' = torn /\ roster' = roster
      /\ op[Owner].pc = "commit"
  BY DEF SubmitAdd, SetGroup, Set
<1>4. op[Owner] # Persist
  BY <1>3 DEF Persist
<1>5. new \in GroupState /\ Later(new, h)
  <2>1. id \in 1..MaxCommits /\ tree \in SUBSET Wallets /\ members \in SUBSET Wallets
    <3>1. commits \in 0..MaxCommits /\ h.tree \in SUBSET Wallets /\ h.members \in SUBSET Wallets
      BY <1>2, HandleParts DEF DaemonType
    <3> QED BY <1>1, <1>3, <3>1
  <2> HIDE DEF tree, members, id, h
  <2> QED BY <1>2, <2>1, OwnCommitLater
<1> HIDE DEF new, g, o
<1>6. Later(new, groups[Owner][g])
  BY <1>5 DEF g
<1>7. \A f \in Groups : Owner \in roster[f] => Owner \in roster'[f]
  BY <1>3
<1>8. o = Persist \/ op[Owner] # Persist
  BY <1>4
<1> QED BY <1>1, <1>3, <1>5, <1>6, <1>7, <1>8, KeyPut

LEMMA KeyByOffboard ==
    ASSUME DaemonType, KeyInv, NEW g \in Groups, NEW w \in Wallets, Offboard(g, w)
    PROVE  KeyInv'
<1> USE DaemonAssumption
<1> DEFINE h == groups[Owner][g]
           id == commits + 1
           tree == h.tree \ {w}
           members == h.members \ {w}
           new == Handle(Append(h.hist, id), tree, members)
           R == Recipients(new, Owner)
           ok == w \in roster[g] /\ Admissible(g, Owner, R) /\ NextEpoch(g, h.hist)
           o == IF ok THEN Persist ELSE Idle
<1>1. groups[Owner] \in Registries /\ h \in GroupState /\ g \in DOMAIN groups[Owner]
  BY RegistryRows, SameTables DEF Offboard
<1>2. /\ groups' = [groups EXCEPT ![Owner] = Put(groups[Owner], g, new)]
      /\ op' = [op EXCEPT ![Owner] = o] /\ commits < MaxCommits /\ w # Owner
      /\ disk' = disk /\ sent' = sent /\ torn' = torn
      /\ roster' = [roster EXCEPT ![g] = roster[g] \ {w}] \/ roster' = roster
      /\ op[Owner] = Idle
  BY DEF Offboard, SetGroup, Set
<1>3. op[Owner] # Persist
  BY <1>2 DEF Persist, Idle
<1>4. new \in GroupState /\ Later(new, h)
  <2>1. id \in 1..MaxCommits /\ tree \in SUBSET Wallets /\ members \in SUBSET Wallets
    <3>1. commits \in 0..MaxCommits /\ h.tree \in SUBSET Wallets /\ h.members \in SUBSET Wallets
      BY <1>1, HandleParts DEF DaemonType
    <3> QED BY <1>2, <3>1
  <2> HIDE DEF tree, members, id, h
  <2> QED BY <1>1, <2>1, OwnCommitLater
<1> HIDE DEF new, o
<1>5. \A f \in Groups : Owner \in roster[f] => Owner \in roster'[f]
  BY <1>2 DEF DaemonType
<1>6. o = Persist \/ op[Owner] # Persist
  BY <1>3
<1> QED BY <1>1, <1>2, <1>4, <1>5, <1>6, KeyPut

LEMMA KeyByPoll ==
    ASSUME DaemonType, KeyInv, NEW w \in Wallets, NEW g \in Groups, NEW k \in 0..Len(mail[w]), Poll(w, g, k)
    PROVE  KeyInv'
<1> DEFINE all == TakeInbox(w, k)
           h == groups[w][g]
           res == PollLoop(g, h, all)[Len(all)]
           o == IF res.changed THEN Persist ELSE Idle
           new == res.h
<1>1. groups[w] \in Registries /\ h \in GroupState /\ g \in DOMAIN groups[w]
  BY RegistryRows, SameTables DEF Poll
<1>2. all \in Seq(Mailable)
  BY Fetched
<1>3. LoopFact(res, g, h, all, Len(all))
  <2> HIDE DEF all, h
  <2> QED BY <1>1, <1>2, PollResult
<1>4. /\ groups' = [groups EXCEPT ![w] = Put(groups[w], g, new)]
      /\ op' = [op EXCEPT ![w] = o] /\ op[w] = Idle /\ disk' = disk /\ sent' = sent /\ torn' = torn /\ roster' = roster
  BY DEF Poll, SetGroup, Set
<1> HIDE DEF res
<1>5. new \in GroupState /\ MovesOn(new, h)
  BY <1>3 DEF LoopFact, Accumulator
<1>6. Later(new, h)
  <2>1. h.gen \in Nat
    BY <1>1, HandleParts
  <2> HIDE DEF new, h
  <2> QED BY <1>5, <2>1 DEF MovesOn, Later
<1>7. o = Persist \/ op[w] # Persist
  BY <1>4 DEF Idle, Persist
<1>8. \A f \in Groups : Owner \in roster[f] => Owner \in roster'[f]
  BY <1>4
<1> HIDE DEF new, o
<1> QED BY <1>1, <1>4, <1>5, <1>6, <1>7, <1>8, KeyPut

(* A Welcome of a group that w does not have.                              *)
LEMMA KeyWelcomed ==
    ASSUME DaemonType, KeyInv, NEW w \in Wallets, NEW e \in Mailable, JoinWithWelcome(w, e),
           e.group \notin DOMAIN groups[w], NEW o, op' = [op EXCEPT ![w] = o], op[w] # Persist,
           UNCHANGED <<sent, torn, roster>>
    PROVE  KeyInv'
<1> DEFINE g == e.group
           h == Handle(e.hist, e.tree, roster[g])
<1>1. g \in Groups /\ e.hist \in Histories /\ e.tree \in SUBSET Wallets
  BY DEF Mailable, EnvelopeType
<1>2. h \in GroupState
  BY <1>1, HandleType DEF DaemonType
<1>3. /\ groups' = [groups EXCEPT ![w] = Put(groups[w], g, h)]
      /\ disk' = [disk EXCEPT ![w] = Put(groups[w], g, h)]
  BY DEF JoinWithWelcome, Set
<1>4. g \notin DOMAIN groups[w]
  OBVIOUS
<1> HIDE DEF h, g
<1>5. \A f \in Groups : Owner \in roster[f] => Owner \in roster'[f]
  OBVIOUS
<1>6. o = Persist \/ op[w] # Persist
  OBVIOUS
<1> QED BY <1>1, <1>2, <1>3, <1>4, <1>5, <1>6, KeyPut

LEMMA KeyByJoinGroupFinish ==
    ASSUME DaemonType, KeyInv, NEW w \in Wallets, JoinGroupFinish(w)
    PROVE  KeyInv'
<1> DEFINE e == op[w].env
<1>1. op[w] \in Operations /\ op[w].pc = "welcome" /\ OpFits(op[w], groups[w], invites)
  BY SameTables DEF JoinGroupFinish
<1>2. e \in Mailable /\ e.group \notin DOMAIN groups[w]
  BY <1>1, OperationParts DEF OpFits
<1>3. JoinWithWelcome(w, e) /\ op' = [op EXCEPT ![w] = Idle] /\ op[w] # Persist /\ UNCHANGED <<sent, torn, roster>>
  BY <1>1 DEF JoinGroupFinish, relayVars, Persist, Set
<1> HIDE DEF e
<1> QED BY <1>2, <1>3, KeyWelcomed

LEMMA KeyByJoinPendingNext ==
    ASSUME DaemonType, KeyInv, NEW w \in Wallets, JoinPendingNext(w)
    PROVE  KeyInv'
<1> DEFINE e == Head(op[w].todo)
           t == Tail(op[w].todo)
           s == op[w].rest
           o1 == [pc |-> "pending", todo |-> t, rest |-> s]
           o2 == [pc |-> "pending", todo |-> t, rest |-> Append(s, e)]
<1>1. /\ e \in Mailable
      /\ \/ /\ e.group \notin DOMAIN groups[w] /\ JoinWithWelcome(w, e)
            /\ op' = [op EXCEPT ![w] = o1]
         \/ /\ UNCHANGED <<groups, disk>>
            /\ op' = [op EXCEPT ![w] = o2]
  BY PendingStep
<1>2. op[w] # Persist /\ UNCHANGED <<sent, torn, roster>>
  BY DEF JoinPendingNext, relayVars, Persist
<1> HIDE DEF e, o1, o2
<1>3. CASE e.group \notin DOMAIN groups[w] /\ JoinWithWelcome(w, e) /\ op' = [op EXCEPT ![w] = o1]
  BY <1>1, <1>2, <1>3, KeyWelcomed
<1>4. CASE UNCHANGED <<groups, disk>> /\ op' = [op EXCEPT ![w] = o2]
  BY <1>2, <1>4, KeyQuiet
<1> QED BY <1>1, <1>3, <1>4

LEMMA KeyByRedeemCommit ==
    ASSUME DaemonType, KeyInv, NEW w \in Wallets, RedeemCommit(w)
    PROVE  KeyInv'
<1> DEFINE i == invites[op[w].token]
           g == i.group
           id == commits + 1
           R == roster[g] \ {w}
           hist == i.hist
           tree == i.tree \cup {w}
           members == R \cup {w}
           ok == Admissible(g, w, R) /\ NextEpoch(g, hist)
           new == Handle(Append(hist, id), tree, members)
           o == IF ok THEN Persist ELSE Idle
<1>1. i \in Invite /\ g \notin DOMAIN groups[w]
  <2>1. op[w].token \in DOMAIN invites /\ g \notin DOMAIN groups[w]
    BY SameTables DEF RedeemCommit, OpFits
  <2> QED BY <2>1, InviteRows DEF DaemonType
<1>2. g \in Groups /\ hist \in Histories /\ i.tree \in SUBSET Wallets
  BY <1>1 DEF Invite
<1>3. tree \in SUBSET Wallets /\ members \in SUBSET Wallets
  BY <1>2 DEF DaemonType
<1>4. /\ commits < MaxCommits
      /\ groups' = [groups EXCEPT ![w] = IF ok THEN Put(groups[w], g, new) ELSE groups[w]]
      /\ op' = [op EXCEPT ![w] = o] /\ disk' = disk /\ sent' = sent /\ torn' = torn /\ roster' = roster
      /\ op[w].pc = "redeem"
  BY SameTables DEF RedeemCommit, SetGroup, Set
<1>5. op[w] # Persist
  BY <1>4 DEF Persist
<1> HIDE DEF R, tree, members, hist, g, i
<1>6. new \in GroupState
  BY <1>2, <1>3, <1>4, CommitTyped
<1> HIDE DEF new, o
<1>7. \A f \in Groups : Owner \in roster[f] => Owner \in roster'[f]
  BY <1>4
<1>8. o = Persist \/ op[w] # Persist
  BY <1>5
<1>9. CASE ok
  <2>1. groups' = [groups EXCEPT ![w] = Put(groups[w], g, new)]
    BY <1>4, <1>9
  <2> QED BY <1>1, <1>2, <1>4, <1>6, <1>7, <1>8, <2>1, KeyPut
<1>10. CASE ~ok
  <2>1. groups' = groups
    BY <1>4, <1>10 DEF DaemonType
  <2> QED BY <1>4, <1>7, <1>8, <2>1, KeyQuiet
<1> QED BY <1>9, <1>10

LEMMA KeyByRestart ==
    ASSUME DaemonType, KeyInv, NEW w \in Wallets, NEW k \in 0..Len(mail[w]), Restart(w, k)
    PROVE  KeyInv'
<1> DEFINE d == disk[w]
<1>1. /\ groups' = [groups EXCEPT ![w] = d] /\ disk' = [disk EXCEPT ![w] = d] /\ op' = [op EXCEPT ![w] = Idle]
      /\ sent' = sent /\ (torn => torn') /\ \A g \in Groups : Owner \in roster[g] => Owner \in roster'[g]
  BY DEF Restart, Set, DaemonType
<1>2. ~torn /\ ~torn' => Covers(d, w, sent)
  <2>1. ~torn' => op[w] # Persist
    <3>1. torn' = (torn \/ op[w] # Idle) /\ Idle # Persist
      BY DEF Restart, Idle, Persist
    <3>2. ~torn' => op[w] = Idle
      BY <3>1, Zenon
    <3> QED BY <3>1, <3>2
  <2> QED BY <2>1 DEF KeyInv
<1> HIDE DEF d
<1>3. ~torn /\ ~torn' /\ Covers(groups[w], w, sent) => Covers(d, w, sent) /\ (Idle # Persist => Covers(d, w, sent))
  BY <1>2
<1> QED BY <1>1, <1>3, KeyStep

LEMMA KeyBySend ==
    ASSUME DaemonType, KeyInv, NEW w \in Wallets, NEW g \in Groups, Send(w, g)
    PROVE  KeyInv'
<1> DEFINE h == groups[w][g]
           new == [h EXCEPT !.gen = @ + 1]
           R == Recipients(h, w)
           ok == Admissible(g, w, R)
           m == [group |-> g, sender |-> w, hist |-> h.hist, gen |-> h.gen, accepted |-> ok,
                 roster |-> roster[g]]
           r == Put(groups[w], g, new)
           o == IF ok THEN Persist ELSE Idle
           n == Len(sent) + 1
<1>1. groups[w] \in Registries /\ h \in GroupState /\ g \in DOMAIN groups[w]
  BY RegistryRows, SameTables DEF Send
<1>2. /\ groups' = [groups EXCEPT ![w] = r] /\ sent' = Append(sent, m) /\ op[w] = Idle
      /\ op' = [op EXCEPT ![w] = o] /\ disk' = disk /\ torn' = torn /\ roster' = roster
  BY DEF Send, SetGroup, Set, AfterSend
<1>3. m \in Message /\ m.group = g /\ m.sender = w /\ m.hist = h.hist /\ m.gen = h.gen /\ m.accepted = ok
  <2>1. roster[g] \in SUBSET Wallets /\ ok \in BOOLEAN
    BY DEF DaemonType, Admissible
  <2> QED BY <1>1, <2>1, HandleParts DEF Message
<1>4. new \in GroupState /\ new.hist = h.hist /\ new.gen = h.gen + 1 /\ h.gen \in Nat
  <2> HIDE DEF h
  <2> QED BY <1>1 DEF GroupState
<1>5. op[w] # Persist
  BY <1>2 DEF Idle, Persist
<1>6. ok => w \in roster[g]
  BY DEF Admissible
<1> HIDE DEF m, ok, new
<1>7. /\ sent \in Seq(Message) /\ DOMAIN sent' = 1..n /\ DOMAIN sent = 1..Len(sent) /\ Len(sent) \in Nat
      /\ \A i \in 1..Len(sent) : sent'[i] = sent[i]
      /\ sent'[n] = m
  <2>1. sent \in Seq(Message)
    BY DEF DaemonType
  <2> QED BY <1>2, <1>3, <2>1, AppendProperties
<1>8. \A i \in DOMAIN sent' : (i \in DOMAIN sent /\ sent'[i] = sent[i] /\ i # n) \/ (i = n /\ sent'[i] = m)
  BY <1>7
<1> HIDE DEF n
<1>9. \A i \in DOMAIN sent' : Spent(i, Owner, sent') => Owner \in roster'[sent'[i].group]
  <2> SUFFICES ASSUME NEW i \in DOMAIN sent', Spent(i, Owner, sent') PROVE Owner \in roster[sent'[i].group]
    BY <1>2
  <2>1. CASE i \in DOMAIN sent /\ sent'[i] = sent[i]
    BY <2>1 DEF KeyInv, Spent
  <2>2. CASE i = n /\ sent'[i] = m
    BY <1>3, <1>6, <2>2 DEF Spent
  <2> QED BY <1>8, <2>1, <2>2
<1>10. ASSUME ~torn, NEW v \in Wallets, NEW reg, Covers(reg, v, sent), v # w \/ ~ok
       PROVE  Covers(reg, v, sent')
  <2>1. \A i \in DOMAIN sent' : Spent(i, v, sent') => Spent(i, v, sent) /\ sent'[i] = sent[i]
    BY <1>3, <1>8, <1>10 DEF Spent
  <2> QED BY <1>10, <2>1 DEF Covers, Spent
<1>11. ~torn => Covers(groups[w], w, sent) /\ Covers(disk[w], w, sent)
  BY <1>5 DEF KeyInv
<1>12. ASSUME ~torn
       PROVE  Covers(r, w, sent')
  <2> DEFINE gs == groups[w]
  <2>1. Covers(gs, w, sent) /\ gs \in Registries /\ g \in DOMAIN gs /\ h = gs[g]
    BY <1>1, <1>11, <1>12
  <2>2. Later(new, h)
    BY <1>4 DEF Later
  <2> HIDE DEF gs, h
  <2>3. Covers(Put(gs, g, new), w, sent)
    BY <1>4, <1>7, <2>1, <2>2, CoversPut
  <2>4. r = Put(gs, g, new)
    BY DEF gs
  <2> HIDE DEF r
  <2>5. g \in DOMAIN r /\ r[g] = new
    <3>1. g \in DOMAIN Put(gs, g, new) /\ Put(gs, g, new)[g] = new
      BY <1>4, <2>1, PutRegistry
    <3> QED BY <2>4, <3>1
  <2> SUFFICES ASSUME NEW i \in DOMAIN sent', Spent(i, w, sent')
               PROVE  /\ sent'[i].group \in DOMAIN r
                      /\ Len(sent'[i].hist) <= Len(r[sent'[i].group].hist)
                      /\ sent'[i].hist = r[sent'[i].group].hist => sent'[i].gen < r[sent'[i].group].gen
    BY DEF Covers
  <2>6. CASE i \in DOMAIN sent /\ sent'[i] = sent[i]
    BY <2>3, <2>4, <2>6 DEF Covers, Spent
  <2>7. CASE i = n /\ sent'[i] = m
    <3>1. sent'[i].group = g /\ sent'[i].hist = new.hist /\ sent'[i].gen = h.gen
      BY <1>3, <1>4, <2>7
    <3>2. Len(new.hist) \in Nat /\ h.gen < new.gen
      BY <1>4, HandleParts
    <3>3. Len(new.hist) <= Len(new.hist)
      BY <3>2
    <3> QED BY <2>5, <3>1, <3>2, <3>3
  <2> QED BY <1>8, <2>6, <2>7
<1>13. ~torn' => \A v \in Wallets : /\ Covers(groups'[v], v, sent')
                                    /\ op'[v] # Persist => Covers(disk'[v], v, sent')
  <2> SUFFICES ASSUME ~torn, NEW v \in Wallets
               PROVE  /\ Covers(groups'[v], v, sent') /\ (op'[v] # Persist => Covers(disk'[v], v, sent'))
    BY <1>2
  <2>1. CASE v = w
    <3>1. groups'[v] = r /\ op'[v] = o /\ disk'[v] = disk[v]
      BY <1>2, <2>1 DEF DaemonType
    <3>2. o # Persist => ~ok
      OBVIOUS
    <3> HIDE DEF r, o
    <3> QED BY <1>10, <1>11, <1>12, <2>1, <3>1, <3>2
  <2>2. CASE v # w
    <3>1. groups'[v] = groups[v] /\ op'[v] = op[v] /\ disk'[v] = disk[v]
      BY <1>2, <2>2 DEF DaemonType
    <3>2. Covers(groups[v], v, sent) /\ (op[v] # Persist => Covers(disk[v], v, sent))
      BY DEF KeyInv
    <3> QED BY <1>10, <2>2, <3>1, <3>2
  <2> QED BY <2>1, <2>2
<1>14. AcceptedOnce'
  <2> SUFFICES ASSUME ~torn, NEW i \in DOMAIN sent', NEW j \in DOMAIN sent',
                      sent'[i].accepted, sent'[j].accepted, SameKey(i, j)'
               PROVE  i = j
    BY <1>2 DEF AcceptedOnce
  <2>1. sent'[i].group = sent'[j].group /\ sent'[i].sender = sent'[j].sender
        /\ sent'[i].hist = sent'[j].hist /\ sent'[i].gen = sent'[j].gen
    BY DEF SameKey
  <2>2. ASSUME NEW x \in DOMAIN sent, sent[x].accepted, m.accepted, sent[x].group = m.group, sent[x].sender = m.sender,
               sent[x].hist = m.hist, sent[x].gen = m.gen
        PROVE  FALSE
    <3>1. Spent(x, w, sent) /\ sent[x].group = g /\ sent[x].hist = h.hist /\ sent[x].gen = h.gen
      BY <1>3, <2>2 DEF Spent
    <3>2. sent[x].gen < groups[w][g].gen
      BY <1>11, <3>1 DEF Covers
    <3> QED BY <1>4, <3>1, <3>2
  <2>3. CASE i \in DOMAIN sent /\ sent'[i] = sent[i] /\ j \in DOMAIN sent /\ sent'[j] = sent[j]
    BY <2>1, <2>3 DEF KeyInv, AcceptedOnce, SameKey
  <2>4. CASE i \in DOMAIN sent /\ sent'[i] = sent[i] /\ j = n /\ sent'[j] = m
    BY <2>1, <2>2, <2>4
  <2>5. CASE i = n /\ sent'[i] = m /\ j \in DOMAIN sent /\ sent'[j] = sent[j]
    BY <2>1, <2>2, <2>5
  <2> QED BY <1>8, <2>3, <2>4, <2>5
<1> QED BY <1>9, <1>13, <1>14 DEF KeyInv

LEMMA KeyInit ==
    ASSUME Init
    PROVE  KeyInv
<1>1. DOMAIN sent = {}
  BY DEF Init
<1> QED BY <1>1 DEF KeyInv, AcceptedOnce, Covers

LEMMA KeyNext ==
    ASSUME DaemonType, KeyInv, [Next]_vars
    PROVE  KeyInv'
<1>1. CASE UNCHANGED vars
  <2>1. UNCHANGED <<op, groups, disk, roster, sent, torn>>
    BY <1>1 DEF vars, daemonVars, relayVars
  <2> QED BY <2>1 DEF KeyInv, AcceptedOnce, SameKey, Covers, Spent
<1>2. CASE Next
  <2>1. CASE \/ \E g \in Groups, w \in Wallets : AddMember(g, w)
             \/ Onboard
             \/ \E w \in Wallets, g \in Groups : \E k \in 0..Len(mail[w]) : JoinGroup(w, g, k)
             \/ \E w \in Wallets : \E k \in 0..Len(mail[w]) : JoinPending(w, k)
             \/ \E w \in Wallets : JoinPendingEnd(w)
             \/ \E g \in Groups, t \in Tokens : PublishInvite(g, t)
             \/ \E w \in Wallets, t \in Tokens : RedeemInvite(w, t)
    BY <2>1, KeyByQuiet
  <2> QED BY <1>2, <2>1, KeyByCreateGroup, KeyByPersistState, KeyBySubmitAdd, KeyByOffboard, KeyBySend,
             KeyByPoll, KeyByJoinGroupFinish, KeyByJoinPendingNext, KeyByRedeemCommit, KeyByRestart DEF Next
<1> QED BY <1>1, <1>2

(* A member's registry, and its disk between two operations, is past       *)
(* every epoch and generation under which the relay accepted a message of  *)
(* it, as long as no process stopped inside an operation (send and         *)
(* poll_messages persist what they moved).                                 *)
THEOREM KeysUsedOnce == Spec => []KeyInv
<1> QED BY DaemonTyped, KeyInit, KeyNext, PTL DEF Spec

LEMMA Conversation ==
    ASSUME DaemonType, OrderInv, KeyInv
    PROVE  ConversationSound
<1>1. TypeOK
  <2>1. ASSUME NEW w \in Wallets
        PROVE  /\ IsRegistry(groups[w]) /\ IsRegistry(disk[w])
               /\ inbox[w] \in Seq(EnvelopeType) /\ Len(inbox[w]) <= INBOX_CAP /\ mail[w] \in Seq(EnvelopeType)
               /\ op[w].pc \in {"idle", "persist", "commit", "onboard", "welcome", "pending", "redeem"}
               /\ \A i \in DOMAIN shown[w] : shown[w][i] \in DOMAIN sent
    <3>1. IsRegistry(groups[w]) /\ IsRegistry(disk[w])
      BY RegistryRows, SameTables DEF IsRegistry
    <3>2. inbox[w] \in Seq(Mailable) /\ Len(inbox[w]) <= INBOX_CAP /\ mail[w] \in Seq(Mailable)
      BY DEF DaemonType
    <3>3. \A s \in Seq(Mailable) : s \in Seq(EnvelopeType)
      <4>1. Mailable \subseteq EnvelopeType
        BY DEF Mailable
      <4> QED BY <4>1
    <3>4. op[w].pc \in {"idle", "persist", "commit", "onboard", "welcome", "pending", "redeem"}
      BY OperationParts, SameTables
    <3>5. \A i \in DOMAIN shown[w] : shown[w][i] \in DOMAIN sent
      BY DEF OrderInv, Orderly, Past
    <3> QED BY <3>1, <3>2, <3>3, <3>4, <3>5
  <2>2. DOMAIN invites \subseteq Tokens
    BY InviteRows DEF DaemonType
  <2> QED BY <2>1, <2>2 DEF TypeOK, DaemonType
<1>2. ShownInOrder
  <2> SUFFICES ASSUME NEW w \in Wallets, NEW i \in DOMAIN shown[w], NEW j \in DOMAIN shown[w],
                      i < j, sent[shown[w][i]].group = sent[shown[w][j]].group
               PROVE  shown[w][i] < shown[w][j]
    BY DEF ShownInOrder
  <2>1. Past(w, shown[w], sent)
    BY DEF OrderInv, Orderly
  <2> QED BY <2>1 DEF Past
<1>3. OffboardedReadsNothing
  BY DEF OffboardedReadsNothing, OrderInv, Orderly, Past
<1> QED BY <1>1, <1>2, <1>3 DEF ConversationSound, KeyInv

(* What the daemon shows a user: a group's messages in their order, none   *)
(* from after a removal; and what it sends is accepted under one key once  *)
(* (poll_messages, take_inbox and send of lib.rs).                         *)
THEOREM ConversationHolds == Spec => []ConversationSound
<1> QED BY DaemonTyped, DaemonOrdered, KeysUsedOnce, Conversation, PTL DEF Spec

-----------------------------------------------------------------------------
(* The socket of a daemon (WireClient).                                    *)

Kinds == Requests \union {"Challenge"}

RequestFrame == [n : Nat, kind : Kinds]
AnswerTypes == {"Challenge", "Ack", "KeyPackage", "Error"}
SocketFrame == [type : AnswerTypes \union {"Deliver", "Notify"}, n : Nat]

InProgress == [n : Nat \ {0}, kind : Kinds, probe : BOOLEAN]
Result == [n : Nat, probe : BOOLEAN, of : Nat, res : {"Ok", "Server", "Protocol", "Closed", "Timeout"}]

SocketType ==
    /\ open \in BOOLEAN
    /\ out \in Seq(RequestFrame) /\ down \in Seq(SocketFrame) /\ resp \in Seq(SocketFrame)
    /\ deliver \in Seq(Nat) /\ drained \in Seq(Nat)
    /\ pending \in InProgress \union {None}
    /\ asked \in Nat /\ pushed \in Nat
    /\ results \in Seq(Result)
    /\ ~open => out = <<>> /\ down = <<>>

(* An answer that may be given to a request of this kind.                  *)
Suits(kind, type) == type = Expected[kind] \/ type = "Error"

AnswersIn(s) == {i \in DOMAIN s : s[i].type \in AnswerTypes}

(* A probe has given up on its answer.                                     *)
GaveUp == \E i \in DOMAIN results : results[i].res = "Timeout"

(* The request in progress is on its way; an answer is to it.              *)
Asked == Len(out) = 1 /\ out[1].n = pending.n /\ out[1].kind = pending.kind
Answered(p, f) == f.n = p.n /\ Suits(p.kind, f.type)

(* At most one request or answer is under way, and it belongs to the       *)
(* request in progress.                                                    *)
OneAtATime ==
    /\ pending = None => out = <<>> /\ resp = <<>> /\ AnswersIn(down) = {}
    /\ \/ AnswersIn(down) = {} /\ resp = <<>> /\ (out = <<>> \/ Asked)
       \/ /\ out = <<>> /\ resp = <<>>
          /\ \E i \in DOMAIN down : AnswersIn(down) = {i} /\ Answered(pending, down[i])
       \/ out = <<>> /\ AnswersIn(down) = {} /\ Len(resp) = 1 /\ Answered(pending, resp[1])

MatchInv ==
    ~GaveUp => /\ OneAtATime
               /\ \A i \in DOMAIN results : results[i].of = results[i].n /\ results[i].res # "Protocol"

(* A request in progress has a number.                                     *)
LEMMA NoneInProgress == None \notin InProgress
<1> SUFFICES ASSUME None \in InProgress PROVE FALSE
  OBVIOUS
<1>1. None.n \in Nat \ {0}
  BY DEF InProgress
<1> QED BY <1>1 DEF None

(* Every kind of request expects an answer.                                *)
LEMMA ExpectedAnswers ==
    \A kind \in Kinds : kind \in DOMAIN Expected /\ Expected[kind] \in AnswerTypes
  BY WireAssumption DEF Kinds, Expected, AnswerTypes

LEMMA SocketTypedInit == ClientInit => SocketType
  BY NoneInProgress DEF ClientInit, SocketType

(* A push puts one Deliver and at most one Notify behind the rest.         *)
LEMMA PushedFrames ==
    ASSUME SocketType, Push
    PROVE  \E fs \in Seq(SocketFrame) :
              /\ down' = down \o fs /\ pushed' = pushed + 1 /\ Len(fs) \in {1, 2}
              /\ \E k \in DOMAIN fs : /\ fs[k].type = "Deliver" /\ fs[k].n = pushed'
                                      /\ \A i \in DOMAIN fs \ {k} : fs[i].type = "Notify"
<1> DEFINE d == [type |-> "Deliver", n |-> pushed']
           p == [type |-> "Notify", n |-> pushed']
<1>1. pushed' = pushed + 1 /\ pushed' \in Nat
  BY DEF Push, SocketType
<1>2. d \in SocketFrame /\ p \in SocketFrame
  BY <1>1 DEF SocketFrame
<1>3. PICK fs \in {<<d>>, <<d, p>>, <<p, d>>} : down' = down \o fs
  BY DEF Push
<1>4. d.type = "Deliver" /\ d.n = pushed' /\ p.type = "Notify"
  OBVIOUS
<1> HIDE DEF d, p
<1>5. fs \in Seq(SocketFrame)
  BY <1>2, <1>3
<1>6. CASE fs = <<d>> \/ fs = <<d, p>>
  <2>1. 1 \in DOMAIN fs /\ fs[1] = d /\ Len(fs) \in {1, 2} /\ \A i \in DOMAIN fs \ {1} : fs[i] = p
    BY <1>6
  <2> QED BY <1>1, <1>3, <1>4, <1>5, <2>1
<1>7. CASE fs = <<p, d>>
  <2>1. 2 \in DOMAIN fs /\ fs[2] = d /\ Len(fs) = 2 /\ \A i \in DOMAIN fs \ {2} : fs[i] = p
    BY <1>7
  <2> QED BY <1>1, <1>3, <1>4, <1>5, <2>1
<1> QED BY <1>3, <1>6, <1>7

LEMMA SocketTyped ==
    ASSUME SocketType, [ClientNext]_clientVars
    PROVE  SocketType'
<1>1. ASSUME NEW kind \in Kinds, NEW probe \in BOOLEAN, Request(kind, probe) PROVE SocketType'
  <2>1. asked' = asked + 1 /\ asked' \in Nat \ {0}
    BY <1>1 DEF Request, SocketType
  <2>2. pending' \in InProgress
    BY <1>1, <2>1 DEF Request, InProgress
  <2>3. [n |-> asked', kind |-> kind] \in RequestFrame
    BY <2>1 DEF RequestFrame
  <2>4. out' \in Seq(RequestFrame) /\ (~open => out' = <<>>)
    BY <1>1, <2>3 DEF Request, SocketType
  <2> QED BY <1>1, <2>1, <2>2, <2>4 DEF Request, SocketType
<1>2. ASSUME NEW kind \in AnswerTypes, Answer(kind) PROVE SocketType'
  <2>1. Head(out).n \in Nat /\ Tail(out) \in Seq(RequestFrame)
    <3>1. out \in Seq(RequestFrame) /\ out # <<>>
      BY <1>2 DEF Answer, SocketType
    <3>2. Head(out) \in RequestFrame /\ Tail(out) \in Seq(RequestFrame)
      BY <3>1, HeadTailProperties
    <3> QED BY <3>2 DEF RequestFrame
  <2>2. [type |-> kind, n |-> Head(out).n] \in SocketFrame
    BY <2>1 DEF SocketFrame
  <2>3. down' = Append(down, [type |-> kind, n |-> Head(out).n]) /\ out' = Tail(out) /\ open
    BY <1>2 DEF Answer
  <2>4. down' \in Seq(SocketFrame)
    BY <2>2, <2>3 DEF SocketType
  <2> QED BY <1>2, <2>1, <2>3, <2>4 DEF Answer, SocketType
<1>3. CASE Push
  <2>1. PICK fs \in Seq(SocketFrame) : down' = down \o fs /\ pushed' = pushed + 1
    BY <1>3, PushedFrames
  <2>2. down' \in Seq(SocketFrame) /\ pushed' \in Nat
    BY <2>1 DEF SocketType
  <2> QED BY <1>3, <2>2 DEF Push, SocketType
<1>4. CASE Read
  <2>1. down \in Seq(SocketFrame) /\ down # <<>>
    BY <1>4 DEF Read, SocketType
  <2>2. Head(down) \in SocketFrame /\ Tail(down) \in Seq(SocketFrame) /\ Head(down).n \in Nat
    <3>1. Head(down) \in SocketFrame /\ Tail(down) \in Seq(SocketFrame)
      BY <2>1, HeadTailProperties
    <3> QED BY <3>1 DEF SocketFrame
  <2>3. deliver' \in Seq(Nat) /\ resp' \in Seq(SocketFrame)
    BY <1>4, <2>2 DEF Read, Route, SocketType
  <2> QED BY <1>4, <2>2, <2>3 DEF Read, SocketType
<1>5. ASSUME NEW f \in Nat, NEW x \in {"Ok", "Server", "Protocol", "Closed", "Timeout"}, pending # None,
             Finish([n |-> pending.n, probe |-> pending.probe, of |-> f, res |-> x])
      PROVE  results' \in Seq(Result) /\ pending' \in InProgress \union {None}
  <2>1. pending.n \in Nat /\ pending.probe \in BOOLEAN
    BY <1>5 DEF SocketType, InProgress
  <2>2. [n |-> pending.n, probe |-> pending.probe, of |-> f, res |-> x] \in Result
    BY <1>5, <2>1 DEF Result
  <2> QED BY <1>5, <2>2 DEF Finish, SocketType
<1>6. CASE Receive
  <2>1. resp \in Seq(SocketFrame) /\ resp # <<>>
    BY <1>6 DEF Receive, SocketType
  <2>2. Tail(resp) \in Seq(SocketFrame) /\ Head(resp).n \in Nat
    <3>1. Head(resp) \in SocketFrame /\ Tail(resp) \in Seq(SocketFrame)
      BY <2>1, HeadTailProperties
    <3> QED BY <3>1 DEF SocketFrame
  <2>3. Outcome(pending.kind, Head(resp)) \in {"Ok", "Server", "Protocol", "Closed", "Timeout"}
    BY DEF Outcome
  <2>4. results' \in Seq(Result) /\ pending' \in InProgress \union {None}
    BY <1>5, <1>6, <2>2, <2>3 DEF Receive
  <2> QED BY <1>6, <2>2, <2>4 DEF Receive, SocketType
<1>7. CASE ReceiveClosed \/ ProbeTimeout
  <2>1. pending.n \in Nat
    BY <1>7 DEF ReceiveClosed, ProbeTimeout, SocketType, InProgress
  <2>2. results' \in Seq(Result) /\ pending' \in InProgress \union {None}
    BY <1>5, <1>7, <2>1 DEF ReceiveClosed, ProbeTimeout
  <2> QED BY <1>7, <2>2 DEF ReceiveClosed, ProbeTimeout, SocketType
<1>8. CASE NextDelivered
  <2>1. deliver \in Seq(Nat) /\ deliver # <<>>
    BY <1>8 DEF NextDelivered, SocketType
  <2>2. Head(deliver) \in Nat /\ Tail(deliver) \in Seq(Nat)
    BY <2>1
  <2> QED BY <1>8, <2>2 DEF NextDelivered, SocketType
<1>9. CASE NextNotify
  BY <1>9 DEF NextNotify, SocketType
<1>10. CASE Close
  <2>1. out' = <<>> /\ down' = <<>> /\ out' \in Seq(RequestFrame) /\ down' \in Seq(SocketFrame)
    BY <1>10 DEF Close
  <2>2. open' \in BOOLEAN
    BY <1>10 DEF Close
  <2> QED BY <1>10, <2>1, <2>2 DEF Close, SocketType
<1>11. CASE UNCHANGED clientVars
  BY <1>11 DEF clientVars, SocketType
<1> QED BY <1>1, <1>2, <1>3, <1>4, <1>6, <1>7, <1>8, <1>9, <1>10, <1>11
        DEF ClientNext, Kinds, AnswerTypes

(* The frames on the socket and in its channels, the request under way     *)
(* and the results are of their types, and a socket that is gone holds no  *)
(* frames (client.rs).                                                     *)
THEOREM SocketTypeCorrect == ClientSpec => []SocketType
<1> QED BY SocketTypedInit, SocketTyped, PTL DEF ClientSpec

-----------------------------------------------------------------------------
(* Answers.                                                                *)

(* Frames behind the rest, the first frame taken.                          *)
LEMMA AnswersBehind ==
    ASSUME NEW s \in Seq(SocketFrame), NEW t \in Seq(SocketFrame)
    PROVE  /\ \A i \in DOMAIN s : i \in DOMAIN (s \o t) /\ (s \o t)[i] = s[i]
           /\ (\A i \in DOMAIN t : t[i].type \notin AnswerTypes) => AnswersIn(s \o t) = AnswersIn(s)
<1>1. /\ DOMAIN s = 1..Len(s) /\ DOMAIN t = 1..Len(t) /\ DOMAIN (s \o t) = 1..Len(s) + Len(t)
      /\ \A i \in 1..Len(s) : (s \o t)[i] = s[i]
      /\ \A i \in Len(s) + 1..Len(s) + Len(t) : (s \o t)[i] = t[i - Len(s)]
      /\ Len(s) \in Nat /\ Len(t) \in Nat
  BY ConcatProperties
<1>2. ASSUME \A i \in DOMAIN t : t[i].type \notin AnswerTypes
      PROVE  AnswersIn(s \o t) = AnswersIn(s)
  <2>1. ASSUME NEW i \in Len(s) + 1..Len(s) + Len(t)
        PROVE  (s \o t)[i].type \notin AnswerTypes
    <3>1. i - Len(s) \in DOMAIN t
      BY <1>1
    <3> QED BY <1>1, <1>2, <3>1
  <2> QED BY <1>1, <2>1 DEF AnswersIn
<1> QED BY <1>1, <1>2

LEMMA AnswersAppend ==
    ASSUME NEW s \in Seq(SocketFrame), NEW e \in SocketFrame, e.type \in AnswerTypes, AnswersIn(s) = {}
    PROVE  /\ AnswersIn(Append(s, e)) = {Len(s) + 1} /\ Append(s, e)[Len(s) + 1] = e
           /\ Len(s) + 1 \in DOMAIN Append(s, e)
<1>1. /\ DOMAIN s = 1..Len(s) /\ DOMAIN Append(s, e) = 1..Len(s) + 1 /\ Len(s) \in Nat
      /\ \A i \in 1..Len(s) : Append(s, e)[i] = s[i]
      /\ Append(s, e)[Len(s) + 1] = e
  BY AppendProperties
<1>2. \A i \in 1..Len(s) : Append(s, e)[i].type \notin AnswerTypes
  BY <1>1 DEF AnswersIn
<1> QED BY <1>1, <1>2 DEF AnswersIn

LEMMA AnswersTail ==
    ASSUME NEW s \in Seq(SocketFrame), s # <<>>
    PROVE  /\ Head(s) = s[1] /\ 1 \in DOMAIN s
           /\ \A i \in DOMAIN s : i # 1 => i - 1 \in DOMAIN Tail(s) /\ Tail(s)[i - 1] = s[i]
           /\ AnswersIn(Tail(s)) = {i - 1 : i \in AnswersIn(s) \ {1}}
<1>1. /\ DOMAIN s = 1..Len(s) /\ DOMAIN Tail(s) = 1..Len(s) - 1 /\ Len(s) \in Nat \ {0}
      /\ \A i \in 1..Len(s) - 1 : Tail(s)[i] = s[i + 1]
  BY HeadTailProperties
<1>2. \A i \in DOMAIN s : i # 1 => i - 1 \in DOMAIN Tail(s) /\ Tail(s)[i - 1] = s[i]
  <2> SUFFICES ASSUME NEW i \in 1..Len(s), i # 1
               PROVE  i - 1 \in 1..Len(s) - 1 /\ Tail(s)[i - 1] = s[i]
    BY <1>1
  <2>1. i - 1 \in 1..Len(s) - 1 /\ (i - 1) + 1 = i
    BY <1>1
  <2> QED BY <1>1, <2>1
<1>3. ASSUME NEW i \in AnswersIn(Tail(s))
      PROVE  i + 1 \in AnswersIn(s) \ {1} /\ (i + 1) - 1 = i
  BY <1>1 DEF AnswersIn
<1>4. \A i \in AnswersIn(s) \ {1} : i - 1 \in AnswersIn(Tail(s))
  BY <1>1, <1>2 DEF AnswersIn
<1> QED BY <1>1, <1>2, <1>3, <1>4

LEMMA MatchInit == ClientInit => MatchInv
  BY DEF ClientInit, MatchInv, OneAtATime, AnswersIn

(* No result comes: what there is of results stays matched.                *)
LEMMA MatchKept ==
    ASSUME MatchInv, results' = results, ~GaveUp => OneAtATime'
    PROVE  MatchInv'
<1>1. GaveUp' <=> GaveUp
  BY DEF GaveUp
<1> QED BY <1>1 DEF MatchInv

LEMMA MatchRequest ==
    ASSUME SocketType, SocketType', MatchInv, NEW kind \in Kinds, NEW probe \in BOOLEAN, Request(kind, probe)
    PROVE  MatchInv'
<1>1. results' = results
  BY DEF Request
<1>2. ASSUME ~GaveUp PROVE OneAtATime'
  <2>1. pending = None /\ out = <<>> /\ resp = <<>> /\ AnswersIn(down) = {}
    BY <1>2 DEF Request, MatchInv, OneAtATime
  <2>2. pending' = [n |-> asked', kind |-> kind, probe |-> probe] /\ asked' = asked + 1 /\ resp' = resp /\ down' = down
    BY DEF Request
  <2>3. pending' # None
    <3>1. pending'.n = asked + 1 /\ asked \in Nat
      BY <2>2 DEF SocketType
    <3>2. None.n = 0
      BY DEF None
    <3> QED BY <3>1, <3>2
  <2>4. out' = <<>> \/ Asked'
    <3>1. CASE open
      <4>1. out' = <<[n |-> asked', kind |-> kind]>>
        BY <2>1, <3>1 DEF Request
      <4> QED BY <2>2, <4>1 DEF Asked
    <3>2. CASE ~open
      BY <2>1, <3>2 DEF Request
    <3> QED BY <3>1, <3>2
  <2>5. AnswersIn(down') = {} /\ resp' = <<>>
    BY <2>1, <2>2
  <2> QED BY <2>3, <2>4, <2>5 DEF OneAtATime
<1> QED BY <1>1, <1>2, MatchKept

LEMMA MatchAnswer ==
    ASSUME SocketType, MatchInv, NEW kind \in AnswerTypes, Answer(kind)
    PROVE  MatchInv'
<1>1. results' = results
  BY DEF Answer
<1>2. ASSUME ~GaveUp PROVE OneAtATime'
  <2> DEFINE e == [type |-> kind, n |-> Head(out).n]
  <2>1. /\ out # <<>> /\ down' = Append(down, e) /\ out' = Tail(out) /\ resp' = resp /\ pending' = pending
    BY DEF Answer
  <2>2. pending # None /\ AnswersIn(down) = {} /\ resp = <<>> /\ Asked
    BY <1>2, <2>1 DEF MatchInv, OneAtATime
  <2>3. Head(out) = out[1] /\ out' = <<>> /\ Head(out) \in RequestFrame
    <3>1. out \in Seq(RequestFrame) /\ Len(out) = 1
      BY <2>2 DEF SocketType, Asked
    <3>2. Head(out) = out[1] /\ Head(out) \in RequestFrame
      BY <3>1
    <3>3. Tail(out) \in Seq(RequestFrame) /\ Len(Tail(out)) = 0
      BY <3>1
    <3> QED BY <2>1, <3>2, <3>3, EmptySeq
  <2>4. Suits(out[1].kind, kind)
    <3>1. CASE out[1].kind # "Challenge"
      BY <2>3, <3>1 DEF Answer, Suits
    <3>2. CASE out[1].kind = "Challenge"
      <4>1. Expected["Challenge"] = "Challenge"
        BY DEF Expected
      <4> QED BY <2>3, <3>2, <4>1 DEF Answer, Suits
    <3> QED BY <3>1, <3>2
  <2>5. e \in SocketFrame /\ e.type \in AnswerTypes /\ e.type = kind /\ e.n = pending.n
    BY <2>2, <2>3 DEF Asked, SocketFrame, RequestFrame
  <2>6. Answered(pending, e)
    BY <2>2, <2>4, <2>5 DEF Answered, Asked
  <2> HIDE DEF e
  <2>7. /\ AnswersIn(down') = {Len(down) + 1} /\ down'[Len(down) + 1] = e /\ Len(down) + 1 \in DOMAIN down'
    BY <2>1, <2>2, <2>5, AnswersAppend DEF SocketType
  <2>8. Answered(pending', down'[Len(down) + 1])
    BY <2>1, <2>6, <2>7 DEF Answered
  <2> QED BY <2>1, <2>2, <2>3, <2>7, <2>8 DEF OneAtATime
<1> QED BY <1>1, <1>2, MatchKept

LEMMA MatchPush ==
    ASSUME SocketType, MatchInv, Push
    PROVE  MatchInv'
<1>1. results' = results /\ out' = out /\ resp' = resp /\ pending' = pending
  BY DEF Push
<1>2. PICK fs \in Seq(SocketFrame) : down' = down \o fs /\ \A i \in DOMAIN fs : fs[i].type \notin AnswerTypes
  BY PushedFrames DEF AnswerTypes
<1>3. AnswersIn(down') = AnswersIn(down) /\ \A i \in DOMAIN down : i \in DOMAIN down' /\ down'[i] = down[i]
  BY <1>2, AnswersBehind DEF SocketType
<1>4. OneAtATime => OneAtATime'
  BY <1>1, <1>3 DEF OneAtATime, Asked, Answered
<1> QED BY <1>1, <1>4, MatchKept DEF MatchInv

LEMMA MatchRead ==
    ASSUME SocketType, MatchInv, Read
    PROVE  MatchInv'
<1>1. /\ results' = results /\ out' = out /\ pending' = pending /\ down' = Tail(down) /\ down # <<>>
      /\ down \in Seq(SocketFrame) /\ resp \in Seq(SocketFrame)
  BY DEF Read, SocketType
<1>2. /\ Head(down) = down[1] /\ 1 \in DOMAIN down
      /\ \A i \in DOMAIN down : i # 1 => i - 1 \in DOMAIN down' /\ down'[i - 1] = down[i]
      /\ AnswersIn(down') = {i - 1 : i \in AnswersIn(down) \ {1}}
  BY <1>1, AnswersTail
<1>3. ASSUME ~GaveUp PROVE OneAtATime'
  <2>1. OneAtATime
    BY <1>3 DEF MatchInv
  <2>2. CASE 1 \in AnswersIn(down)
    <3>1. AnswersIn(down) = {1} /\ Answered(pending, down[1]) /\ resp = <<>> /\ out = <<>> /\ pending # None
      BY <2>1, <2>2 DEF OneAtATime
    <3>2. AnswersIn(down') = {}
      BY <1>2, <3>1
    <3>3. resp' = Append(resp, down[1])
      BY <1>2, <2>2 DEF Read, Route, AnswersIn, AnswerTypes
    <3>4. Len(resp') = 1 /\ resp'[1] = down[1]
      BY <3>1, <3>3
    <3> QED BY <1>1, <3>1, <3>2, <3>4 DEF OneAtATime, Answered
  <2>3. CASE 1 \notin AnswersIn(down)
    <3>1. down[1] \in SocketFrame
      BY <1>1, <1>2
    <3>2. down[1].type \in {"Deliver", "Notify"}
      BY <1>2, <2>3, <3>1 DEF AnswersIn, SocketFrame
    <3>3. resp' = resp
      BY <1>2, <3>2 DEF Read, Route
    <3>4. AnswersIn(down') = {i - 1 : i \in AnswersIn(down)}
      BY <1>2, <2>3
    <3>5. CASE AnswersIn(down) = {}
      <4>1. AnswersIn(down') = {}
        BY <3>4, <3>5
      <4> QED BY <1>1, <2>1, <3>3, <3>5, <4>1 DEF OneAtATime, Asked, Answered
    <3>6. CASE AnswersIn(down) # {}
      <4>1. PICK i \in DOMAIN down : AnswersIn(down) = {i} /\ Answered(pending, down[i])
        BY <2>1, <3>6 DEF OneAtATime
      <4>2. i # 1
        BY <2>3, <4>1
      <4>3. AnswersIn(down') = {i - 1} /\ i - 1 \in DOMAIN down' /\ down'[i - 1] = down[i]
        BY <1>2, <3>4, <4>1, <4>2
      <4>4. Answered(pending', down'[i - 1])
        BY <1>1, <4>1, <4>3 DEF Answered
      <4> QED BY <1>1, <2>1, <3>3, <3>6, <4>3, <4>4 DEF OneAtATime
    <3> QED BY <3>5, <3>6
  <2> QED BY <2>2, <2>3
<1> QED BY <1>1, <1>3, MatchKept

(* A result is added.                                                      *)
LEMMA MatchResult ==
    ASSUME SocketType, MatchInv, NEW r, Finish(r), r.res # "Timeout" =>
              (~GaveUp => r.of = r.n /\ r.res # "Protocol" /\ out' = <<>> /\ resp' = <<>> /\ AnswersIn(down') = {})
    PROVE  MatchInv'
<1>1. /\ pending' = None /\ results' = Append(results, r) /\ results \in Seq(Result)
  BY DEF Finish, SocketType
<1>2. /\ DOMAIN results' = 1..Len(results) + 1 /\ DOMAIN results = 1..Len(results) /\ Len(results) \in Nat
      /\ \A i \in DOMAIN results : results'[i] = results[i]
      /\ results'[Len(results) + 1] = r
  BY <1>1
<1> SUFFICES ASSUME ~GaveUp'
             PROVE  /\ OneAtATime'
                    /\ \A i \in DOMAIN results' : results'[i].of = results'[i].n /\ results'[i].res # "Protocol"
  BY DEF MatchInv
<1>3. ~GaveUp /\ r.res # "Timeout"
  <2>1. Len(results) + 1 \in DOMAIN results' /\ \A i \in DOMAIN results : i \in DOMAIN results'
    BY <1>2
  <2> QED BY <1>2, <2>1 DEF GaveUp
<1>4. r.of = r.n /\ r.res # "Protocol" /\ out' = <<>> /\ resp' = <<>> /\ AnswersIn(down') = {}
  BY <1>3
<1>5. \A i \in DOMAIN results : results[i].of = results[i].n /\ results[i].res # "Protocol"
  BY <1>3 DEF MatchInv
<1>6. \A i \in DOMAIN results' : i \in DOMAIN results \/ i = Len(results) + 1
  BY <1>2
<1> QED BY <1>1, <1>2, <1>4, <1>5, <1>6 DEF OneAtATime

LEMMA MatchFinish ==
    ASSUME SocketType, MatchInv, Receive \/ ReceiveClosed \/ ProbeTimeout
    PROVE  MatchInv'
<1>1. CASE Receive
  <2> DEFINE r == [n |-> pending.n, probe |-> pending.probe, of |-> Head(resp).n,
                   res |-> Outcome(pending.kind, Head(resp))]
  <2>1. /\ Finish(r) /\ out' = out /\ down' = down /\ resp' = Tail(resp) /\ resp # <<>>
        /\ pending \in InProgress /\ resp \in Seq(SocketFrame)
    BY <1>1 DEF Receive, SocketType
  <2>2. ASSUME ~GaveUp
        PROVE  r.of = r.n /\ r.res # "Protocol" /\ out' = <<>> /\ resp' = <<>> /\ AnswersIn(down') = {}
    <3>1. out = <<>> /\ AnswersIn(down) = {} /\ Len(resp) = 1 /\ Answered(pending, resp[1])
      BY <2>1, <2>2 DEF MatchInv, OneAtATime
    <3>2. Head(resp) = resp[1] /\ Tail(resp) = <<>>
      <4>1. Tail(resp) \in Seq(SocketFrame) /\ Len(Tail(resp)) = 0
        BY <2>1, <3>1
      <4> QED BY <2>1, <3>1, <4>1, EmptySeq
    <3>3. Outcome(pending.kind, Head(resp)) # "Protocol"
      BY <3>1, <3>2 DEF Answered, Suits, Outcome
    <3> QED BY <2>1, <3>1, <3>2, <3>3 DEF Answered
  <2> HIDE DEF r
  <2> QED BY <2>1, <2>2, MatchResult
<1>2. CASE ReceiveClosed
  <2> DEFINE r == [n |-> pending.n, probe |-> pending.probe, of |-> pending.n, res |-> "Closed"]
  <2>1. Finish(r) /\ out' = out /\ down' = down /\ resp' = resp /\ resp = <<>> /\ ~open
    BY <1>2 DEF ReceiveClosed
  <2>2. out = <<>> /\ down = <<>> /\ r.of = r.n /\ r.res = "Closed"
    BY <2>1 DEF SocketType
  <2>3. AnswersIn(down') = {}
    BY <2>1, <2>2 DEF AnswersIn
  <2> HIDE DEF r
  <2> QED BY <2>1, <2>2, <2>3, MatchResult
<1>3. CASE ProbeTimeout
  <2> DEFINE r == [n |-> pending.n, probe |-> pending.probe, of |-> pending.n, res |-> "Timeout"]
  <2>1. Finish(r) /\ r.res = "Timeout"
    BY <1>3 DEF ProbeTimeout
  <2> HIDE DEF r
  <2> QED BY <2>1, MatchResult
<1> QED BY <1>1, <1>2, <1>3

LEMMA MatchClose ==
    ASSUME SocketType, MatchInv, Close
    PROVE  MatchInv'
<1>1. /\ results' = results /\ out' = <<>> /\ down' = <<>> /\ resp' = resp /\ pending' = pending
  BY DEF Close
<1>2. AnswersIn(down') = {}
  BY <1>1 DEF AnswersIn
<1>3. OneAtATime => OneAtATime'
  <2> SUFFICES ASSUME OneAtATime PROVE OneAtATime'
    OBVIOUS
  <2>1. CASE resp = <<>>
    BY <1>1, <1>2, <2>1 DEF OneAtATime
  <2>2. CASE resp # <<>>
    <3>1. Len(resp) = 1 /\ Answered(pending, resp[1]) /\ pending # None
      BY <2>2 DEF OneAtATime
    <3> QED BY <1>1, <1>2, <3>1 DEF OneAtATime, Answered
  <2> QED BY <2>1, <2>2
<1> QED BY <1>1, <1>3, MatchKept DEF MatchInv

LEMMA MatchNext ==
    ASSUME SocketType, SocketType', MatchInv, [ClientNext]_clientVars
    PROVE  MatchInv'
<1>1. CASE NextDelivered \/ NextNotify \/ UNCHANGED clientVars
  <2>1. UNCHANGED <<out, down, resp, pending, results>>
    BY <1>1 DEF NextDelivered, NextNotify, clientVars
  <2> QED BY <2>1 DEF MatchInv, GaveUp, OneAtATime, Asked, Answered
<1> QED BY <1>1, MatchRequest, MatchAnswer, MatchPush, MatchRead, MatchFinish, MatchClose
        DEF ClientNext, Kinds, AnswerTypes

-----------------------------------------------------------------------------
(* Envelopes.                                                              *)

Deliveries(s) == {i \in DOMAIN s : s[i].type = "Deliver"}

Seen == drained \o deliver

(* What was drained or waits is 1, 2, ...; what comes is the rest, rising. *)
OrderedPush ==
    /\ Len(Seen) <= pushed
    /\ \A i \in 1..Len(Seen) : Seen[i] = i
    /\ \A i, j \in Deliveries(down) : i < j => down[i].n < down[j].n
    /\ {down[i].n : i \in Deliveries(down)} = IF open THEN Len(Seen) + 1..pushed ELSE {}

LEMMA SeenType == SocketType => Seen \in Seq(Nat) /\ Len(Seen) \in Nat
  BY ConcatProperties DEF SocketType, Seen

LEMMA OrderedGivesProperty ==
    ASSUME SocketType, OrderedPush
    PROVE  DeliveredInOrder
<1>1. DOMAIN Seen = 1..Len(Seen)
  BY SeenType
<1> QED BY <1>1 DEF OrderedPush, DeliveredInOrder, Seen, Deliveries

LEMMA DeliveriesBehind ==
    ASSUME NEW s \in Seq(SocketFrame), NEW t \in Seq(SocketFrame)
    PROVE  /\ Deliveries(s \o t) = Deliveries(s) \union {Len(s) + k : k \in Deliveries(t)}
           /\ \A i \in Deliveries(s) : i \in 1..Len(s) /\ (s \o t)[i] = s[i]
           /\ \A k \in Deliveries(t) : k \in 1..Len(t) /\ (s \o t)[Len(s) + k] = t[k]
<1>1. /\ DOMAIN s = 1..Len(s) /\ DOMAIN t = 1..Len(t) /\ DOMAIN (s \o t) = 1..Len(s) + Len(t)
      /\ \A i \in 1..Len(s) : (s \o t)[i] = s[i]
      /\ \A i \in Len(s) + 1..Len(s) + Len(t) : (s \o t)[i] = t[i - Len(s)]
      /\ Len(s) \in Nat /\ Len(t) \in Nat
  BY ConcatProperties
<1>2. \A k \in 1..Len(t) : Len(s) + k \in 1..Len(s) + Len(t) /\ (s \o t)[Len(s) + k] = t[k]
  <2> SUFFICES ASSUME NEW k \in 1..Len(t)
               PROVE  Len(s) + k \in 1..Len(s) + Len(t) /\ (s \o t)[Len(s) + k] = t[k]
    OBVIOUS
  <2>1. Len(s) + k \in Len(s) + 1..Len(s) + Len(t) /\ (Len(s) + k) - Len(s) = k
    BY <1>1
  <2> QED BY <1>1, <2>1
<1>3. \A i \in 1..Len(s) + Len(t) : i \in 1..Len(s) \/ \E k \in 1..Len(t) : i = Len(s) + k
  <2> SUFFICES ASSUME NEW i \in 1..Len(s) + Len(t), i \notin 1..Len(s)
               PROVE  \E k \in 1..Len(t) : i = Len(s) + k
    OBVIOUS
  <2>1. i - Len(s) \in 1..Len(t) /\ i = Len(s) + (i - Len(s))
    BY <1>1
  <2> QED BY <2>1
<1>4. Deliveries(s) \subseteq 1..Len(s) /\ Deliveries(t) \subseteq 1..Len(t)
  BY <1>1 DEF Deliveries
<1>5. ASSUME NEW i \in Deliveries(s \o t)
      PROVE  i \in Deliveries(s) \union {Len(s) + k : k \in Deliveries(t)}
  <2>1. i \in 1..Len(s) + Len(t) /\ (s \o t)[i].type = "Deliver"
    BY <1>1 DEF Deliveries
  <2>2. CASE i \in 1..Len(s)
    BY <1>1, <2>1, <2>2 DEF Deliveries
  <2>3. CASE i \notin 1..Len(s)
    <3>1. PICK k \in 1..Len(t) : i = Len(s) + k
      BY <1>3, <2>1, <2>3
    <3>2. t[k].type = "Deliver"
      BY <1>2, <2>1, <3>1
    <3> QED BY <1>1, <3>1, <3>2 DEF Deliveries
  <2> QED BY <2>2, <2>3
<1>6. \A i \in Deliveries(s) : i \in Deliveries(s \o t)
  BY <1>1 DEF Deliveries
<1>7. \A k \in Deliveries(t) : Len(s) + k \in Deliveries(s \o t)
  BY <1>1, <1>2 DEF Deliveries
<1> QED BY <1>1, <1>2, <1>4, <1>5, <1>6, <1>7

LEMMA OrderedInit == ClientInit => OrderedPush
<1> SUFFICES ASSUME ClientInit PROVE OrderedPush
  OBVIOUS
<1>1. drained = <<>> /\ deliver = <<>> /\ down = <<>> /\ pushed = 0
  BY DEF ClientInit
<1>2. Seen = <<>> /\ Len(Seen) = 0 /\ Deliveries(down) = {}
  BY <1>1 DEF Seen, Deliveries
<1> QED BY <1>1, <1>2 DEF OrderedPush

LEMMA OrderedAnswer ==
    ASSUME SocketType, OrderedPush, NEW kind \in AnswerTypes, Answer(kind)
    PROVE  OrderedPush'
<1> DEFINE e == [type |-> kind, n |-> Head(out).n]
           t == <<e>>
<1>1. /\ down' = Append(down, e) /\ UNCHANGED <<drained, deliver, pushed, open>> /\ down \in Seq(SocketFrame)
      /\ out # <<>> /\ out \in Seq(RequestFrame)
  BY DEF Answer, SocketType
<1>2. Head(out) \in RequestFrame
  BY <1>1
<1>3. e \in SocketFrame /\ e.type # "Deliver"
  BY <1>2 DEF SocketFrame, RequestFrame, AnswerTypes
<1> HIDE DEF e
<1>4. down' = down \o t /\ t \in Seq(SocketFrame)
  BY <1>1, <1>3
<1>5. Deliveries(t) = {}
  BY <1>3 DEF Deliveries
<1> HIDE DEF t
<1>6. Deliveries(down') = Deliveries(down) /\ \A i \in Deliveries(down) : down'[i] = down[i]
  <2>1. /\ Deliveries(down \o t) = Deliveries(down) \union {Len(down) + k : k \in Deliveries(t)}
        /\ \A i \in Deliveries(down) : (down \o t)[i] = down[i]
    BY <1>1, <1>4, DeliveriesBehind
  <2>2. {Len(down) + k : k \in Deliveries(t)} = {}
    BY <1>5
  <2> QED BY <1>4, <2>1, <2>2
<1> QED BY <1>1, <1>6 DEF OrderedPush, Seen

LEMMA OrderedByPush ==
    ASSUME SocketType, OrderedPush, Push
    PROVE  OrderedPush'
<1>1. PICK fs \in Seq(SocketFrame) :
         /\ down' = down \o fs /\ pushed' = pushed + 1 /\ Len(fs) \in {1, 2}
         /\ \E k \in DOMAIN fs : /\ fs[k].type = "Deliver" /\ fs[k].n = pushed'
                                 /\ \A i \in DOMAIN fs \ {k} : fs[i].type = "Notify"
  BY PushedFrames
<1>2. PICK k \in DOMAIN fs : /\ fs[k].type = "Deliver" /\ fs[k].n = pushed'
                             /\ \A i \in DOMAIN fs \ {k} : fs[i].type = "Notify"
  BY <1>1
<1>3. open /\ UNCHANGED <<drained, deliver, open>> /\ down \in Seq(SocketFrame) /\ pushed \in Nat
  BY DEF Push, SocketType
<1>4. Deliveries(fs) = {k}
  BY <1>2 DEF Deliveries
<1> DEFINE last == Len(down) + k
<1>5. /\ Deliveries(down') = Deliveries(down) \union {last} /\ down'[last] = fs[k]
      /\ \A i \in Deliveries(down) : i \in 1..Len(down) /\ down'[i] = down[i]
      /\ k \in 1..Len(fs)
  BY <1>1, <1>3, <1>4, DeliveriesBehind
<1>6. last \in Nat /\ (\A i \in Deliveries(down) : i \in Nat /\ i < last)
  BY <1>3, <1>5
<1> HIDE DEF last
<1>7. down'[last].n = pushed + 1
  BY <1>1, <1>2, <1>5
<1>8. {down[i].n : i \in Deliveries(down)} = Len(Seen) + 1..pushed /\ Len(Seen) <= pushed /\ Len(Seen) \in Nat
  BY <1>3, SeenType DEF OrderedPush
<1>9. \A i \in Deliveries(down) : down[i].n \in Len(Seen) + 1..pushed
  BY <1>8
<1>10. {down'[i].n : i \in Deliveries(down')} = Len(Seen) + 1..pushed'
  <2>1. {down'[i].n : i \in Deliveries(down')} = {down[i].n : i \in Deliveries(down)} \union {pushed + 1}
    BY <1>5, <1>7
  <2> DEFINE L == Len(Seen)
  <2>2. L \in Nat /\ L <= pushed
    BY <1>8
  <2>3. {down[i].n : i \in Deliveries(down)} = L + 1..pushed
    BY <1>8
  <2> HIDE DEF L
  <2>4. (L + 1..pushed) \union {pushed + 1} = L + 1..pushed + 1
    BY <1>3, <2>2
  <2>5. {down'[i].n : i \in Deliveries(down')} = L + 1..pushed + 1
    BY <2>1, <2>3, <2>4
  <2> QED BY <1>1, <2>5 DEF L
<1>11. \A i, j \in Deliveries(down') : i < j => down'[i].n < down'[j].n
  <2> SUFFICES ASSUME NEW i \in Deliveries(down'), NEW j \in Deliveries(down'), i < j
               PROVE  down'[i].n < down'[j].n
    OBVIOUS
  <2>1. CASE j = last
    <3>1. i \in Deliveries(down)
      BY <1>5, <1>6, <2>1
    <3> QED BY <1>3, <1>5, <1>7, <1>8, <1>9, <2>1, <3>1
  <2>2. CASE j # last
    <3>1. j \in Deliveries(down) /\ i \in Deliveries(down)
      BY <1>5, <1>6, <2>2
    <3> QED BY <1>5, <3>1 DEF OrderedPush
  <2> QED BY <2>1, <2>2
<1>12. Seen' = Seen
  BY <1>3 DEF Seen
<1>13. Len(Seen') <= pushed'
  BY <1>1, <1>3, <1>8, <1>12
<1>14. \A i \in 1..Len(Seen') : Seen'[i] = i
  BY <1>12 DEF OrderedPush
<1>15. open'
  BY <1>3
<1> HIDE DEF last
<1> QED BY <1>10, <1>11, <1>12, <1>13, <1>14, <1>15 DEF OrderedPush

LEMMA OrderedByRead ==
    ASSUME SocketType, OrderedPush, Read
    PROVE  OrderedPush'
<1>1. /\ down' = Tail(down) /\ down # <<>> /\ down \in Seq(SocketFrame) /\ deliver \in Seq(Nat) /\ drained \in Seq(Nat)
      /\ open /\ UNCHANGED <<drained, pushed, open>> /\ pushed \in Nat
  BY DEF Read, SocketType
<1>2. /\ Head(down) = down[1] /\ 1 \in DOMAIN down /\ DOMAIN down = 1..Len(down) /\ Len(down) \in Nat
      /\ \A i \in DOMAIN down : i # 1 => i - 1 \in DOMAIN down' /\ down'[i - 1] = down[i]
  BY <1>1, AnswersTail
<1>3. DOMAIN down' = 1..Len(down) - 1 /\ \A i \in DOMAIN down' : i + 1 \in DOMAIN down /\ down'[i] = down[i + 1]
  BY <1>1, HeadTailProperties
<1>4. Deliveries(down') = {i - 1 : i \in Deliveries(down) \ {1}}
  <2>1. ASSUME NEW i \in Deliveries(down') PROVE i + 1 \in Deliveries(down) \ {1} /\ (i + 1) - 1 = i
    BY <1>2, <1>3 DEF Deliveries
  <2>2. \A i \in Deliveries(down) \ {1} : i - 1 \in Deliveries(down')
    BY <1>2 DEF Deliveries
  <2> QED BY <2>1, <2>2
<1>5. \A i \in Deliveries(down) : i \in Nat \ {0} /\ (i # 1 => down'[i - 1] = down[i])
  BY <1>2 DEF Deliveries
<1>6. {down'[i].n : i \in Deliveries(down')} = {down[i].n : i \in Deliveries(down) \ {1}}
  BY <1>4, <1>5
<1>7. \A i, j \in Deliveries(down') : i < j => down'[i].n < down'[j].n
  <2> SUFFICES ASSUME NEW i \in Deliveries(down'), NEW j \in Deliveries(down'), i < j
               PROVE  down'[i].n < down'[j].n
    OBVIOUS
  <2>1. PICK p \in Deliveries(down) \ {1} : i = p - 1
    BY <1>4
  <2>2. PICK q \in Deliveries(down) \ {1} : j = q - 1
    BY <1>4
  <2>3. p < q
    BY <1>5, <2>1, <2>2
  <2> QED BY <1>5, <2>1, <2>2, <2>3 DEF OrderedPush
<1>8. {down[i].n : i \in Deliveries(down)} = Len(Seen) + 1..pushed /\ Len(Seen) <= pushed /\ Len(Seen) \in Nat
  BY <1>1, SeenType DEF OrderedPush
<1>9. CASE 1 \notin Deliveries(down)
  <2>1. deliver' = deliver
    BY <1>2, <1>9 DEF Read, Route, Deliveries
  <2>2. Seen' = Seen
    BY <1>1, <2>1 DEF Seen
  <2>3. {down'[i].n : i \in Deliveries(down')} = Len(Seen) + 1..pushed
    BY <1>6, <1>8, <1>9
  <2> QED BY <1>1, <1>7, <2>2, <2>3 DEF OrderedPush
<1>10. CASE 1 \in Deliveries(down)
  <2> DEFINE x == down[1].n
             L == Len(Seen)
  <2>1. deliver' = Append(deliver, x)
    BY <1>2, <1>10 DEF Read, Route, Deliveries
  <2>2. \A i \in Deliveries(down) \ {1} : x < down[i].n
    BY <1>5, <1>10 DEF OrderedPush
  <2>3. x \in L + 1..pushed /\ \A i \in Deliveries(down) : down[i].n \in L + 1..pushed
    BY <1>8, <1>10
  <2>4. \A n \in L + 1..pushed : \E i \in Deliveries(down) : n = down[i].n
    BY <1>8
  <2> HIDE DEF x
  <2>5. x = L + 1
    <3>1. L + 1 \in L + 1..pushed
      BY <1>1, <1>8, <2>3
    <3>2. PICK i \in Deliveries(down) : L + 1 = down[i].n
      BY <2>4, <3>1
    <3>3. CASE i = 1
      BY <3>2, <3>3 DEF x
    <3>4. CASE i # 1
      BY <1>8, <2>2, <2>3, <3>2, <3>4
    <3> QED BY <3>3, <3>4
  <2>6. {down'[i].n : i \in Deliveries(down')} = L + 2..pushed
    <3>1. {down[i].n : i \in Deliveries(down) \ {1}} \subseteq L + 2..pushed
      BY <1>1, <1>8, <2>2, <2>3, <2>5
    <3>2. ASSUME NEW n \in L + 2..pushed PROVE \E i \in Deliveries(down) \ {1} : n = down[i].n
      <4>1. n \in L + 1..pushed /\ n # x
        BY <1>1, <1>8, <2>5
      <4> QED BY <2>4, <4>1 DEF x
    <3> QED BY <1>6, <3>1, <3>2
  <2>7. Seen' = Append(Seen, x)
    BY <1>1, <2>1, <2>3 DEF Seen
  <2>8. Len(Seen') = L + 1 /\ \A i \in 1..L : Seen'[i] = Seen[i]
    BY <2>7, SeenType
  <2>9. Seen'[L + 1] = L + 1
    BY <2>5, <2>7, SeenType
  <2>10. \A i \in 1..L + 1 : Seen'[i] = i
    <3>1. \A i \in 1..L + 1 : i \in 1..L \/ i = L + 1
      BY <1>8
    <3> QED BY <2>8, <2>9, <3>1 DEF OrderedPush
  <2>11. L + 1 <= pushed /\ (L + 1) + 1 = L + 2
    BY <1>1, <1>8, <2>3, <2>5
  <2> QED BY <1>1, <1>7, <2>6, <2>8, <2>10, <2>11 DEF OrderedPush
<1> QED BY <1>9, <1>10

LEMMA OrderedByDrain ==
    ASSUME SocketType, OrderedPush, NextDelivered
    PROVE  OrderedPush'
<1>1. /\ deliver \in Seq(Nat) /\ drained \in Seq(Nat) /\ deliver # <<>>
      /\ drained' = Append(drained, Head(deliver)) /\ deliver' = Tail(deliver)
      /\ UNCHANGED <<down, pushed, open>>
  BY DEF NextDelivered, SocketType
<1> DEFINE a == Append(drained, Head(deliver))
           b == Tail(deliver)
<1>2. /\ a \in Seq(Nat) /\ b \in Seq(Nat) /\ Len(a) = Len(drained) + 1 /\ Len(b) = Len(deliver) - 1
      /\ Len(drained) \in Nat /\ Len(deliver) \in Nat \ {0}
      /\ \A i \in 1..Len(drained) : a[i] = drained[i]
      /\ a[Len(drained) + 1] = deliver[1]
      /\ \A i \in 1..Len(b) : b[i] = deliver[i + 1]
  BY <1>1, HeadTailProperties
<1> HIDE DEF a, b
<1>3. /\ a \o b \in Seq(Nat) /\ Len(a \o b) = Len(a) + Len(b)
      /\ \A i \in 1..Len(a) : (a \o b)[i] = a[i]
      /\ \A i \in Len(a) + 1..Len(a) + Len(b) : (a \o b)[i] = b[i - Len(a)]
  <2>1. a \in Seq(Nat) /\ b \in Seq(Nat)
    BY <1>2
  <2> QED BY <2>1, ConcatProperties
<1>4. /\ Seen \in Seq(Nat) /\ Len(Seen) = Len(drained) + Len(deliver)
      /\ \A i \in 1..Len(drained) : Seen[i] = drained[i]
      /\ \A i \in Len(drained) + 1..Len(drained) + Len(deliver) : Seen[i] = deliver[i - Len(drained)]
  BY <1>1, ConcatProperties DEF Seen
<1>5. Len(a \o b) = Len(Seen)
  BY <1>2, <1>3, <1>4
<1>6. ASSUME NEW i \in 1..Len(Seen) PROVE (a \o b)[i] = Seen[i]
  <2>1. CASE i <= Len(drained)
    <3>1. i \in 1..Len(drained) /\ i \in 1..Len(a)
      BY <1>2, <2>1
    <3> QED BY <1>2, <1>3, <1>4, <3>1
  <2>2. CASE i = Len(drained) + 1
    <3>1. i \in 1..Len(a) /\ i - Len(drained) = 1 /\ i \in Len(drained) + 1..Len(drained) + Len(deliver)
      BY <1>2, <2>2
    <3> QED BY <1>2, <1>3, <1>4, <2>2, <3>1
  <2>3. CASE i > Len(drained) + 1
    <3> DEFINE d == i - Len(a)
    <3>1. d \in 1..Len(b) /\ d + 1 = i - Len(drained) /\ i \in Len(a) + 1..Len(a) + Len(b)
          /\ i \in Len(drained) + 1..Len(drained) + Len(deliver)
      <4>1. i \in Nat /\ i <= Len(drained) + Len(deliver)
        BY <1>2, <1>4
      <4> QED BY <1>2, <2>3, <4>1
    <3>2. (a \o b)[i] = b[d] /\ Seen[i] = deliver[d + 1]
      BY <1>3, <1>4, <3>1
    <3> QED BY <1>2, <3>1, <3>2
  <2>4. i \in Nat /\ Len(drained) \in Nat
    BY <1>2
  <2>5. i <= Len(drained) \/ i = Len(drained) + 1 \/ i > Len(drained) + 1
    BY <2>4
  <2> QED BY <2>1, <2>2, <2>3, <2>5
<1>7. a \o b = Seen
  BY <1>3, <1>4, <1>5, <1>6, SeqEqual
<1>8. Seen' = a \o b
  BY <1>1 DEF Seen, a, b
<1>9. Seen' = Seen
  BY <1>7, <1>8
<1> QED BY <1>1, <1>9 DEF OrderedPush

LEMMA OrderedByClose ==
    ASSUME SocketType, OrderedPush, Close
    PROVE  OrderedPush'
<1>1. down' = <<>> /\ open' = FALSE /\ UNCHANGED <<drained, deliver, pushed>>
  BY DEF Close
<1>2. Deliveries(down') = {} /\ Seen' = Seen
  BY <1>1 DEF Deliveries, Seen
<1> QED BY <1>1, <1>2 DEF OrderedPush

LEMMA OrderedClient ==
    ASSUME SocketType, OrderedPush, [ClientNext]_clientVars
    PROVE  OrderedPush'
<1>1. CASE UNCHANGED <<drained, deliver, down, pushed, open>>
  BY <1>1 DEF OrderedPush, Seen
<1>2. CASE \/ \E kind \in Requests : Request(kind, FALSE)
           \/ Request("Challenge", TRUE) \/ Receive \/ ReceiveClosed \/ ProbeTimeout \/ NextNotify \/ UNCHANGED clientVars
  BY <1>1, <1>2 DEF Request, Receive, ReceiveClosed, ProbeTimeout, NextNotify, clientVars
<1> QED BY <1>2, OrderedAnswer, OrderedByPush, OrderedByRead, OrderedByDrain, OrderedByClose
        DEF ClientNext, AnswerTypes

(* Until a probe gives up, what a call returns is the relay's answer to    *)
(* it; envelopes are drained in the order in which they were pushed.       *)
THEOREM AnswersMatchHolds == ClientSpec => []AnswersMatch
<1>1. ClientSpec => []MatchInv
  BY SocketTypeCorrect, MatchInit, MatchNext, PTL DEF ClientSpec
<1>2. ClientSpec => []OrderedPush
  BY SocketTypeCorrect, OrderedInit, OrderedClient, PTL DEF ClientSpec
<1>3. MatchInv => NeverOffset
  BY DEF MatchInv, NeverOffset, GaveUp, OneAtATime
<1>4. SocketType /\ MatchInv /\ OrderedPush => AnswersMatch
  BY <1>3, OrderedGivesProperty DEF AnswersMatch
<1> QED BY <1>1, <1>2, <1>4, SocketTypeCorrect, PTL

-----------------------------------------------------------------------------
(* Members in step with the relay's order.                                 *)

IsCommit(e, g) == e.kind = "Commit" /\ e.group = g

(* The Commits of g in a line, all of them and those of a stretch.         *)
IdsIn(s, S, g) == {s[n].id : n \in {i \in S : IsCommit(s[i], g)}}

Ids(s, g) == IdsIn(s, DOMAIN s, g)

RiseIn(s, g) == \A i, j \in DOMAIN s : i < j /\ IsCommit(s[i], g) /\ IsCommit(s[j], g) => s[i].id < s[j].id

(* The history h begins the order o; what is left of it.                   *)
Begins(h, o) == Len(h) <= Len(o) /\ \A n \in 1..Len(h) : h[n] = o[n]

Due(h, o) == {o[n] : n \in Len(h) + 1..Len(o)}

OnCourse(h, s, o, g) == Begins(h, o) /\ Ids(s, g) = Due(h, o) /\ RiseIn(s, g)

(* An order of Commits built by now.                                       *)
Sorted(o, c) == /\ \A n \in 1..Len(o) : o[n] <= c
                /\ \A m, n \in 1..Len(o) : m < n => o[m] < o[n]

(* A Commit is in the order o right behind the history it extends.         *)
Placed(e, o) == Begins(e.hist, o) /\ Len(e.hist) < Len(o) /\ o[Len(e.hist) + 1] = e.id

LEMMA InIds ==
    ASSUME NEW s, NEW S, NEW g, NEW x
    PROVE  x \in IdsIn(s, S, g) <=> \E i \in S : IsCommit(s[i], g) /\ x = s[i].id
  BY DEF IdsIn

LEMMA HistoryItems ==
    ASSUME NEW h \in Histories
    PROVE  /\ h \in Seq(1..MaxCommits) /\ Len(h) \in Nat
           /\ \A n \in 1..Len(h) : h[n] \in 1..MaxCommits /\ h[n] \in Nat
<1> DEFINE T == 1..MaxCommits
<1>1. h \in Seq(T) /\ \A x \in T : x \in Nat
  BY DEF Histories
<1> HIDE DEF T
<1>2. Len(h) \in Nat /\ \A n \in 1..Len(h) : h[n] \in T
  BY <1>1
<1> QED BY <1>1, <1>2 DEF T

LEMMA BeginsIsPrefix ==
    ASSUME NEW h \in Histories, NEW o \in Histories
    PROVE  IsPrefix(h, o) <=> Begins(h, o)
<1>1. /\ h \in Seq(1..MaxCommits) /\ o \in Seq(1..MaxCommits) /\ Len(h) \in Nat /\ Len(o) \in Nat
      /\ \A n \in 1..Len(o) : o[n] \in 1..MaxCommits
  BY HistoryItems
<1> DEFINE a == SubSeq(h, 1, Len(h))
           b == SubSeq(o, 1, Len(h))
<1>2. IsPrefix(h, o) <=> Len(h) <= Len(o) /\ a = b
  BY DEF IsPrefix
<1>3. ASSUME Len(h) <= Len(o)
      PROVE  (a = b) <=> \A n \in 1..Len(h) : h[n] = o[n]
  <2>1. \A n \in 1..Len(h) : o[n] \in 1..MaxCommits
    BY <1>1, <1>3
  <2>2. a = h
    BY <1>1, SubSeqFull
  <2>3. /\ b \in Seq(1..MaxCommits) /\ Len(b) = Len(h) /\ \A n \in 1..Len(h) : b[n] = o[n]
    <3>1. b \in Seq(1..MaxCommits) /\ Len(b) = (IF 1 <= Len(h) THEN Len(h) - 1 + 1 ELSE 0)
          /\ \A n \in 1..Len(h) - 1 + 1 : b[n] = o[1 + n - 1]
      BY <1>1, <2>1, SubSeqProperties
    <3> HIDE DEF b
    <3>2. Len(b) = Len(h)
      BY <1>1, <3>1
    <3>3. ASSUME NEW n \in 1..Len(h) PROVE b[n] = o[n]
      <4>1. n \in 1..Len(h) - 1 + 1 /\ 1 + n - 1 = n
        BY <1>1
      <4> QED BY <3>1, <4>1
    <3> QED BY <3>1, <3>2, <3>3
  <2> HIDE DEF a, b
  <2>4. ASSUME \A n \in 1..Len(h) : h[n] = o[n] PROVE h = b
    BY <1>1, <2>3, <2>4, SeqEqual
  <2> QED BY <2>2, <2>3, <2>4
<1> QED BY <1>2, <1>3 DEF Begins

(* InStep, of a history, a line and an order.                              *)
Steady(hist, line, o, g) ==
    LET due  == {i \in DOMAIN line : line[i].kind = "Commit" /\ line[i].group = g}
    IN /\ IsPrefix(hist, o)
       /\ {line[i].id : i \in due} = {o[n] : n \in Len(hist) + 1..Len(o)}
       /\ \A i, j \in due : i < j => line[i].id < line[j].id

LEMMA SteadyIsOnCourse ==
    ASSUME NEW h \in Histories, NEW o \in Histories, NEW s, NEW g
    PROVE  Steady(h, s, o, g) <=> OnCourse(h, s, o, g)
<1>1. IsPrefix(h, o) <=> Begins(h, o)
  BY BeginsIsPrefix
<1> DEFINE due == {i \in DOMAIN s : s[i].kind = "Commit" /\ s[i].group = g}
<1>2. {s[i].id : i \in due} = Ids(s, g)
  BY DEF Ids, IdsIn, IsCommit
<1>3. (\A i, j \in due : i < j => s[i].id < s[j].id) <=> RiseIn(s, g)
  BY DEF RiseIn, IsCommit
<1>4. Steady(h, s, o, g) <=> /\ IsPrefix(h, o)
                            /\ {s[i].id : i \in due} = {o[n] : n \in Len(h) + 1..Len(o)}
                            /\ \A i, j \in due : i < j => s[i].id < s[j].id
  BY DEF Steady
<1> HIDE DEF due
<1> QED BY <1>1, <1>2, <1>3, <1>4 DEF OnCourse, Due

LEMMA InStepIsOnCourse ==
    ASSUME DaemonType, NEW w \in Wallets, NEW g \in DOMAIN groups[w]
    PROVE  InStep(w, g) <=> OnCourse(groups[w][g].hist, Waiting(w), order[g], g)
<1>1. InStep(w, g) = Steady(groups[w][g].hist, Waiting(w), order[g], g)
  BY Zenon DEF InStep, Steady
<1>2. groups[w][g].hist \in Histories /\ order[g] \in Histories
  <2>1. groups[w] \in Registries
    BY SameTables
  <2>2. groups[w][g] \in GroupState /\ g \in Groups
    BY <2>1, RegistryRows
  <2> QED BY <2>2, HandleParts DEF DaemonType
<1> QED BY <1>1, <1>2, SteadyIsOnCourse

LEMMA InStepIsOnCourseNext ==
    ASSUME DaemonType', NEW w \in Wallets, NEW g \in DOMAIN groups'[w]
    PROVE  InStep(w, g)' <=> OnCourse(groups'[w][g].hist, Waiting(w)', order'[g], g)
<1>1. InStep(w, g)' = Steady(groups'[w][g].hist, Waiting(w)', order'[g], g)
  BY Zenon DEF InStep, Steady
<1>2. groups'[w][g].hist \in Histories /\ order'[g] \in Histories
  <2>1. groups'[w] \in Registries
    BY DEF DaemonType
  <2>2. groups'[w][g] \in GroupState /\ g \in Groups
    BY <2>1, RegistryRows
  <2> QED BY <2>2, HandleParts DEF DaemonType
<1> QED BY <1>1, <1>2, SteadyIsOnCourse

(* One sequence after the other.                                           *)
LEMMA IdsJoined ==
    ASSUME NEW T, NEW s \in Seq(T), NEW t \in Seq(T), NEW g
    PROVE  Ids(s \o t, g) = Ids(s, g) \cup Ids(t, g)
<1> DEFINE x == s \o t
<1>1. /\ Len(s) \in Nat /\ Len(t) \in Nat /\ DOMAIN s = 1..Len(s) /\ DOMAIN t = 1..Len(t)
      /\ DOMAIN x = 1..Len(s) + Len(t)
      /\ \A i \in 1..Len(s) : x[i] = s[i]
      /\ \A i \in Len(s) + 1..Len(s) + Len(t) : x[i] = t[i - Len(s)]
  BY Joined
<1> HIDE DEF x
<1>2. ASSUME NEW d \in Ids(x, g) PROVE d \in Ids(s, g) \cup Ids(t, g)
  <2>1. PICK i \in DOMAIN x : IsCommit(x[i], g) /\ d = x[i].id
    BY <1>2 DEF Ids, IdsIn
  <2>2. CASE i \in 1..Len(s)
    <3>1. i \in DOMAIN s /\ x[i] = s[i]
      BY <1>1, <2>2
    <3> QED BY <2>1, <3>1 DEF Ids, IdsIn
  <2>3. CASE i \in Len(s) + 1..Len(s) + Len(t)
    <3>1. i - Len(s) \in DOMAIN t /\ x[i] = t[i - Len(s)]
      BY <1>1, <2>3
    <3> QED BY <2>1, <3>1 DEF Ids, IdsIn
  <2> QED BY <1>1, <2>1, <2>2, <2>3
<1>3. ASSUME NEW d \in Ids(s, g) PROVE d \in Ids(x, g)
  <2>1. PICK i \in DOMAIN s : IsCommit(s[i], g) /\ d = s[i].id
    BY <1>3 DEF Ids, IdsIn
  <2>2. i \in DOMAIN x /\ x[i] = s[i]
    BY <1>1, <2>1
  <2> QED BY <2>1, <2>2 DEF Ids, IdsIn
<1>4. ASSUME NEW d \in Ids(t, g) PROVE d \in Ids(x, g)
  <2>1. PICK i \in DOMAIN t : IsCommit(t[i], g) /\ d = t[i].id
    BY <1>4 DEF Ids, IdsIn
  <2> DEFINE j == Len(s) + i
  <2>2. j \in DOMAIN x /\ j \in Len(s) + 1..Len(s) + Len(t) /\ j - Len(s) = i
    BY <1>1, <2>1
  <2> HIDE DEF j
  <2>3. x[j] = t[i]
    BY <1>1, <2>2
  <2> QED BY <2>1, <2>2, <2>3 DEF Ids, IdsIn
<1>5. Ids(x, g) = Ids(s, g) \cup Ids(t, g)
  BY <1>2, <1>3, <1>4
<1> QED BY <1>5 DEF x

LEMMA IdsOne ==
    ASSUME NEW e, NEW g
    PROVE  Ids(<<e>>, g) = IF IsCommit(e, g) THEN {e.id} ELSE {}
<1> DEFINE s == <<e>>
<1>1. DOMAIN s = {1} /\ s[1] = e
  OBVIOUS
<1> HIDE DEF s
<1>2. Ids(s, g) = IF IsCommit(e, g) THEN {e.id} ELSE {}
  BY <1>1 DEF Ids, IdsIn
<1> QED BY <1>2 DEF s

LEMMA IdsNone ==
    ASSUME NEW g
    PROVE  Ids(<<>>, g) = {}
<1>1. DOMAIN <<>> = {}
  OBVIOUS
<1> QED BY <1>1 DEF Ids, IdsIn

LEMMA IdsAppend ==
    ASSUME NEW T, NEW s \in Seq(T), NEW e \in T, NEW g
    PROVE  Ids(Append(s, e), g) = Ids(s, g) \cup (IF IsCommit(e, g) THEN {e.id} ELSE {})
<1> DEFINE one == <<e>>
<1>1. Append(s, e) = s \o one /\ one \in Seq(T)
  BY AppendIsConcat
<1>2. Ids(one, g) = IF IsCommit(e, g) THEN {e.id} ELSE {}
  BY IdsOne
<1> HIDE DEF one
<1> QED BY <1>1, <1>2, IdsJoined

(* Fewer wait, of which none is lost: a line less some other items.        *)
LEMMA IdsLess ==
    ASSUME NEW s, NEW t, NEW g, Within(t, s)
    PROVE  Ids(t, g) \subseteq Ids(s, g)
<1>1. PICK at \in [DOMAIN t -> DOMAIN s] : \A i \in DOMAIN t : t[i] = s[at[i]]
  BY DEF Within
<1> QED BY <1>1 DEF Ids, IdsIn

LEMMA RiseLess ==
    ASSUME NEW s, NEW t, NEW g, Within(t, s), RiseIn(s, g)
    PROVE  RiseIn(t, g)
<1>1. PICK at \in [DOMAIN t -> DOMAIN s] :
            /\ \A i \in DOMAIN t : t[i] = s[at[i]]
            /\ \A i, j \in DOMAIN t : i < j => at[i] < at[j]
  BY DEF Within
<1> SUFFICES ASSUME NEW i \in DOMAIN t, NEW j \in DOMAIN t, i < j, IsCommit(t[i], g), IsCommit(t[j], g)
             PROVE  t[i].id < t[j].id
  BY DEF RiseIn
<1>2. t[i] = s[at[i]] /\ at[i] \in DOMAIN s /\ t[j] = s[at[j]] /\ at[j] \in DOMAIN s /\ at[i] < at[j]
  BY <1>1
<1> QED BY <1>2 DEF RiseIn

LEMMA RiseAppend ==
    ASSUME NEW T, NEW s \in Seq(T), NEW e \in T, NEW g, RiseIn(s, g),
           IsCommit(e, g) => \A x \in Ids(s, g) : x < e.id
    PROVE  RiseIn(Append(s, e), g)
<1> DEFINE t == Append(s, e)
<1>1. /\ DOMAIN t = 1..Len(s) + 1 /\ DOMAIN s = 1..Len(s) /\ Len(s) \in Nat
      /\ \A i \in 1..Len(s) : t[i] = s[i]
      /\ t[Len(s) + 1] = e
  BY AppendProperties
<1> HIDE DEF t
<1>2. ASSUME NEW i \in DOMAIN t, NEW j \in DOMAIN t, i < j, IsCommit(t[i], g), IsCommit(t[j], g)
      PROVE  t[i].id < t[j].id
  <2>1. i \in DOMAIN s /\ t[i] = s[i]
    BY <1>1, <1>2
  <2>2. CASE j \in DOMAIN s
    BY <1>1, <1>2, <2>1, <2>2 DEF RiseIn
  <2>3. CASE j \notin DOMAIN s
    <3>1. t[j] = e
      BY <1>1, <2>3
    <3>2. s[i].id \in Ids(s, g)
      BY <1>2, <2>1 DEF Ids, IdsIn
    <3> QED BY <1>2, <2>1, <3>1, <3>2
  <2> QED BY <2>2, <2>3
<1>3. RiseIn(t, g)
  BY <1>2 DEF RiseIn
<1> QED BY <1>3 DEF t

(* An inbox below its cap has lost no Commit of a group of the registry.   *)
LEMMA IdsStashed ==
    ASSUME NEW T, NEW gs, NEW s \in Seq(T), NEW g \in DOMAIN gs, Len(Stash(gs, s)) < INBOX_CAP
    PROVE  Ids(Stash(gs, s), g) = Ids(s, g)
<1> DEFINE all == Known(gs, s)
           S == {i \in DOMAIN s : s[i].group \in DOMAIN gs \/ s[i].kind = "Welcome"}
           excess == IF Len(all) > INBOX_CAP THEN Len(all) - INBOX_CAP ELSE 0
<1>1. /\ all = Picked(s, S) /\ S \in SUBSET (DOMAIN s)
      /\ all \in Seq(T) /\ Within(all, s)
      /\ \A j \in S : \E i \in DOMAIN all : all[i] = s[j]
  <2>1. all = Picked(s, S) /\ S \in SUBSET (DOMAIN s)
    BY DEF Known
  <2> HIDE DEF S, all
  <2> QED BY <2>1, WithinPicked
<1>2. Stash(gs, s) = SubSeq(all, excess + 1, Len(all))
  BY DEF Stash
<1>3. \A j \in DOMAIN s : IsCommit(s[j], g) => j \in S
  BY DEF IsCommit
<1> HIDE DEF all, S
<1>4. Len(all) \in Nat /\ INBOX_CAP \in Nat
  BY <1>1, DaemonAssumption
<1>5. excess = 0
  <2>1. excess + 1 \in 1..Len(all) + 1 /\ Len(all) \in 0..Len(all)
    BY <1>4
  <2>2. Len(Stash(gs, s)) = IF excess + 1 <= Len(all) THEN Len(all) - (excess + 1) + 1 ELSE 0
    <3> HIDE DEF excess
    <3> QED BY <1>1, <1>2, <2>1, WithinStretch
  <2> QED BY <1>4, <2>2
<1>6. Stash(gs, s) = all
  <2>1. Stash(gs, s) = SubSeq(all, 1, Len(all))
    BY <1>2, <1>5
  <2> QED BY <1>1, <2>1, SubSeqFull
<1>7. Ids(all, g) \subseteq Ids(s, g)
  BY <1>1, IdsLess
<1>8. ASSUME NEW d \in Ids(s, g) PROVE d \in Ids(all, g)
  <2>1. PICK j \in DOMAIN s : IsCommit(s[j], g) /\ d = s[j].id
    BY <1>8 DEF Ids, IdsIn
  <2>2. PICK i \in DOMAIN all : all[i] = s[j]
    BY <1>1, <1>3, <2>1
  <2> QED BY <2>1, <2>2 DEF Ids, IdsIn
<1> QED BY <1>6, <1>7, <1>8

LEMMA IdsRemoved ==
    ASSUME NEW T, NEW s \in Seq(T), NEW i \in DOMAIN s, NEW g, ~IsCommit(s[i], g)
    PROVE  Ids(RemoveAt(s, i), g) = Ids(s, g)
<1> DEFINE t == SubSeq(s, 1, i - 1)
           u == SubSeq(s, i + 1, Len(s))
           e == s[i]
           one == <<e>>
           v == SubSeq(s, i, Len(s))
<1>1. Len(s) \in Nat /\ i \in 1..Len(s) /\ e \in T
  OBVIOUS
<1>2. t \in Seq(T) /\ u \in Seq(T) /\ v \in Seq(T)
  <2>1. /\ 1 \in 1..Len(s) + 1 /\ i - 1 \in 0..Len(s) /\ i + 1 \in 1..Len(s) + 1 /\ Len(s) \in 0..Len(s)
        /\ i \in 1..Len(s) + 1
    BY <1>1
  <2> QED BY <2>1, WithinStretch
<1>3. RemoveAt(s, i) = t \o u
  BY DEF RemoveAt
<1>4. v = one \o u
  <2>1. i \in 1..Len(s) /\ Len(s) \in i..Len(s)
    BY <1>1
  <2> QED BY <2>1, SubSeqRecursiveFirst
<1>5. s = t \o v
  <2> DEFINE k == i - 1
  <2>1. 1 \in 1..Len(s) + 1 /\ k \in 1 - 1..Len(s) /\ Len(s) \in k..Len(s) /\ k + 1 = i
    BY <1>1
  <2> HIDE DEF k
  <2>2. SubSeq(s, 1, k) \o SubSeq(s, k + 1, Len(s)) = SubSeq(s, 1, Len(s))
    BY <2>1, ConcatAdjacentSubSeq
  <2>3. SubSeq(s, 1, k) = t
    BY DEF k
  <2> QED BY <2>1, <2>2, <2>3, SubSeqFull
<1>6. Ids(one, g) = {}
  BY IdsOne
<1>7. one \in Seq(T)
  BY <1>1
<1> HIDE DEF t, u, v, one
<1>8. Ids(s, g) = Ids(t, g) \cup Ids(v, g)
  BY <1>2, <1>5, IdsJoined
<1>9. Ids(v, g) = Ids(one, g) \cup Ids(u, g)
  BY <1>2, <1>4, <1>7, IdsJoined
<1>10. Ids(RemoveAt(s, i), g) = Ids(t, g) \cup Ids(u, g)
  BY <1>2, <1>3, IdsJoined
<1> QED BY <1>6, <1>8, <1>9, <1>10

(* The next Commit that is due extends the history.                        *)
LEMMA MergeNext ==
    ASSUME NEW h \in Histories, NEW o \in Histories, NEW c, Sorted(o, c), Begins(h, o),
           NEW e \in Mailable, e.kind = "Commit", Placed(e, o),
           NEW R \in SUBSET Nat, Due(h, o) = {e.id} \cup R, \A x \in R : e.id < x
    PROVE  /\ e.hist = h
           /\ Begins(Append(h, e.id), o)
           /\ Due(Append(h, e.id), o) = R
<1> DEFINE k == Len(h)
           f == e.hist
           id == e.id
<1>1. /\ h \in Seq(1..MaxCommits) /\ o \in Seq(1..MaxCommits) /\ k \in Nat /\ Len(o) \in Nat
      /\ f \in Histories /\ f \in Seq(1..MaxCommits) /\ Len(f) \in Nat /\ id \in 1..MaxCommits
      /\ \A n \in 1..Len(o) : o[n] \in Nat
  <2>1. f \in Histories /\ id \in 1..MaxCommits
    BY DEF Mailable, EnvelopeType
  <2> QED BY <2>1, HistoryItems
<1>2. Append(h, id) \in Histories /\ Len(Append(h, id)) = k + 1
      /\ (\A n \in 1..k : Append(h, id)[n] = h[n]) /\ Append(h, id)[k + 1] = id
  BY <1>1, HistoryGrows, AppendProperties
<1>3. \A m, n \in 1..Len(o) : m < n => o[m] < o[n]
  BY DEF Sorted
<1>4. k <= Len(o) /\ \A n \in 1..k : h[n] = o[n]
  BY DEF Begins
<1>5. Len(f) < Len(o) /\ o[Len(f) + 1] = id /\ \A n \in 1..Len(f) : f[n] = o[n]
  BY DEF Placed, Begins
<1>6. Due(h, o) = {o[n] : n \in k + 1..Len(o)} /\ Due(h, o) = {id} \cup R /\ \A x \in R : id < x
  BY DEF Due
<1> DEFINE j == Append(h, id)
<1> HIDE DEF k, f, id, j
<1>7. k + 1 <= Len(o) /\ o[k + 1] = id
  <2>1. PICK n \in k + 1..Len(o) : id = o[n]
    BY <1>6
  <2>2. k + 1 \in k + 1..Len(o) /\ k + 1 \in 1..Len(o) /\ n \in 1..Len(o)
    BY <1>1, <2>1
  <2>3. o[k + 1] = id \/ id < o[k + 1]
    BY <1>6, <2>2
  <2>4. n # k + 1 => o[k + 1] < o[n]
    BY <1>1, <1>3, <2>1, <2>2
  <2>5. o[k + 1] \in Nat /\ o[n] \in Nat
    BY <1>1, <2>2
  <2> QED BY <1>1, <2>1, <2>2, <2>3, <2>4, <2>5
<1>8. Len(f) = k
  <2>1. k + 1 \in 1..Len(o) /\ Len(f) + 1 \in 1..Len(o)
    BY <1>1, <1>5, <1>7
  <2>2. ~(k + 1 < Len(f) + 1) /\ ~(Len(f) + 1 < k + 1)
    BY <1>1, <1>3, <1>5, <1>7, <2>1
  <2> QED BY <1>1, <2>2
<1>9. f = h
  <2>1. Len(f) = Len(h) /\ \A n \in 1..Len(f) : f[n] = h[n]
    BY <1>4, <1>5, <1>8 DEF k
  <2> QED BY <1>1, <2>1, SeqEqual
<1>10. Begins(j, o)
  <2>1. ASSUME NEW n \in 1..k + 1 PROVE j[n] = o[n]
    <3>1. n \in 1..k \/ n = k + 1
      BY <1>1
    <3> QED BY <1>2, <1>4, <1>7, <3>1 DEF j
  <2> QED BY <1>2, <1>7, <2>1 DEF Begins, j
<1>11. Due(j, o) = R
  <2>1. Due(j, o) = {o[n] : n \in k + 1 + 1..Len(o)}
    BY <1>2 DEF Due, j
  <2>2. ASSUME NEW x \in R PROVE x \in Due(j, o)
    <3>1. PICK n \in k + 1..Len(o) : x = o[n]
      BY <1>6, <2>2
    <3>2. n # k + 1
      BY <1>1, <1>6, <1>7, <2>2, <3>1
    <3>3. n \in k + 1 + 1..Len(o)
      BY <1>1, <3>1, <3>2
    <3> QED BY <2>1, <3>1, <3>3
  <2>3. ASSUME NEW x \in Due(j, o) PROVE x \in R
    <3>1. PICK n \in k + 1 + 1..Len(o) : x = o[n]
      BY <2>1, <2>3
    <3>2. n \in k + 1..Len(o) /\ n \in 1..Len(o) /\ k + 1 \in 1..Len(o) /\ k + 1 < n
      BY <1>1, <1>7, <3>1
    <3>3. x \in {id} \cup R /\ id < x
      BY <1>3, <1>6, <1>7, <3>1, <3>2
    <3>4. id \in Nat
      BY <1>1
    <3> QED BY <3>3, <3>4
  <2> QED BY <2>2, <2>3
<1> QED BY <1>9, <1>10, <1>11 DEF f, j, id

(* One envelope of a poll of g, from acc to r: kept for later, or consumed; *)
(* merged, if it is a Commit that fits.                                    *)
Consumes(g, acc, e, r) ==
    \/ /\ acc.failed \/ e.group # g
       /\ r.keep = Append(acc.keep, e) /\ r.h = acc.h
    \/ /\ ~acc.failed /\ e.group = g /\ r.keep = acc.keep
       /\ \/ /\ e.kind # "Commit"
             /\ r.h.hist = acc.h.hist /\ r.h.tree = acc.h.tree /\ r.h.members = acc.h.members
          \/ /\ e.kind = "Commit" /\ e.hist = acc.h.hist
             /\ r.h.hist = Append(acc.h.hist, e.id)
          \/ /\ e.kind = "Commit" /\ e.hist # acc.h.hist
             /\ r.h = acc.h

LEMMA PollOneDoes ==
    ASSUME NEW g, NEW acc \in Accumulator, NEW e \in Mailable
    PROVE  Consumes(g, acc, e, PollOne(g, acc, e))
<1> DEFINE r == PollOne(g, acc, e)
<1> SUFFICES Consumes(g, acc, e, r)
  OBVIOUS
<1>1. /\ acc.h \in GroupState /\ acc.out \in Seq(Nat) /\ acc.keep \in Seq(Mailable)
      /\ acc.failed \in BOOLEAN /\ acc.changed \in BOOLEAN
      /\ e.kind \in {"Commit", "Welcome", "Application"}
  BY DEF Accumulator, Mailable, EnvelopeType
<1>2. CASE acc.failed \/ e.group # g
  <2> DEFINE k == Append(acc.keep, e)
  <2>1. r = [acc EXCEPT !.keep = k]
    BY <1>2 DEF PollOne
  <2> HIDE DEF k, r
  <2>2. r.keep = k /\ r.h = acc.h
    BY <2>1 DEF Accumulator
  <2> QED BY <1>2, <2>2 DEF k, Consumes
<1>3. CASE ~acc.failed /\ e.group = g /\ e.kind = "Welcome"
  <2>1. r = acc
    BY <1>3 DEF PollOne
  <2> HIDE DEF r
  <2>2. r.keep = acc.keep /\ r.h = acc.h /\ e.kind # "Commit"
    BY <1>3, <2>1
  <2> QED BY <1>3, <2>2 DEF Consumes
<1>4. CASE ~acc.failed /\ e.group = g /\ e.kind = "Commit"
  <2>1. CASE e.hist = acc.h.hist
    <3> DEFINE n == ReconcileRoster(Handle(Append(acc.h.hist, e.id), e.tree, acc.h.members))
               a == Append(acc.h.hist, e.id)
    <3>1. r = [acc EXCEPT !.h = n, !.changed = TRUE]
      BY <1>4, <2>1 DEF PollOne, Merges
    <3>2. n.hist = a
      BY DEF ReconcileRoster, Handle
    <3> HIDE DEF n, a, r
    <3>3. r.h = n /\ r.keep = acc.keep
      BY <3>1 DEF Accumulator
    <3>4. r.h.hist = a
      BY <3>2, <3>3
    <3> QED BY <1>4, <2>1, <3>3, <3>4 DEF a, Consumes
  <2>2. CASE e.hist # acc.h.hist
    <3>1. r = [acc EXCEPT !.failed = TRUE]
      BY <1>4, <2>2 DEF PollOne, Merges
    <3> HIDE DEF r
    <3>2. r.h = acc.h /\ r.keep = acc.keep
      BY <3>1 DEF Accumulator
    <3> QED BY <1>4, <2>2, <3>2 DEF Consumes
  <2> QED BY <2>1, <2>2
<1>5. CASE ~acc.failed /\ e.group = g /\ e.kind = "Application"
  <2>1. CASE Decrypts(acc.h, e)
    <3> DEFINE n == [acc.h EXCEPT !.used = @ \union {<<e.sender, e.gen>>}]
               o == Append(acc.out, e.id)
    <3>1. r = [acc EXCEPT !.h = n, !.out = o, !.changed = TRUE]
      BY <1>1, <1>5, <2>1 DEF PollOne, Accumulator
    <3>2. n.hist = acc.h.hist /\ n.tree = acc.h.tree /\ n.members = acc.h.members
      BY <1>1 DEF GroupState
    <3> HIDE DEF n, o, r
    <3>3. r.h = n /\ r.keep = acc.keep /\ e.kind # "Commit"
      BY <1>5, <3>1 DEF Accumulator
    <3> QED BY <1>5, <3>2, <3>3 DEF Consumes
  <2>2. CASE ~Decrypts(acc.h, e)
    <3>1. r = [acc EXCEPT !.failed = TRUE]
      BY <1>5, <2>2 DEF PollOne
    <3> HIDE DEF r
    <3>2. r.h = acc.h /\ r.keep = acc.keep /\ e.kind # "Commit"
      BY <1>5, <3>1 DEF Accumulator
    <3> QED BY <1>5, <3>2 DEF Consumes
  <2> QED BY <2>1, <2>2
<1> QED BY <1>1, <1>2, <1>3, <1>4, <1>5

(* A poll of g whose member is on course, before it.                       *)
Course(h, all, m, o, g) ==
    /\ OnCourse(h.hist, all \o m, o, g)
    /\ \A n \in DOMAIN all : IsCommit(all[n], g) => Placed(all[n], o)

CourseFact(acc, g, h, all, m, o, i) ==
    /\ \A f \in Groups \ {g} : Ids(acc.keep, f) = IdsIn(all, 1..i, f)
    /\ (\A n \in 1..i : ~IsCommit(all[n], g)) =>
          acc.h.hist = h.hist /\ acc.h.tree = h.tree /\ acc.h.members = h.members
    /\ Course(h, all, m, o, g) =>
          /\ Begins(acc.h.hist, o)
          /\ Ids(acc.keep, g) \cup IdsIn(all, i + 1..Len(all), g) \cup Ids(m, g) = Due(acc.h.hist, o)

LEMMA CourseStart ==
    ASSUME NEW g, NEW h, NEW all \in Seq(Mailable), NEW m \in Seq(Mailable), NEW o
    PROVE  CourseFact(LoopStart(h), g, h, all, m, o, 0)
<1>1. LoopStart(h).keep = <<>> /\ LoopStart(h).h = h
  BY DEF LoopStart
<1>2. \A f : Ids(<<>>, f) = {} /\ IdsIn(all, 1..0, f) = {}
  BY IdsNone DEF IdsIn
<1>3. DOMAIN all = 0 + 1..Len(all)
  OBVIOUS
<1>4. Ids(all \o m, g) = Ids(all, g) \cup Ids(m, g) /\ Ids(all, g) = IdsIn(all, 0 + 1..Len(all), g)
  <2>1. Ids(all \o m, g) = Ids(all, g) \cup Ids(m, g)
    BY IdsJoined
  <2> QED BY <1>3, <2>1 DEF Ids
<1> HIDE DEF LoopStart
<1>5. ASSUME Course(h, all, m, o, g)
      PROVE  Begins(h.hist, o) /\ Ids(all \o m, g) = Due(h.hist, o)
  BY <1>5 DEF Course, OnCourse
<1> QED BY <1>1, <1>2, <1>4, <1>5 DEF CourseFact

(* A stretch, one longer.                                                  *)
LEMMA IdsOnward ==
    ASSUME NEW s, NEW n \in Nat, NEW i \in 1..n, NEW g
    PROVE  /\ IdsIn(s, 1..i, g) = IdsIn(s, 1..i - 1, g) \cup (IF IsCommit(s[i], g) THEN {s[i].id} ELSE {})
           /\ IdsIn(s, i - 1 + 1..n, g) = (IF IsCommit(s[i], g) THEN {s[i].id} ELSE {}) \cup IdsIn(s, i + 1..n, g)
<1>1. 1..i = 1..i - 1 \cup {i} /\ i - 1 + 1..n = {i} \cup (i + 1..n)
  OBVIOUS
<1>2. \A S, U : IdsIn(s, S \cup U, g) = IdsIn(s, S, g) \cup IdsIn(s, U, g)
  BY DEF IdsIn
<1>3. IdsIn(s, {i}, g) = IF IsCommit(s[i], g) THEN {s[i].id} ELSE {}
  BY DEF IdsIn
<1>4. IdsIn(s, 1..i, g) = IdsIn(s, 1..i - 1, g) \cup IdsIn(s, {i}, g)
  BY <1>1, <1>2
<1>5. IdsIn(s, i - 1 + 1..n, g) = IdsIn(s, {i}, g) \cup IdsIn(s, i + 1..n, g)
  BY <1>1, <1>2
<1> QED BY <1>3, <1>4, <1>5

LEMMA CourseNext ==
    ASSUME NEW g, NEW h \in GroupState, NEW all \in Seq(Mailable), NEW m \in Seq(Mailable),
           NEW o \in Histories, NEW c, Sorted(o, c), NEW i \in 1..Len(all), NEW acc,
           LoopFact(acc, g, h, all, i - 1), CourseFact(acc, g, h, all, m, o, i - 1)
    PROVE  CourseFact(PollOne(g, acc, all[i]), g, h, all, m, o, i)
<1> DEFINE e == all[i]
           r == PollOne(g, acc, e)
           hist == acc.h.hist
           one(f) == IF IsCommit(e, f) THEN {e.id} ELSE {}
           Rest == IdsIn(all, i + 1..Len(all), g)
           Behind == Ids(m, g)
<1>1. /\ acc \in Accumulator /\ acc.h \in GroupState /\ acc.keep \in Seq(Mailable) /\ hist \in Histories
      /\ ~acc.failed => \A n \in DOMAIN acc.keep : acc.keep[n].group # g
      /\ e \in Mailable /\ Len(all) \in Nat
  BY DEF LoopFact, Accumulator, GroupState
<1>2. \/ /\ acc.failed \/ e.group # g
         /\ r.keep = Append(acc.keep, e) /\ r.h = acc.h
      \/ /\ ~acc.failed /\ e.group = g /\ r.keep = acc.keep
         /\ \/ /\ e.kind # "Commit"
               /\ r.h.hist = acc.h.hist /\ r.h.tree = acc.h.tree /\ r.h.members = acc.h.members
            \/ /\ e.kind = "Commit" /\ e.hist = acc.h.hist
               /\ r.h.hist = Append(acc.h.hist, e.id)
            \/ /\ e.kind = "Commit" /\ e.hist # acc.h.hist
               /\ r.h = acc.h
  <2> HIDE DEF e
  <2>1. Consumes(g, acc, e, r)
    BY <1>1, PollOneDoes
  <2> HIDE DEF r
  <2> QED BY <2>1 DEF Consumes
<1>3. \A f : /\ IdsIn(all, 1..i, f) = IdsIn(all, 1..i - 1, f) \cup one(f)
             /\ IdsIn(all, i - 1 + 1..Len(all), f) = one(f) \cup IdsIn(all, i + 1..Len(all), f)
  BY <1>1, IdsOnward
<1>4. \A f : Ids(Append(acc.keep, e), f) = Ids(acc.keep, f) \cup one(f)
  BY <1>1, IdsAppend
<1>5. /\ \A f \in Groups \ {g} : Ids(acc.keep, f) = IdsIn(all, 1..i - 1, f)
      /\ (\A n \in 1..i - 1 : ~IsCommit(all[n], g)) =>
            acc.h.hist = h.hist /\ acc.h.tree = h.tree /\ acc.h.members = h.members
      /\ Course(h, all, m, o, g) =>
            /\ Begins(hist, o)
            /\ Ids(acc.keep, g) \cup (one(g) \cup Rest) \cup Behind = Due(hist, o)
  BY <1>3 DEF CourseFact
<1>6. \A f : e.group = g /\ f # g => one(f) = {}
  BY DEF IsCommit
<1>7. ~(e.kind = "Commit" /\ e.group = g) => one(g) = {}
  BY DEF IsCommit
<1>8. e.kind = "Commit" /\ e.group = g => one(g) = {e.id} /\ IsCommit(e, g)
  BY DEF IsCommit
<1>9. i \in 1..i /\ \A n \in 1..i - 1 : n \in 1..i
  BY <1>1
<1>10. ASSUME ~acc.failed PROVE Ids(acc.keep, g) = {}
  BY <1>1, <1>10 DEF Ids, IdsIn, IsCommit
<1>11. ASSUME Course(h, all, m, o, g), IsCommit(e, g)
       PROVE  /\ Placed(e, o) /\ Rest \cup Behind \in SUBSET Nat
              /\ \A x \in Rest \cup Behind : e.id < x
  <2> DEFINE s == all \o m
  <2>1. /\ Len(m) \in Nat /\ DOMAIN all = 1..Len(all) /\ DOMAIN m = 1..Len(m)
        /\ DOMAIN s = 1..Len(all) + Len(m)
        /\ \A n \in 1..Len(all) : s[n] = all[n]
        /\ \A n \in Len(all) + 1..Len(all) + Len(m) : s[n] = m[n - Len(all)]
    BY <1>1, Joined
  <2>2. RiseIn(s, g) /\ Placed(e, o)
    BY <1>11, <2>1 DEF Course, OnCourse
  <2>3. i \in DOMAIN s /\ s[i] = e
    BY <1>1, <2>1
  <2>0. (\A n \in 1..Len(all) : all[n].id \in Nat) /\ (\A n \in 1..Len(m) : m[n].id \in Nat)
    BY <2>1 DEF Mailable, EnvelopeType
  <2> HIDE DEF s, e
  <2>4. ASSUME NEW x \in Rest PROVE x \in Nat /\ e.id < x
    <3>1. PICK n \in i + 1..Len(all) : IsCommit(all[n], g) /\ x = all[n].id
      BY <2>4 DEF IdsIn
    <3>2. n \in 1..Len(all) /\ n \in DOMAIN s /\ i < n
      BY <1>1, <2>1, <3>1
    <3>3. s[n] = all[n]
      BY <2>1, <3>2
    <3> QED BY <1>11, <2>0, <2>2, <2>3, <3>1, <3>2, <3>3 DEF RiseIn
  <2>5. ASSUME NEW x \in Behind PROVE x \in Nat /\ e.id < x
    <3>1. PICK n \in 1..Len(m) : IsCommit(m[n], g) /\ x = m[n].id
      BY <2>1, <2>5 DEF Ids, IdsIn
    <3> DEFINE j == Len(all) + n
    <3>2. j \in DOMAIN s /\ j \in Len(all) + 1..Len(all) + Len(m) /\ j - Len(all) = n /\ i < j
      BY <1>1, <2>1, <3>1
    <3> HIDE DEF j
    <3>3. s[j] = m[n]
      BY <2>1, <3>2
    <3> QED BY <1>11, <2>0, <2>2, <2>3, <3>1, <3>2, <3>3 DEF RiseIn
  <2> QED BY <2>2, <2>4, <2>5
<1>12. ASSUME Course(h, all, m, o, g), IsCommit(e, g), ~acc.failed
       PROVE  /\ e.hist = hist
              /\ Begins(Append(hist, e.id), o)
              /\ Due(Append(hist, e.id), o) = Rest \cup Behind
  <2> DEFINE R == Rest \cup Behind
  <2>1. Begins(hist, o) /\ Due(hist, o) = {e.id} \cup R
    BY <1>5, <1>8, <1>10, <1>12 DEF IsCommit
  <2>2. Placed(e, o) /\ R \in SUBSET Nat /\ \A x \in R : e.id < x /\ e.kind = "Commit"
    BY <1>11, <1>12 DEF IsCommit
  <2>3. e.kind = "Commit"
    BY <1>12 DEF IsCommit
  <2> HIDE DEF R, hist, e
  <2>4. hist \in Histories /\ e \in Mailable /\ Begins(hist, o) /\ R \in SUBSET Nat /\ Placed(e, o)
    BY <1>1, <2>1, <2>2
  <2>6. Due(hist, o) = {e.id} \cup R /\ \A x \in R : e.id < x
    BY <2>1, <2>2
  <2>7. PICK y : y = e
    OBVIOUS
  <2>8. PICK k : k = hist
    OBVIOUS
  <2>9. /\ y.hist = k
        /\ Begins(Append(k, y.id), o)
        /\ Due(Append(k, y.id), o) = R
    <3>1. /\ k \in Histories /\ y \in Mailable /\ Begins(k, o) /\ R \in SUBSET Nat /\ Placed(y, o)
          /\ y.kind = "Commit" /\ o \in Histories /\ Sorted(o, c)
      BY <2>3, <2>4, <2>7, <2>8
    <3>2. Due(k, o) = {y.id} \cup R /\ \A x \in R : y.id < x
      BY <2>6, <2>7, <2>8
    <3> QED BY <3>1, <3>2, MergeNext
  <2>5. /\ e.hist = hist
        /\ Begins(Append(hist, e.id), o)
        /\ Due(Append(hist, e.id), o) = R
    BY <2>7, <2>8, <2>9
  <2> QED BY <2>5 DEF R
<1> HIDE DEF e, r, one, Rest, Behind, hist
<1>13. \A f \in Groups \ {g} : Ids(r.keep, f) = IdsIn(all, 1..i, f)
  BY <1>2, <1>3, <1>4, <1>5, <1>6
<1>14. ASSUME \A n \in 1..i : ~IsCommit(all[n], g)
       PROVE  r.h.hist = h.hist /\ r.h.tree = h.tree /\ r.h.members = h.members
  <2>1. ~IsCommit(e, g)
    BY <1>9, <1>14 DEF e
  <2>2. r.h.hist = acc.h.hist /\ r.h.tree = acc.h.tree /\ r.h.members = acc.h.members
    BY <1>2, <2>1 DEF IsCommit
  <2> QED BY <1>5, <1>9, <1>14, <2>2
<1>15. ASSUME Course(h, all, m, o, g)
       PROVE  Begins(r.h.hist, o) /\ Ids(r.keep, g) \cup Rest \cup Behind = Due(r.h.hist, o)
  <2>1. CASE acc.failed \/ e.group # g
    <3>1. r.keep = Append(acc.keep, e) /\ r.h = acc.h
      BY <1>2, <2>1
    <3> QED BY <1>4, <1>5, <1>15, <3>1 DEF hist
  <2>2. CASE ~acc.failed /\ e.group = g /\ e.kind # "Commit"
    <3>1. r.keep = acc.keep /\ r.h.hist = hist /\ one(g) = {}
      BY <1>2, <1>7, <2>2 DEF hist
    <3> QED BY <1>5, <1>15, <3>1
  <2>3. CASE ~acc.failed /\ e.group = g /\ e.kind = "Commit"
    <3>1. IsCommit(e, g)
      BY <1>8, <2>3
    <3>2. /\ e.hist = hist /\ Begins(Append(hist, e.id), o)
          /\ Due(Append(hist, e.id), o) = Rest \cup Behind
      BY <1>12, <1>15, <2>3, <3>1
    <3>3. r.keep = acc.keep /\ r.h.hist = Append(hist, e.id)
      BY <1>2, <2>3, <3>2 DEF hist
    <3>4. Ids(r.keep, g) = {}
      BY <1>10, <2>3, <3>3
    <3> QED BY <3>2, <3>3, <3>4
  <2> QED BY <2>1, <2>2, <2>3
<1> QED BY <1>13, <1>14, <1>15 DEF CourseFact, e, r, Rest, Behind

(* The whole loop.                                                         *)
LEMMA CourseResult ==
    ASSUME NEW g, NEW h \in GroupState, NEW all \in Seq(Mailable), NEW m \in Seq(Mailable),
           NEW o \in Histories, NEW c, Sorted(o, c)
    PROVE  CourseFact(PollLoop(g, h, all)[Len(all)], g, h, all, m, o, Len(all))
<1> DEFINE it == PollLoop(g, h, all)
           n == Len(all)
           S == {i \in 0..n : ~CourseFact(it[i], g, h, all, m, o, i)}
<1>1. n \in Nat
  OBVIOUS
<1>2. it[0] = LoopStart(h) /\ \A i \in 1..n : it[i] = PollOne(g, it[i - 1], all[i])
  BY <1>1, PollLoopSteps
<1>3. \A i \in 0..n : LoopFact(it[i], g, h, all, i)
  BY PollSoFar
<1> HIDE DEF it
<1>4. S = {}
  <2> SUFFICES ASSUME S # {} PROVE FALSE
    OBVIOUS
  <2>1. PICK i \in S : \A j \in S : i <= j
    <3>1. S \in SUBSET Nat
      BY <1>1
    <3> HIDE DEF S
    <3> QED BY <3>1, LeastElement
  <2>2. i # 0
    BY <1>2, CourseStart
  <2>3. i \in 1..n /\ i - 1 \in 0..n /\ i - 1 \notin S
    <3>1. i \in 0..n
      OBVIOUS
    <3> HIDE DEF S
    <3> QED BY <1>1, <2>1, <2>2, <3>1
  <2>4. CourseFact(it[i - 1], g, h, all, m, o, i - 1) /\ LoopFact(it[i - 1], g, h, all, i - 1)
    BY <1>3, <2>3
  <2>5. CourseFact(it[i], g, h, all, m, o, i)
    <3>1. CourseFact(PollOne(g, it[i - 1], all[i]), g, h, all, m, o, i)
      BY <2>3, <2>4, CourseNext
    <3> QED BY <1>2, <2>3, <3>1
  <2> QED BY <2>5
<1> QED BY <1>1, <1>4 DEF it

(* No process has stopped inside an operation and no invite was redeemed.  *)
Undisturbed == ~torn /\ \A t \in DOMAIN invites : ~invites[t].consumed

(* The owner's handle of g is at the head of the relay's order, and its    *)
(* recipients are the relay's roster, but for those who are "extra".       *)
Agrees(h, g, ros, ord, extra) ==
    /\ h.hist = ord[g] /\ Owner \in h.tree
    /\ Owner \in ros[g] /\ h.members = ros[g] \cup extra

(* Who is added, between the Commit and the roster.                        *)
Guest(o, g) == IF o.pc = "onboard" /\ o.group = g THEN {o.who} ELSE {}

SameHandles(q, r) ==
    /\ DOMAIN q = DOMAIN r
    /\ \A g \in DOMAIN r : q[g].hist = r[g].hist /\ q[g].tree = r[g].tree /\ q[g].members = r[g].members

(* The owner's registry, its state file and its operation, against the     *)
(* relay: every group is its own.                                          *)
OwnerFact(reg, file, o, ros, ord) ==
    /\ \A g \in DOMAIN reg : Agrees(reg[g], g, ros, ord, Guest(o, g))
    /\ \A g \in Groups \ DOMAIN reg : ros[g] = {} /\ ord[g] = <<>>
    /\ o.pc \in {"commit", "onboard"} => o.who # Owner
    /\ o.pc \notin {"persist", "onboard"} => SameHandles(file, reg)

(* The owner is sent messages only; who else is sent a Commit is sent one  *)
(* that the relay has in its place.                                        *)
Sound(w, e, ord) ==
    e.kind = "Application" \/ (w # Owner /\ (e.kind = "Commit" => Placed(e, ord[e.group])))

AllSound(w, s, ord) == \A i \in DOMAIN s : Sound(w, s[i], ord)

OpFact(w, o) == o.pc # "redeem" /\ (o.pc = "welcome" => w # Owner)

Settled ==
    /\ OwnerFact(groups[Owner], disk[Owner], op[Owner], roster, order)
    /\ \A w \in Wallets : OpFact(w, op[w]) /\ AllSound(w, Waiting(w), order)
    /\ \A g \in Groups : Sorted(order[g], commits)

(* What StaysInStep asks of a step.                                        *)
Keeps ==
    \A w \in Wallets, g \in Groups :
        /\ Member(w, g) /\ InStep(w, g) /\ Member(w, g)'
        /\ crashes' = crashes /\ Len(inbox'[w]) < INBOX_CAP
        => InStep(w, g)'

LEMMA WaitingTyped ==
    ASSUME DaemonType, NEW w \in Wallets
    PROVE  Waiting(w) \in Seq(Mailable)
<1>1. op[w] \in Operations /\ inbox[w] \in Seq(Mailable) /\ mail[w] \in Seq(Mailable)
  BY DEF DaemonType
<1> QED BY <1>1, WaitingLine, LineTyped

(* The lines after a step of w.                                            *)
LEMMA ActorLine ==
    ASSUME DaemonType, NEW w \in Wallets, NEW o, NEW box, NEW m,
           op' = [op EXCEPT ![w] = o], inbox' = [inbox EXCEPT ![w] = box], mail' = [mail EXCEPT ![w] = m]
    PROVE  Waiting(w)' = Line(o, box, m) /\ \A v \in Wallets \ {w} : Waiting(v)' = Waiting(v)
<1>1. op'[w] = o /\ inbox'[w] = box /\ mail'[w] = m
  BY DEF DaemonType
<1>2. Waiting(w)' = Line(op'[w], inbox'[w], mail'[w])
  <2>1. InHand(w)' = IF op'[w].pc = "pending" THEN op'[w].rest \o op'[w].todo ELSE inbox'[w]
    BY DEF InHand
  <2> QED BY <2>1 DEF Waiting, Line
<1>3. ASSUME NEW v \in Wallets \ {w} PROVE Waiting(v)' = Waiting(v)
  <2>1. op'[v] = op[v] /\ inbox'[v] = inbox[v] /\ mail'[v] = mail[v]
    BY DEF DaemonType
  <2> QED BY <2>1 DEF Waiting, InHand
<1> QED BY <1>1, <1>2, <1>3

(* ... that leaves them alone.                                             *)
LEMMA QuietLines ==
    ASSUME DaemonType, NEW w \in Wallets, NEW o, op' = [op EXCEPT ![w] = o],
           op[w].pc # "pending", o.pc # "pending", inbox' = inbox, mail' = mail
    PROVE  \A v \in Wallets : Waiting(v)' = Waiting(v)
<1> SUFFICES ASSUME NEW v \in Wallets PROVE Waiting(v)' = Waiting(v)
  OBVIOUS
<1>1. CASE v = w
  <2>1. op'[v] = o
    BY <1>1 DEF DaemonType
  <2> QED BY <1>1, <2>1 DEF Waiting, InHand
<1>2. CASE v # w
  <2>1. op'[v] = op[v]
    BY <1>2 DEF DaemonType
  <2> QED BY <2>1 DEF Waiting, InHand
<1> QED BY <1>1, <1>2

(* ... that submits e to R.                                                *)
LEMMA SubmittedLines ==
    ASSUME DaemonType, NEW w \in Wallets, NEW o, op' = [op EXCEPT ![w] = o],
           op[w].pc # "pending", o.pc # "pending", inbox' = inbox,
           NEW R, NEW e \in Mailable, mail' = Deliver(R, e)
    PROVE  \A v \in Wallets : Waiting(v)' = IF v \in R THEN Append(Waiting(v), e) ELSE Waiting(v)
<1> SUFFICES ASSUME NEW v \in Wallets
             PROVE  Waiting(v)' = IF v \in R THEN Append(Waiting(v), e) ELSE Waiting(v)
  OBVIOUS
<1>1. InHand(v)' = InHand(v)
  <2>1. CASE v = w
    <3>1. op'[v] = o
      BY <2>1 DEF DaemonType
    <3> QED BY <2>1, <3>1 DEF InHand
  <2>2. CASE v # w
    <3>1. op'[v] = op[v]
      BY <2>2 DEF DaemonType
    <3> QED BY <3>1 DEF InHand
  <2> QED BY <2>1, <2>2
<1>2. /\ Waiting(v) = Line(op[v], inbox[v], mail[v]) /\ op[v] \in Operations
      /\ inbox[v] \in Seq(Mailable) /\ mail[v] \in Seq(Mailable) /\ mail \in [Wallets -> Seq(Mailable)]
  BY WaitingLine DEF DaemonType
<1>3. Line(op[v], inbox[v], Append(mail[v], e)) = Append(Waiting(v), e)
  BY <1>2, LineTyped
<1>4. mail'[v] = IF v \in R THEN Append(mail[v], e) ELSE mail[v]
  BY <1>2, Delivered
<1>5. CASE v \in R
  <2>1. Waiting(v)' = InHand(v) \o Append(mail[v], e)
    BY <1>1, <1>4, <1>5 DEF Waiting
  <2>2. Line(op[v], inbox[v], Append(mail[v], e)) = InHand(v) \o Append(mail[v], e)
    BY DEF Line, InHand
  <2> QED BY <1>3, <1>5, <2>1, <2>2
<1>6. CASE v \notin R
  BY <1>1, <1>4, <1>6 DEF Waiting
<1> QED BY <1>5, <1>6

LEMMA SoundLess ==
    ASSUME NEW w, NEW s, NEW t, NEW ord, AllSound(w, s, ord), Within(t, s)
    PROVE  AllSound(w, t, ord)
<1>1. PICK at \in [DOMAIN t -> DOMAIN s] : \A i \in DOMAIN t : t[i] = s[at[i]]
  BY DEF Within
<1> SUFFICES ASSUME NEW i \in DOMAIN t PROVE Sound(w, t[i], ord)
  BY DEF AllSound
<1>2. t[i] = s[at[i]] /\ at[i] \in DOMAIN s
  BY <1>1
<1> QED BY <1>2 DEF AllSound

LEMMA SoundAppend ==
    ASSUME NEW T, NEW s \in Seq(T), NEW e \in T, NEW w, NEW ord, AllSound(w, s, ord), Sound(w, e, ord)
    PROVE  AllSound(w, Append(s, e), ord)
<1> DEFINE t == Append(s, e)
<1>1. /\ DOMAIN t = 1..Len(s) + 1 /\ DOMAIN s = 1..Len(s) /\ Len(s) \in Nat
      /\ \A i \in 1..Len(s) : t[i] = s[i]
      /\ t[Len(s) + 1] = e
  BY AppendProperties
<1> HIDE DEF t
<1>2. \A i \in DOMAIN t : (i \in DOMAIN s /\ t[i] = s[i]) \/ t[i] = e
  BY <1>1
<1>3. AllSound(w, t, ord)
  BY <1>2 DEF AllSound
<1> QED BY <1>3 DEF t

(* The order after one more Commit.                                        *)
LEMMA OrderOnward ==
    ASSUME NEW o \in Histories, NEW c \in Nat, c + 1 \in 1..MaxCommits, Sorted(o, c)
    PROVE  LET p == Append(o, c + 1)
           IN  /\ p \in Histories /\ Len(p) = Len(o) + 1 /\ Len(o) \in Nat /\ p[Len(o) + 1] = c + 1
               /\ \A n \in 1..Len(o) : p[n] = o[n]
               /\ Sorted(p, c + 1) /\ Sorted(o, c + 1)
               /\ \A h \in Histories : Begins(h, o) => /\ Begins(h, p)
                                                       /\ Due(h, p) = Due(h, o) \cup {c + 1}
               /\ Begins(o, p) /\ Begins(p, p) /\ Due(p, p) = {}
               /\ \A e : Placed(e, o) /\ e.hist \in Histories => Placed(e, p)
<1> DEFINE p == Append(o, c + 1)
           id == c + 1
<1>1. /\ o \in Seq(1..MaxCommits) /\ Len(o) \in Nat /\ \A n \in 1..Len(o) : o[n] \in Nat
  BY HistoryItems
<1>2. /\ p \in Histories /\ Len(p) = Len(o) + 1 /\ p[Len(o) + 1] = id
      /\ \A n \in 1..Len(o) : p[n] = o[n]
  BY <1>1, HistoryGrows, AppendProperties
<1>3. id \in Nat /\ c < id /\ id = c + 1
  OBVIOUS
<1>4. /\ \A n \in 1..Len(o) : o[n] <= c
      /\ \A m, n \in 1..Len(o) : m < n => o[m] < o[n]
  BY DEF Sorted
<1> HIDE DEF p, id
<1>5. \A n \in 1..Len(p) : n \in 1..Len(o) \/ n = Len(o) + 1
  BY <1>1, <1>2
<1>6. Sorted(o, id)
  BY <1>1, <1>3, <1>4 DEF Sorted
<1>7. Sorted(p, id)
  <2>1. \A n \in 1..Len(p) : p[n] <= id
    BY <1>1, <1>2, <1>3, <1>4, <1>5
  <2>2. ASSUME NEW m \in 1..Len(p), NEW n \in 1..Len(p), m < n PROVE p[m] < p[n]
    <3>1. m \in 1..Len(o)
      BY <1>1, <1>2, <2>2
    <3>2. CASE n \in 1..Len(o)
      BY <1>2, <1>4, <2>2, <3>1, <3>2
    <3>3. CASE n = Len(o) + 1
      BY <1>1, <1>2, <1>3, <1>4, <3>1, <3>3
    <3> QED BY <1>5, <3>2, <3>3
  <2> QED BY <2>1, <2>2 DEF Sorted
<1>8. ASSUME NEW h \in Histories, Begins(h, o)
      PROVE  Begins(h, p) /\ Due(h, p) = Due(h, o) \cup {id}
  <2>1. Len(h) \in Nat /\ Len(h) <= Len(o) /\ \A n \in 1..Len(h) : h[n] = o[n]
    BY <1>8, HistoryItems DEF Begins
  <2>2. Begins(h, p)
    BY <1>1, <1>2, <2>1 DEF Begins
  <2>3. Len(h) + 1..Len(p) = (Len(h) + 1..Len(o)) \cup {Len(o) + 1} /\ Len(h) + 1..Len(o) \subseteq 1..Len(o)
    BY <1>1, <1>2, <2>1
  <2>4. Due(h, p) = {p[n] : n \in Len(h) + 1..Len(o)} \cup {p[Len(o) + 1]}
    BY <2>3 DEF Due
  <2>5. {p[n] : n \in Len(h) + 1..Len(o)} = Due(h, o)
    BY <1>2, <2>3 DEF Due
  <2> QED BY <1>2, <2>2, <2>4, <2>5
<1>9. Begins(o, p) /\ Begins(p, p)
  BY <1>1, <1>2 DEF Begins
<1>10. Due(p, p) = {}
  <2>1. Len(p) + 1..Len(p) = {}
    BY <1>1, <1>2
  <2> QED BY <2>1 DEF Due
<1>11. ASSUME NEW e, Placed(e, o), e.hist \in Histories
       PROVE  Placed(e, p)
  <2> DEFINE f == e.hist
  <2>1. Begins(f, o) /\ Len(f) < Len(o) /\ o[Len(f) + 1] = e.id /\ f \in Histories /\ Len(f) \in Nat
    BY <1>11, HistoryItems DEF Placed
  <2> HIDE DEF f
  <2>2. Begins(f, p) /\ Len(f) < Len(p) /\ p[Len(f) + 1] = e.id
    BY <1>1, <1>2, <1>8, <2>1
  <2> QED BY <2>2 DEF Placed, f
<1> QED BY <1>1, <1>2, <1>6, <1>7, <1>8, <1>9, <1>10, <1>11 DEF p, id

LEMMA OnCourseLess ==
    ASSUME NEW h, NEW s, NEW t, NEW o, NEW g, OnCourse(h, s, o, g), Within(t, s), Ids(t, g) = Ids(s, g)
    PROVE  OnCourse(h, t, o, g)
  BY RiseLess DEF OnCourse

LEMMA OnCourseMore ==
    ASSUME NEW h, NEW s \in Seq(Mailable), NEW e \in Mailable, NEW o, NEW g, OnCourse(h, s, o, g), ~IsCommit(e, g)
    PROVE  OnCourse(h, Append(s, e), o, g)
<1>1. Ids(Append(s, e), g) = Ids(s, g)
  <2>1. Ids(Append(s, e), g) = Ids(s, g) \cup (IF IsCommit(e, g) THEN {e.id} ELSE {})
    BY IdsAppend
  <2> QED BY <2>1
<1>2. RiseIn(Append(s, e), g)
  BY RiseAppend DEF OnCourse
<1> QED BY <1>1, <1>2 DEF OnCourse

LEMMA OnCourseCommit ==
    ASSUME NEW h \in Histories, NEW s \in Seq(Mailable), NEW e \in Mailable, NEW o \in Histories, NEW g,
           NEW c \in Nat, c + 1 \in 1..MaxCommits, Sorted(o, c),
           OnCourse(h, s, o, g), IsCommit(e, g), e.id = c + 1
    PROVE  OnCourse(h, Append(s, e), Append(o, c + 1), g)
<1> DEFINE p == Append(o, c + 1)
<1>1. Begins(h, o) /\ Ids(s, g) = Due(h, o) /\ RiseIn(s, g)
  BY DEF OnCourse
<1>2. Begins(h, p) /\ Due(h, p) = Due(h, o) \cup {c + 1}
  BY <1>1, OrderOnward
<1>3. Ids(Append(s, e), g) = Ids(s, g) \cup {e.id}
  BY IdsAppend
<1>4. \A x \in Ids(s, g) : x < e.id
  <2>1. Len(h) \in Nat /\ Len(o) \in Nat /\ \A n \in 1..Len(o) : o[n] \in Nat /\ o[n] <= c
    BY HistoryItems DEF Sorted
  <2>2. ASSUME NEW x \in Due(h, o) PROVE x < e.id
    <3>1. PICK n \in Len(h) + 1..Len(o) : x = o[n]
      BY <2>2 DEF Due
    <3>2. n \in 1..Len(o)
      BY <2>1, <3>1
    <3> QED BY <2>1, <3>1, <3>2
  <2> QED BY <1>1, <2>2
<1>5. RiseIn(Append(s, e), g)
  BY <1>1, <1>4, RiseAppend
<1> HIDE DEF p
<1>6. OnCourse(h, Append(s, e), p, g)
  BY <1>1, <1>2, <1>3, <1>5 DEF OnCourse
<1> QED BY <1>6 DEF p

-----------------------------------------------------------------------------
(* Steps that add no Commit.                                               *)

(* The line of v loses items, or is sent one that is not a Commit.         *)
Fewer(v) == Within(Waiting(v)', Waiting(v))

More(v) == \E e \in Mailable : e.kind # "Commit" /\ Sound(v, e, order) /\ Waiting(v)' = Append(Waiting(v), e)

(* No Commit of its groups is lost, while its inbox is below the cap.      *)
SameIds(v) == Len(inbox'[v]) < INBOX_CAP => \A g \in DOMAIN groups[v] : Ids(Waiting(v)', g) = Ids(Waiting(v), g)

(* What it has merged stays as it is.                                      *)
SameHist(v) == \A g \in DOMAIN groups[v] \cap DOMAIN groups'[v] : groups'[v][g].hist = groups[v][g].hist

OwnerFactNext == OwnerFact(groups'[Owner], disk'[Owner], op'[Owner], roster', order')

LEMMA SettledStep ==
    ASSUME DaemonType, Settled, UNCHANGED <<order, commits>>,
           \A v \in Wallets : (Fewer(v) \/ More(v)) /\ OpFact(v, op'[v]), OwnerFactNext
    PROVE  Settled'
<1>1. ASSUME NEW v \in Wallets
      PROVE  OpFact(v, op'[v]) /\ AllSound(v, Waiting(v)', order)
  <2>1. AllSound(v, Waiting(v), order) /\ Waiting(v) \in Seq(Mailable)
    BY WaitingTyped DEF Settled
  <2>2. CASE Fewer(v)
    BY <2>1, <2>2, SoundLess DEF Fewer
  <2>3. CASE More(v)
    <3>1. PICK e \in Mailable : Sound(v, e, order) /\ Waiting(v)' = Append(Waiting(v), e)
      BY <2>3 DEF More
    <3>2. AllSound(v, Append(Waiting(v), e), order)
      BY <2>1, <3>1, SoundAppend
    <3> QED BY <3>1, <3>2
  <2> QED BY <2>2, <2>3
<1>2. \A g \in Groups : Sorted(order'[g], commits')
  BY DEF Settled
<1>3. \A v \in Wallets : OpFact(v, op'[v]) /\ AllSound(v, Waiting(v)', order')
  BY <1>1
<1> QED BY <1>2, <1>3 DEF Settled, OwnerFactNext

LEMMA KeepsStep ==
    ASSUME DaemonType, DaemonType', order' = order, NEW v \in Wallets, NEW g \in Groups,
           (Fewer(v) /\ SameIds(v)) \/ More(v), Len(inbox'[v]) < INBOX_CAP,
           g \in DOMAIN groups[v], g \in DOMAIN groups'[v], groups'[v][g].hist = groups[v][g].hist,
           InStep(v, g)
    PROVE  InStep(v, g)'
<1> DEFINE h == groups[v][g].hist
           s == Waiting(v)
           o == order[g]
<1>1. OnCourse(h, s, o, g)
  BY InStepIsOnCourse
<1>2. OnCourse(h, Waiting(v)', o, g)
  <2>1. CASE Fewer(v) /\ SameIds(v)
    <3>1. Within(Waiting(v)', s) /\ Ids(Waiting(v)', g) = Ids(s, g)
      BY <2>1 DEF Fewer, SameIds
    <3> HIDE DEF h, s, o
    <3> QED BY <1>1, <3>1, OnCourseLess
  <2>2. CASE More(v)
    <3>1. PICK e \in Mailable : e.kind # "Commit" /\ Waiting(v)' = Append(s, e)
      BY <2>2 DEF More
    <3>2. s \in Seq(Mailable) /\ ~IsCommit(e, g)
      BY <3>1, WaitingTyped DEF IsCommit
    <3> HIDE DEF h, s, o
    <3> QED BY <1>1, <3>1, <3>2, OnCourseMore
  <2> QED BY <2>1, <2>2
<1>3. groups'[v][g].hist = h /\ order'[g] = o
  OBVIOUS
<1> HIDE DEF h, o
<1> QED BY <1>2, <1>3, InStepIsOnCourseNext

LEMMA KeepsAll ==
    ASSUME DaemonType, DaemonType', order' = order,
           \A v \in Wallets : ((Fewer(v) /\ SameIds(v)) \/ More(v)) /\ SameHist(v)
    PROVE  Keeps
<1> SUFFICES ASSUME NEW v \in Wallets, NEW g \in Groups, Member(v, g), InStep(v, g), Member(v, g)',
                    Len(inbox'[v]) < INBOX_CAP
             PROVE  InStep(v, g)'
  BY DEF Keeps
<1>1. g \in DOMAIN groups[v] /\ g \in DOMAIN groups'[v]
  BY DEF Member
<1>2. groups'[v][g].hist = groups[v][g].hist
  BY <1>1 DEF SameHist
<1> QED BY <1>1, <1>2, KeepsStep

(* The lines stay as they are.                                             *)
LEMMA StillLines ==
    ASSUME NEW v, Waiting(v)' = Waiting(v)
    PROVE  Fewer(v) /\ SameIds(v)
  BY WithinSame DEF Fewer, SameIds

(* The owner has no part in the step.                                      *)
LEMMA OwnerStays ==
    ASSUME Settled, groups'[Owner] = groups[Owner], disk'[Owner] = disk[Owner], op'[Owner] = op[Owner],
           UNCHANGED <<roster, order>>
    PROVE  OwnerFactNext
  BY DEF Settled, OwnerFactNext

(* ... or only its message keys move, or what it stores.                   *)
LEMMA OwnerRenews ==
    ASSUME Settled, op[Owner] = Idle, SameHandles(groups'[Owner], groups[Owner]),
           disk'[Owner] = disk[Owner], op'[Owner] \in {Idle, Persist} \/ op'[Owner].pc \in {"pending", "welcome"},
           UNCHANGED <<roster, order>>
    PROVE  OwnerFactNext
<1>1. OwnerFact(groups[Owner], disk[Owner], Idle, roster, order)
  BY DEF Settled
<1>2. op'[Owner].pc \notin {"commit", "onboard"} /\ Idle.pc = "idle"
  BY DEF Idle, Persist
<1>3. \A g : Guest(Idle, g) = {} /\ Guest(op'[Owner], g) = {}
  BY <1>2 DEF Guest
<1>4. \A g \in DOMAIN groups'[Owner] : Agrees(groups'[Owner][g], g, roster', order', Guest(op'[Owner], g))
  BY <1>1, <1>3 DEF OwnerFact, SameHandles, Agrees
<1>5. \A g \in Groups \ DOMAIN groups'[Owner] : roster'[g] = {} /\ order'[g] = <<>>
  BY <1>1 DEF OwnerFact, SameHandles
<1>6. SameHandles(disk'[Owner], groups'[Owner])
  BY <1>1, <1>2 DEF OwnerFact, SameHandles
<1> QED BY <1>2, <1>4, <1>5, <1>6 DEF OwnerFact, OwnerFactNext

-----------------------------------------------------------------------------
(* The owner's Commits.                                                    *)

(* A registry after one row of it was put.                                 *)
LEMMA RowPut ==
    ASSUME DaemonType, NEW w \in Wallets, NEW g \in Groups, NEW h \in GroupState,
           groups' = [groups EXCEPT ![w] = Put(groups[w], g, h)]
    PROVE  /\ DOMAIN groups'[w] = DOMAIN groups[w] \cup {g}
           /\ groups'[w][g] = h
           /\ \A f \in DOMAIN groups[w] \ {g} : groups'[w][f] = groups[w][f]
           /\ \A v \in Wallets \ {w} : groups'[v] = groups[v]
<1>1. groups[w] \in Registries
  BY SameTables
<1> DEFINE r == Put(groups[w], g, h)
<1>2. DOMAIN r = DOMAIN groups[w] \cup {g} /\ r[g] = h /\ \A f \in DOMAIN groups[w] \ {g} : r[f] = groups[w][f]
  BY <1>1, PutRegistry
<1> HIDE DEF r
<1>3. groups'[w] = r /\ \A v \in Wallets \ {w} : groups'[v] = groups[v]
  BY DEF DaemonType, r
<1> QED BY <1>2, <1>3

(* A Commit that extends the order and goes to every other member.         *)
LEMMA OwnerCommits ==
    ASSUME DaemonType, DaemonType', Settled, NEW g \in DOMAIN groups[Owner], NEW new \in GroupState,
           NEW o, op[Owner].pc # "pending", o.pc # "pending", o.pc # "redeem", o.pc # "welcome",
           op' = [op EXCEPT ![Owner] = o], inbox' = inbox,
           groups' = [groups EXCEPT ![Owner] = Put(groups[Owner], g, new)],
           commits < MaxCommits, commits' = commits + 1, order' = [order EXCEPT ![g] = Append(order[g], commits + 1)],
           new.hist = Append(order[g], commits + 1),
           NEW R, Owner \notin R, NEW e \in Mailable, mail' = Deliver(R, e),
           IsCommit(e, g), e.hist = order[g], e.id = commits + 1,
           \A v \in Wallets \ {Owner} : v \in roster[g] /\ v \in roster'[g] => v \in R,
           OwnerFactNext
    PROVE  Settled' /\ Keeps
<1> USE DaemonAssumption
<1> DEFINE id == commits + 1
           c == commits
           old == order[g]
           ord == Append(old, id)
<1>1. g \in Groups /\ old \in Histories /\ c \in Nat /\ id \in 1..MaxCommits /\ id \in Nat
  <2>1. groups[Owner] \in Registries
    BY SameTables
  <2>2. g \in Groups
    BY <2>1, RegistryRows
  <2>3. c \in Nat /\ id \in 1..MaxCommits
    BY DEF DaemonType
  <2> QED BY <2>2, <2>3 DEF DaemonType
<1>2. order'[g] = ord /\ \A f \in Groups \ {g} : order'[f] = order[f]
  BY <1>1 DEF DaemonType
<1>3. Sorted(old, c)
  BY <1>1 DEF Settled
<1>4. /\ ord \in Histories /\ Len(ord) = Len(old) + 1 /\ Len(old) \in Nat /\ ord[Len(old) + 1] = id
      /\ Sorted(ord, id)
      /\ Begins(old, ord) /\ Begins(ord, ord) /\ Due(ord, ord) = {}
      /\ \A x : Placed(x, old) /\ x.hist \in Histories => Placed(x, ord)
  BY <1>1, <1>3, OrderOnward
<1>5. /\ DOMAIN groups'[Owner] = DOMAIN groups[Owner] \cup {g}
      /\ groups'[Owner][g] = new
      /\ \A f \in DOMAIN groups[Owner] \ {g} : groups'[Owner][f] = groups[Owner][f]
      /\ \A v \in Wallets \ {Owner} : groups'[v] = groups[v]
  BY <1>1, RowPut
<1>6. \A v \in Wallets : Waiting(v)' = IF v \in R THEN Append(Waiting(v), e) ELSE Waiting(v)
  BY SubmittedLines
<1>7. \A v \in Wallets : Waiting(v) \in Seq(Mailable) /\ AllSound(v, Waiting(v), order)
  BY WaitingTyped DEF Settled
<1>8. e.kind = "Commit" /\ e.group = g
  BY DEF IsCommit
<1> HIDE DEF ord, old, c, id
<1>9. Placed(e, order'[g])
  <2>1. e.hist = old /\ e.id = id
    BY DEF old, id
  <2>2. Len(old) < Len(ord)
    BY <1>4
  <2> QED BY <1>2, <1>4, <2>1, <2>2 DEF Placed
<1>10. ASSUME NEW v \in Wallets, NEW x \in Mailable, Sound(v, x, order)
       PROVE  Sound(v, x, order')
  <2>1. x.group \in Groups /\ x.hist \in Histories
    BY DEF Mailable, EnvelopeType
  <2>2. ASSUME Placed(x, order[x.group]) PROVE Placed(x, order'[x.group])
    <3>1. CASE x.group = g
      BY <1>2, <1>4, <2>1, <2>2, <3>1 DEF old
    <3>2. CASE x.group # g
      BY <1>2, <2>1, <2>2, <3>2
    <3> QED BY <3>1, <3>2
  <2> QED BY <1>10, <2>2 DEF Sound
<1>11. ASSUME NEW v \in Wallets
       PROVE  OpFact(v, op'[v]) /\ AllSound(v, Waiting(v)', order')
  <2>1. OpFact(v, op'[v])
    <3>1. CASE v = Owner
      <4>1. op'[v] = o
        BY <3>1 DEF DaemonType
      <4> QED BY <4>1 DEF OpFact
    <3>2. CASE v # Owner
      <4>1. op'[v] = op[v] /\ OpFact(v, op[v])
        BY <3>2 DEF DaemonType, Settled
      <4> QED BY <4>1
    <3> QED BY <3>1, <3>2
  <2>2. AllSound(v, Waiting(v), order')
    <3> DEFINE s == Waiting(v)
    <3>1. s \in Seq(Mailable) /\ AllSound(v, s, order)
      BY <1>7
    <3> HIDE DEF s
    <3>2. \A i \in DOMAIN s : s[i] \in Mailable /\ Sound(v, s[i], order)
      BY <3>1 DEF AllSound
    <3>3. \A i \in DOMAIN s : Sound(v, s[i], order')
      BY <1>10, <3>2
    <3>4. AllSound(v, s, order')
      BY <3>3 DEF AllSound
    <3> QED BY <3>4 DEF s
  <2>3. CASE v \in R
    <3>1. Sound(v, e, order') /\ Waiting(v)' = Append(Waiting(v), e)
      BY <1>6, <1>8, <1>9, <2>3 DEF Sound
    <3>2. AllSound(v, Append(Waiting(v), e), order')
      BY <1>7, <2>2, <3>1, SoundAppend
    <3> QED BY <2>1, <3>1, <3>2
  <2>4. CASE v \notin R
    BY <1>6, <2>1, <2>2, <2>4
  <2> QED BY <2>3, <2>4
<1>12. \A f \in Groups : Sorted(order'[f], commits')
  <2> SUFFICES ASSUME NEW f \in Groups PROVE Sorted(order'[f], commits')
    OBVIOUS
  <2>1. CASE f = g
    BY <1>2, <1>4, <2>1 DEF id
  <2>2. CASE f # g
    <3>1. order[f] \in Histories /\ Sorted(order[f], c) /\ order'[f] = order[f]
      BY <1>2, <2>2 DEF DaemonType, Settled, c
    <3>2. \A n \in 1..Len(order[f]) : order[f][n] \in Nat
      BY <3>1, HistoryItems
    <3>3. id = c + 1 /\ c \in Nat
      BY <1>1 DEF id, c
    <3>4. Sorted(order[f], id)
      BY <3>1, <3>2, <3>3 DEF Sorted
    <3> QED BY <3>1, <3>4 DEF id
  <2> QED BY <2>1, <2>2
<1>13. Settled'
  BY <1>11, <1>12 DEF Settled, OwnerFactNext
<1>14. ASSUME NEW v \in Wallets, NEW f \in Groups, Member(v, f), InStep(v, f), Member(v, f)'
       PROVE  InStep(v, f)'
  <2> DEFINE h == groups[v][f].hist
             s == Waiting(v)
  <2>1. f \in DOMAIN groups[v] /\ v \in roster[f] /\ f \in DOMAIN groups'[v] /\ v \in roster'[f]
    BY <1>14 DEF Member
  <2>2. OnCourse(h, s, order[f], f) /\ s \in Seq(Mailable)
    BY <1>7, <1>14, <2>1, InStepIsOnCourse
  <2>3. h \in Histories
    <3>1. groups[v] \in Registries
      BY SameTables
    <3>2. groups[v][f] \in GroupState
      BY <2>1, <3>1, RegistryRows
    <3> QED BY <3>2, HandleParts
  <2>4. OnCourse(groups'[v][f].hist, Waiting(v)', order'[f], f)
    <3>1. CASE f # g
      <4>1. groups'[v][f].hist = h /\ order'[f] = order[f]
        BY <1>2, <1>5, <2>1, <3>1
      <4>2. ~IsCommit(e, f)
        BY <1>8, <3>1 DEF IsCommit
      <4> HIDE DEF h
      <4>3. OnCourse(h, Append(s, e), order[f], f)
        <5> HIDE DEF s
        <5> QED BY <2>2, <4>2, OnCourseMore
      <4> QED BY <1>6, <2>2, <4>1, <4>3
    <3>2. CASE f = g /\ v = Owner
      <4>1. groups'[v][f].hist = ord /\ order'[f] = ord
        BY <1>2, <1>5, <3>2 DEF ord, id, old
      <4>2. Waiting(v)' = s
        BY <1>6, <3>2
      <4>3. Ids(s, f) = {}
        <5>1. \A i \in DOMAIN s : s[i].kind = "Application"
          BY <1>7, <3>2 DEF AllSound, Sound
        <5> HIDE DEF s
        <5> QED BY <5>1 DEF Ids, IdsIn, IsCommit
      <4> HIDE DEF s
      <4>4. OnCourse(ord, s, ord, f)
        BY <1>4, <2>2, <4>3 DEF OnCourse
      <4> QED BY <4>1, <4>2, <4>4
    <3>3. CASE f = g /\ v # Owner
      <4>1. v \in R
        BY <2>1, <3>3
      <4>2. groups'[v][f].hist = h /\ order'[f] = ord /\ Waiting(v)' = Append(s, e)
        BY <1>2, <1>5, <1>6, <3>3, <4>1
      <4>3. OnCourse(h, s, old, f) /\ IsCommit(e, f) /\ e.id = c + 1 /\ c + 1 \in 1..MaxCommits
        BY <1>1, <2>2, <3>3 DEF old, c, id
      <4>4. ord = Append(old, c + 1)
        BY DEF ord, c, id
      <4> HIDE DEF h, s
      <4>5. OnCourse(h, Append(s, e), Append(old, c + 1), f)
        BY <1>1, <1>3, <2>2, <2>3, <4>3, OnCourseCommit
      <4> QED BY <4>2, <4>4, <4>5
    <3> QED BY <3>1, <3>2, <3>3
  <2> QED BY <2>1, <2>4, InStepIsOnCourseNext
<1> QED BY <1>13, <1>14 DEF Keeps

LEMMA KeepsBySubmitAdd ==
    ASSUME DaemonType, DaemonType', Settled, SubmitAdd
    PROVE  Settled' /\ Keeps
<1> USE DaemonAssumption
<1> DEFINE g == op[Owner].group
           w == op[Owner].who
           h == groups[Owner][g]
           id == commits + 1
           R == Recipients(h, Owner)
           tree == h.tree \cup {w}
           members == h.members \cup {w}
           new == Handle(Append(h.hist, id), tree, members)
           e == Envelope("Commit", g, Owner, h.hist, tree, id, 0)
           o == [pc |-> "onboard", group |-> g, who |-> w]
<1>1. g \in Groups /\ w \in Wallets /\ g \in DOMAIN groups[Owner] /\ groups[Owner] \in Registries
  <2>1. op[Owner] \in Operations /\ OpFits(op[Owner], groups[Owner], invites) /\ op[Owner].pc = "commit"
    BY SameTables DEF SubmitAdd
  <2>2. op[Owner].group \in Groups /\ op[Owner].who \in Wallets
    BY <2>1, OperationParts
  <2> QED BY <2>1, <2>2, SameTables DEF OpFits
<1>2. h \in GroupState
  BY <1>1, RegistryRows
<1>3. op[Owner].pc = "commit" /\ OwnerFact(groups[Owner], disk[Owner], op[Owner], roster, order)
  BY DEF SubmitAdd, Settled
<1>4. \A f : Guest(op[Owner], f) = {}
  BY <1>3 DEF Guest
<1>5. Agrees(h, g, roster, order, {}) /\ w # Owner
  BY <1>1, <1>3, <1>4 DEF OwnerFact
<1>6. h.hist = order[g] /\ Owner \in h.tree /\ Owner \in roster[g] /\ h.members = roster[g]
  BY <1>5 DEF Agrees
<1>7. Admissible(g, Owner, R) /\ NextEpoch(g, h.hist)
  BY <1>6 DEF Admissible, NextEpoch, Recipients
<1>8. /\ groups' = [groups EXCEPT ![Owner] = Put(groups[Owner], g, new)]
      /\ order' = [order EXCEPT ![g] = Append(order[g], id)] /\ mail' = Deliver(R, e)
      /\ op' = [op EXCEPT ![Owner] = o]
  BY <1>7 DEF SubmitAdd, SetGroup, Set, Handle
<1>9. /\ inbox' = inbox /\ disk' = disk /\ roster' = roster /\ commits < MaxCommits /\ commits' = id
  BY DEF SubmitAdd
<1>10. o.pc = "onboard" /\ o.group = g /\ o.who = w
  OBVIOUS
<1>11. id \in 1..MaxCommits
  BY <1>9 DEF DaemonType
<1>12. new \in GroupState /\ new.hist = Append(order[g], id) /\ new.tree = tree /\ new.members = members
  <2> DEFINE a == Append(h.hist, id)
  <2>1. h.hist \in Histories /\ tree \in SUBSET Wallets /\ members \in SUBSET Wallets
    BY <1>1, <1>2, HandleParts
  <2>2. a \in Histories
    BY <1>11, <2>1, HistoryGrows
  <2>3. a = Append(order[g], id)
    BY <1>6
  <2>4. new = Handle(a, tree, members)
    OBVIOUS
  <2> HIDE DEF a, tree, members, new
  <2>5. new \in GroupState
    BY <2>1, <2>2, <2>4, HandleType
  <2>6. new.hist = a /\ new.tree = tree /\ new.members = members
    BY <2>4 DEF Handle
  <2> QED BY <2>3, <2>5, <2>6
<1>13. e \in Mailable
  <2> DEFINE hist == h.hist
  <2>1. hist \in Histories /\ tree \in SUBSET Wallets
    BY <1>1, <1>2, HandleParts
  <2> HIDE DEF tree, hist, g
  <2> QED BY <1>1, <1>9, <2>1, CommitTyped DEF hist
<1>14. IsCommit(e, g) /\ e.hist = order[g] /\ e.id = id
  BY <1>6 DEF IsCommit, Envelope
<1>15. Owner \notin R /\ \A v \in Wallets \ {Owner} : v \in roster[g] => v \in R
  BY <1>6 DEF Recipients
<1>16. Owner \in tree /\ members = roster[g] \cup {w}
  BY <1>6
<1> HIDE DEF new, e, o, R, h, tree, members
<1>17. OwnerFactNext
  <2>1. op'[Owner] = o /\ order'[g] = Append(order[g], id) /\ \A f \in Groups \ {g} : order'[f] = order[f]
    BY <1>1, <1>8 DEF DaemonType
  <2>2. /\ DOMAIN groups'[Owner] = DOMAIN groups[Owner] \cup {g} /\ groups'[Owner][g] = new
        /\ \A f \in DOMAIN groups[Owner] \ {g} : groups'[Owner][f] = groups[Owner][f]
    <3> HIDE DEF g
    <3>1. g \in Groups /\ new \in GroupState /\ groups' = [groups EXCEPT ![Owner] = Put(groups[Owner], g, new)]
      BY <1>1, <1>8, <1>12
    <3>2. PICK x, n : x = g /\ n = new
      OBVIOUS
    <3>3. x \in Groups /\ n \in GroupState /\ groups' = [groups EXCEPT ![Owner] = Put(groups[Owner], x, n)]
      BY <3>1, <3>2
    <3>4. /\ DOMAIN groups'[Owner] = DOMAIN groups[Owner] \cup {x}
          /\ groups'[Owner][x] = n
          /\ \A f \in DOMAIN groups[Owner] \ {x} : groups'[Owner][f] = groups[Owner][f]
          /\ \A v \in Wallets \ {Owner} : groups'[v] = groups[v]
      BY <3>3, RowPut
    <3> QED BY <3>2, <3>4
  <2>3. \A f : Guest(o, f) = IF f = g THEN {w} ELSE {}
    BY <1>10 DEF Guest
  <2>4. ASSUME NEW f \in DOMAIN groups'[Owner]
        PROVE  Agrees(groups'[Owner][f], f, roster', order', Guest(op'[Owner], f))
    <3>1. CASE f = g
      BY <1>6, <1>9, <1>12, <1>16, <2>1, <2>2, <2>3, <3>1 DEF Agrees
    <3>2. CASE f # g
      <4>1. f \in DOMAIN groups[Owner] /\ f \in Groups
        BY <1>1, <2>2, <2>4, <3>2, RegistryRows
      <4>2. Agrees(groups[Owner][f], f, roster, order, {})
        BY <1>3, <1>4, <4>1 DEF OwnerFact
      <4> QED BY <1>9, <2>1, <2>2, <2>3, <3>2, <4>1, <4>2 DEF Agrees
    <3> QED BY <3>1, <3>2
  <2>5. \A f \in Groups \ DOMAIN groups'[Owner] : roster'[f] = {} /\ order'[f] = <<>>
    BY <1>3, <1>9, <2>1, <2>2 DEF OwnerFact
  <2> QED BY <1>5, <1>10, <2>1, <2>4, <2>5 DEF OwnerFact, OwnerFactNext
<1> HIDE DEF g, id, w
<1>18. op[Owner].pc # "pending" /\ o.pc # "pending" /\ o.pc # "redeem" /\ o.pc # "welcome"
  BY <1>3, <1>10
<1>19. /\ order' = [order EXCEPT ![g] = Append(order[g], commits + 1)] /\ commits' = commits + 1
       /\ new.hist = Append(order[g], commits + 1) /\ e.id = commits + 1
  BY <1>8, <1>9, <1>12, <1>14 DEF id
<1> QED BY <1>1, <1>8, <1>9, <1>12, <1>13, <1>14, <1>15, <1>17, <1>18, <1>19, OwnerCommits

LEMMA KeepsByOffboard ==
    ASSUME DaemonType, DaemonType', Settled, NEW g \in Groups, NEW w \in Wallets, Offboard(g, w)
    PROVE  Settled' /\ Keeps
<1> USE DaemonAssumption
<1> DEFINE h == groups[Owner][g]
           id == commits + 1
           tree == h.tree \ {w}
           members == h.members \ {w}
           new == Handle(Append(h.hist, id), tree, members)
           R == Recipients(new, Owner)
           e == Envelope("Commit", g, Owner, h.hist, tree, id, 0)
<1>1. /\ op[Owner] = Idle /\ g \in DOMAIN groups[Owner] /\ w # Owner
      /\ inbox' = inbox /\ disk' = disk /\ commits < MaxCommits /\ commits' = id
  BY DEF Offboard
<1>2. groups[Owner] \in Registries /\ h \in GroupState
  BY <1>1, RegistryRows, SameTables
<1>3. OwnerFact(groups[Owner], disk[Owner], Idle, roster, order) /\ Idle.pc = "idle" /\ Persist.pc = "persist"
  BY <1>1 DEF Settled, Idle, Persist
<1>4. \A f : Guest(Idle, f) = {} /\ Guest(Persist, f) = {}
  BY <1>3 DEF Guest
<1>5. Agrees(h, g, roster, order, {})
  BY <1>1, <1>3, <1>4 DEF OwnerFact
<1>6. h.hist = order[g] /\ Owner \in h.tree /\ Owner \in roster[g] /\ h.members = roster[g]
  BY <1>5 DEF Agrees
<1>7. R = members \ {Owner} /\ w \in roster[g]
  BY <1>6 DEF Recipients, Handle, Offboard
<1>8. Admissible(g, Owner, R) /\ NextEpoch(g, h.hist)
  BY <1>6, <1>7 DEF Admissible, NextEpoch
<1>9. /\ groups' = [groups EXCEPT ![Owner] = Put(groups[Owner], g, new)]
      /\ order' = [order EXCEPT ![g] = Append(order[g], id)] /\ mail' = Deliver(R, e)
      /\ roster' = [roster EXCEPT ![g] = roster[g] \ {w}]
      /\ op' = [op EXCEPT ![Owner] = Persist]
  BY <1>7, <1>8 DEF Offboard, SetGroup, Set, Handle
<1>10. id \in 1..MaxCommits
  BY <1>1 DEF DaemonType
<1>11. new \in GroupState /\ new.hist = Append(order[g], id) /\ new.tree = tree /\ new.members = members
  <2> DEFINE a == Append(h.hist, id)
  <2>1. h.hist \in Histories /\ tree \in SUBSET Wallets /\ members \in SUBSET Wallets
    BY <1>2, HandleParts
  <2>2. a \in Histories
    BY <1>10, <2>1, HistoryGrows
  <2>3. a = Append(order[g], id)
    BY <1>6
  <2>4. new = Handle(a, tree, members)
    OBVIOUS
  <2> HIDE DEF a, tree, members, new
  <2>5. new \in GroupState
    BY <2>1, <2>2, <2>4, HandleType
  <2>6. new.hist = a /\ new.tree = tree /\ new.members = members
    BY <2>4 DEF Handle
  <2> QED BY <2>3, <2>5, <2>6
<1>12. e \in Mailable
  <2> DEFINE hist == h.hist
  <2>1. hist \in Histories /\ tree \in SUBSET Wallets
    BY <1>2, HandleParts
  <2> HIDE DEF tree, hist
  <2> QED BY <1>1, <2>1, CommitTyped DEF hist
<1>13. IsCommit(e, g) /\ e.hist = order[g] /\ e.id = id
  BY <1>6 DEF IsCommit, Envelope
<1>14. roster'[g] = roster[g] \ {w} /\ \A f \in Groups \ {g} : roster'[f] = roster[f]
  BY <1>9 DEF DaemonType
<1>15. Owner \notin R /\ \A v \in Wallets \ {Owner} : v \in roster'[g] => v \in R
  BY <1>6, <1>7, <1>14
<1>16. Owner \in tree /\ members = roster'[g] /\ Owner \in roster'[g]
  BY <1>1, <1>6, <1>14
<1> HIDE DEF new, e, R, h, tree, members
<1>17. OwnerFactNext
  <2>1. op'[Owner] = Persist /\ order'[g] = Append(order[g], id) /\ \A f \in Groups \ {g} : order'[f] = order[f]
    BY <1>9 DEF DaemonType
  <2>2. /\ DOMAIN groups'[Owner] = DOMAIN groups[Owner] \cup {g}
        /\ groups'[Owner][g] = new
        /\ \A f \in DOMAIN groups[Owner] \ {g} : groups'[Owner][f] = groups[Owner][f]
        /\ \A v \in Wallets \ {Owner} : groups'[v] = groups[v]
    BY <1>9, <1>11, RowPut
  <2>3. ASSUME NEW f \in DOMAIN groups'[Owner]
        PROVE  Agrees(groups'[Owner][f], f, roster', order', Guest(op'[Owner], f))
    <3>1. CASE f = g
      BY <1>4, <1>11, <1>16, <2>1, <2>2, <3>1 DEF Agrees
    <3>2. CASE f # g
      <4>1. f \in DOMAIN groups[Owner] /\ f \in Groups
        BY <1>2, <2>2, <2>3, <3>2, RegistryRows
      <4>2. Agrees(groups[Owner][f], f, roster, order, {})
        BY <1>3, <1>4, <4>1 DEF OwnerFact
      <4> QED BY <1>4, <1>14, <2>1, <2>2, <3>2, <4>1, <4>2 DEF Agrees
    <3> QED BY <3>1, <3>2
  <2>4. \A f \in Groups \ DOMAIN groups'[Owner] : roster'[f] = {} /\ order'[f] = <<>>
    BY <1>3, <1>14, <2>1, <2>2 DEF OwnerFact
  <2> QED BY <1>3, <2>1, <2>3, <2>4 DEF OwnerFact, OwnerFactNext
<1> HIDE DEF id
<1>18. op[Owner].pc # "pending" /\ Persist.pc \notin {"pending", "redeem", "welcome"}
  BY <1>1, <1>3
<1>19. /\ order' = [order EXCEPT ![g] = Append(order[g], commits + 1)] /\ commits' = commits + 1
       /\ new.hist = Append(order[g], commits + 1) /\ e.id = commits + 1
  BY <1>1, <1>9, <1>11, <1>13 DEF id
<1> QED BY <1>1, <1>9, <1>11, <1>12, <1>13, <1>15, <1>17, <1>18, <1>19, OwnerCommits

-----------------------------------------------------------------------------
(* Steps that leave the lines as they are.                                 *)

LEMMA StillStep ==
    ASSUME DaemonType, DaemonType', Settled, UNCHANGED <<order, commits>>,
           \A v \in Wallets : Waiting(v)' = Waiting(v) /\ OpFact(v, op'[v]) /\ SameHist(v), OwnerFactNext
    PROVE  Settled' /\ Keeps
<1>1. \A v \in Wallets : Fewer(v) /\ SameIds(v)
  BY StillLines
<1> QED BY <1>1, SettledStep, KeepsAll

(* An operation that cannot disturb the members' lines.                    *)
LEMMA OpFactNext ==
    ASSUME DaemonType, Settled, NEW w \in Wallets, NEW o, op' = [op EXCEPT ![w] = o], OpFact(w, o)
    PROVE  \A v \in Wallets : OpFact(v, op'[v])
<1> SUFFICES ASSUME NEW v \in Wallets PROVE OpFact(v, op'[v])
  OBVIOUS
<1>1. CASE v = w
  BY <1>1 DEF DaemonType
<1>2. CASE v # w
  <2>1. op'[v] = op[v] /\ OpFact(v, op[v])
    BY <1>2 DEF DaemonType, Settled
  <2> QED BY <2>1
<1> QED BY <1>1, <1>2

LEMMA KeepsByCreateGroup ==
    ASSUME DaemonType, DaemonType', Settled, NEW g \in Groups, CreateGroup(g)
    PROVE  Settled' /\ Keeps
<1> USE DaemonAssumption
<1> DEFINE h == Handle(<<>>, {Owner}, {Owner})
<1>1. /\ op[Owner] = Idle /\ roster[g] = {} /\ disk' = disk /\ order' = order /\ inbox' = inbox /\ mail' = mail
      /\ commits' = commits
      /\ roster' = [roster EXCEPT ![g] = {Owner}] /\ op' = [op EXCEPT ![Owner] = Persist]
      /\ groups' = [groups EXCEPT ![Owner] = Put(groups[Owner], g, h)]
  BY DEF CreateGroup, SetGroup, Set
<1>2. OwnerFact(groups[Owner], disk[Owner], Idle, roster, order) /\ Idle.pc = "idle" /\ Persist.pc = "persist"
  BY <1>1 DEF Settled, Idle, Persist
<1>3. \A f : Guest(Idle, f) = {} /\ Guest(Persist, f) = {}
  BY <1>2 DEF Guest
<1>4. g \notin DOMAIN groups[Owner]
  BY <1>1, <1>2 DEF OwnerFact, Agrees
<1>5. h \in GroupState /\ h.hist = <<>> /\ h.tree = {Owner} /\ h.members = {Owner}
  <2>1. <<>> \in Histories
    BY DEF Histories
  <2>2. h \in GroupState
    BY <2>1, HandleType
  <2> QED BY <2>2 DEF Handle
<1> HIDE DEF h
<1>6. /\ DOMAIN groups'[Owner] = DOMAIN groups[Owner] \cup {g}
      /\ groups'[Owner][g] = h
      /\ \A f \in DOMAIN groups[Owner] \ {g} : groups'[Owner][f] = groups[Owner][f]
      /\ \A v \in Wallets \ {Owner} : groups'[v] = groups[v]
  BY <1>1, <1>5, RowPut
<1>7. roster'[g] = {Owner} /\ (\A f \in Groups \ {g} : roster'[f] = roster[f]) /\ op'[Owner] = Persist
  BY <1>1 DEF DaemonType
<1>8. OwnerFactNext
  <2>1. order[g] = <<>>
    BY <1>2, <1>4 DEF OwnerFact
  <2>2. ASSUME NEW f \in DOMAIN groups'[Owner]
        PROVE  Agrees(groups'[Owner][f], f, roster', order', Guest(op'[Owner], f))
    <3>1. CASE f = g
      BY <1>1, <1>3, <1>5, <1>6, <1>7, <2>1, <3>1 DEF Agrees
    <3>2. CASE f # g
      <4>1. f \in DOMAIN groups[Owner] /\ f \in Groups
        BY <1>6, <2>2, <3>2, RegistryRows, SameTables
      <4>2. Agrees(groups[Owner][f], f, roster, order, {})
        BY <1>2, <1>3, <4>1 DEF OwnerFact
      <4> QED BY <1>1, <1>3, <1>6, <1>7, <3>2, <4>1, <4>2 DEF Agrees
    <3> QED BY <3>1, <3>2
  <2>3. \A f \in Groups \ DOMAIN groups'[Owner] : roster'[f] = {} /\ order'[f] = <<>>
    BY <1>1, <1>2, <1>6, <1>7 DEF OwnerFact
  <2> QED BY <1>2, <1>7, <2>2, <2>3 DEF OwnerFact, OwnerFactNext
<1>9. \A v \in Wallets : SameHist(v)
  BY <1>4, <1>6 DEF SameHist
<1>10. op[Owner].pc # "pending" /\ Persist.pc # "pending" /\ OpFact(Owner, Persist)
  BY <1>1, <1>2 DEF OpFact
<1>11. \A v \in Wallets : OpFact(v, op'[v])
  BY <1>1, <1>10, OpFactNext
<1>12. \A v \in Wallets : Waiting(v)' = Waiting(v)
  BY <1>1, <1>10, QuietLines
<1> QED BY <1>1, <1>8, <1>9, <1>11, <1>12, StillStep

LEMMA KeepsByPersistState ==
    ASSUME DaemonType, DaemonType', Settled, NEW w \in Wallets, PersistState(w)
    PROVE  Settled' /\ Keeps
<1> USE DaemonAssumption
<1>1. /\ op[w] = Persist /\ op' = [op EXCEPT ![w] = Idle] /\ disk' = [disk EXCEPT ![w] = groups[w]]
      /\ groups' = groups /\ inbox' = inbox /\ UNCHANGED relayVars /\ commits' = commits
  BY DEF PersistState, Set
<1>2. Idle.pc = "idle" /\ Persist.pc = "persist" /\ UNCHANGED <<roster, order, mail>>
  BY <1>1 DEF Idle, Persist, relayVars
<1>3. OwnerFactNext
  <2>1. CASE w = Owner
    <3>1. OwnerFact(groups[Owner], disk[Owner], Persist, roster, order)
      BY <1>1, <2>1 DEF Settled
    <3>2. \A f : Guest(Idle, f) = {} /\ Guest(Persist, f) = {}
      BY <1>2 DEF Guest
    <3>3. op'[Owner] = Idle /\ disk'[Owner] = groups[Owner]
      BY <1>1, <2>1 DEF DaemonType
    <3>4. SameHandles(disk'[Owner], groups'[Owner])
      BY <1>1, <3>3 DEF SameHandles
    <3> QED BY <1>1, <1>2, <3>1, <3>2, <3>3, <3>4 DEF OwnerFact, OwnerFactNext
  <2>2. CASE w # Owner
    <3>1. op'[Owner] = op[Owner] /\ disk'[Owner] = disk[Owner]
      BY <1>1, <2>2 DEF DaemonType
    <3> QED BY <1>1, <1>2, <3>1, OwnerStays
  <2> QED BY <2>1, <2>2
<1>4. \A v \in Wallets : OpFact(v, op'[v])
  BY <1>1, <1>2, OpFactNext DEF OpFact
<1>5. \A v \in Wallets : Waiting(v)' = Waiting(v)
  BY <1>1, <1>2, QuietLines
<1>6. \A v \in Wallets : SameHist(v)
  BY <1>1 DEF SameHist
<1> QED BY <1>1, <1>2, <1>3, <1>4, <1>5, <1>6, StillStep

LEMMA KeepsByAddMember ==
    ASSUME DaemonType, DaemonType', Settled, NEW g \in Groups, NEW w \in Wallets, AddMember(g, w)
    PROVE  Settled' /\ Keeps
<1> USE DaemonAssumption
<1> DEFINE o == [pc |-> "commit", group |-> g, who |-> w]
<1>1. /\ op[Owner] = Idle /\ op' = [op EXCEPT ![Owner] = o] /\ g \in DOMAIN groups[Owner]
      /\ w \notin groups[Owner][g].tree
      /\ groups' = groups /\ disk' = disk /\ inbox' = inbox /\ UNCHANGED <<roster, order, mail>> /\ commits' = commits
  BY DEF AddMember, Set
<1>2. Idle.pc = "idle" /\ o.pc = "commit" /\ o.who = w
  BY DEF Idle
<1> HIDE DEF o
<1>3. OwnerFact(groups[Owner], disk[Owner], Idle, roster, order) /\ op'[Owner] = o
  BY <1>1 DEF Settled, DaemonType
<1>4. \A f : Guest(Idle, f) = {} /\ Guest(o, f) = {}
  BY <1>2 DEF Guest
<1>5. w # Owner
  BY <1>1, <1>3 DEF OwnerFact, Agrees
<1>6. OwnerFactNext
  BY <1>1, <1>2, <1>3, <1>4, <1>5 DEF OwnerFact, OwnerFactNext
<1>7. op[Owner].pc # "pending" /\ o.pc # "pending" /\ OpFact(Owner, o)
  BY <1>1, <1>2 DEF OpFact
<1>8. \A v \in Wallets : OpFact(v, op'[v])
  BY <1>1, <1>7, OpFactNext
<1>9. \A v \in Wallets : Waiting(v)' = Waiting(v)
  BY <1>1, <1>7, QuietLines
<1>10. \A v \in Wallets : SameHist(v)
  BY <1>1 DEF SameHist
<1> QED BY <1>1, <1>6, <1>8, <1>9, <1>10, StillStep

LEMMA KeepsByPublishInvite ==
    ASSUME DaemonType, DaemonType', Settled, NEW g \in Groups, NEW t \in Tokens, PublishInvite(g, t)
    PROVE  Settled' /\ Keeps
<1>1. UNCHANGED <<groups, inbox, disk, op, roster, order, mail, commits>>
  BY DEF PublishInvite, daemonVars
<1>2. \A v \in Wallets : Waiting(v)' = Waiting(v) /\ OpFact(v, op'[v]) /\ SameHist(v)
  BY <1>1 DEF Waiting, InHand, Settled, SameHist
<1>3. OwnerFactNext
  BY <1>1, OwnerStays
<1> QED BY <1>1, <1>2, <1>3, StillStep

LEMMA KeepsByRedeemInvite ==
    ASSUME DaemonType, DaemonType', Settled, NEW w \in Wallets, NEW t \in Tokens, RedeemInvite(w, t)
    PROVE  Keeps
<1> DEFINE o == [pc |-> "redeem", token |-> t]
<1>1. op[w] = Idle /\ op' = [op EXCEPT ![w] = o] /\ UNCHANGED <<groups, inbox, order, mail>>
  BY DEF RedeemInvite, Set
<1>2. op[w].pc # "pending" /\ o.pc # "pending"
  BY <1>1 DEF Idle
<1> HIDE DEF o
<1>3. \A v \in Wallets : Waiting(v)' = Waiting(v)
  BY <1>1, <1>2, QuietLines
<1>4. \A v \in Wallets : Fewer(v) /\ SameIds(v) /\ SameHist(v)
  BY <1>1, <1>3, StillLines DEF SameHist
<1> QED BY <1>1, <1>4, KeepsAll

LEMMA KeepsByJoinGroupFinish ==
    ASSUME DaemonType, DaemonType', Settled, NEW w \in Wallets, JoinGroupFinish(w)
    PROVE  Settled' /\ Keeps
<1> DEFINE e == op[w].env
           g == e.group
<1>1. /\ op[w].pc = "welcome" /\ op' = [op EXCEPT ![w] = Idle] /\ inbox' = inbox
      /\ UNCHANGED <<roster, order, mail>> /\ commits' = commits /\ JoinWithWelcome(w, e)
  BY DEF JoinGroupFinish, Set, relayVars
<1>2. e \in Mailable /\ g \notin DOMAIN groups[w] /\ w # Owner
  <2>1. op[w] \in Operations /\ OpFits(op[w], groups[w], invites) /\ OpFact(w, op[w])
    BY SameTables DEF Settled
  <2> QED BY <1>1, <2>1, OperationParts DEF OpFits, OpFact
<1> HIDE DEF e
<1>3. PICK r \in Registries : /\ groups' = [groups EXCEPT ![w] = r] /\ disk' = [disk EXCEPT ![w] = r]
                              /\ \A f \in DOMAIN groups[w] \ {g} : r[f] = groups[w][f]
  <2>1. PICK x : x = e
    OBVIOUS
  <2>2. x \in Mailable /\ JoinWithWelcome(w, x)
    BY <1>1, <1>2, <2>1
  <2>3. \E r \in Registries : /\ groups' = [groups EXCEPT ![w] = r] /\ disk' = [disk EXCEPT ![w] = r]
                              /\ r = Put(groups[w], x.group, Handle(x.hist, x.tree, roster[x.group]))
                              /\ DOMAIN r = DOMAIN groups[w] \union {x.group}
                              /\ \A f \in DOMAIN groups[w] \ {x.group} : r[f] = groups[w][f]
    BY <2>2, Welcomed
  <2> QED BY <2>1, <2>3
<1> HIDE DEF g
<1>4. groups'[w] = r /\ \A v \in Wallets \ {w} : /\ groups'[v] = groups[v] /\ disk'[v] = disk[v]
                                                /\ op'[v] = op[v]
  BY <1>1, <1>3 DEF DaemonType
<1>5. \A v \in Wallets : SameHist(v)
  BY <1>2, <1>3, <1>4 DEF SameHist
<1>6. OwnerFactNext
  <2>1. groups'[Owner] = groups[Owner] /\ disk'[Owner] = disk[Owner] /\ op'[Owner] = op[Owner]
    BY <1>2, <1>4, DaemonAssumption
  <2> QED BY <1>1, <2>1, OwnerStays
<1>7. op[w].pc # "pending" /\ Idle.pc # "pending" /\ OpFact(w, Idle)
  BY <1>1 DEF Idle, OpFact
<1>8. \A v \in Wallets : OpFact(v, op'[v])
  BY <1>1, <1>7, OpFactNext
<1>9. \A v \in Wallets : Waiting(v)' = Waiting(v)
  BY <1>1, <1>7, QuietLines
<1> QED BY <1>1, <1>5, <1>6, <1>8, <1>9, StillStep

-----------------------------------------------------------------------------
(* Steps that send something else than a Commit.                           *)

LEMMA SentLines ==
    ASSUME NEW R, NEW e \in Mailable, e.kind # "Commit", \A v \in R : Sound(v, e, order),
           \A v \in Wallets : Waiting(v)' = IF v \in R THEN Append(Waiting(v), e) ELSE Waiting(v)
    PROVE  \A v \in Wallets : (Fewer(v) /\ SameIds(v)) \/ More(v)
<1> SUFFICES ASSUME NEW v \in Wallets PROVE (Fewer(v) /\ SameIds(v)) \/ More(v)
  OBVIOUS
<1>1. CASE v \in R
  <2>1. Waiting(v)' = Append(Waiting(v), e) /\ Sound(v, e, order)
    BY <1>1
  <2> QED BY <2>1 DEF More
<1>2. CASE v \notin R
  BY <1>2, StillLines
<1> QED BY <1>1, <1>2

LEMMA KeepsByOnboard ==
    ASSUME DaemonType, DaemonType', Settled, Onboard
    PROVE  Settled' /\ Keeps
<1> USE DaemonAssumption
<1> DEFINE g == op[Owner].group
           w == op[Owner].who
           h == groups[Owner][g]
           R == {w}
           e == Envelope("Welcome", g, Owner, h.hist, h.tree, 0, 0)
<1>1. g \in Groups /\ w \in Wallets /\ g \in DOMAIN groups[Owner] /\ groups[Owner] \in Registries
  <2>1. op[Owner] \in Operations /\ OpFits(op[Owner], groups[Owner], invites) /\ op[Owner].pc = "onboard"
    BY SameTables DEF Onboard
  <2>2. op[Owner].group \in Groups /\ op[Owner].who \in Wallets
    BY <2>1, OperationParts
  <2> QED BY <2>1, <2>2, SameTables DEF OpFits
<1>2. h \in GroupState
  BY <1>1, RegistryRows
<1>3. e \in Mailable
  BY <1>1, <1>2, HandleParts, EnvelopeMailable
<1>4. /\ op[Owner].pc = "onboard" /\ op' = [op EXCEPT ![Owner] = Persist] /\ Persist.pc = "persist"
      /\ mail' = Deliver(R, e) /\ roster' = [roster EXCEPT ![g] = roster[g] \cup {w}]
      /\ groups' = groups /\ inbox' = inbox /\ disk' = disk /\ order' = order /\ commits' = commits
  BY DEF Onboard, Set, Persist
<1>5. e.kind = "Welcome"
  BY DEF Envelope
<1> HIDE DEF e
<1>6. OwnerFact(groups[Owner], disk[Owner], op[Owner], roster, order)
  BY DEF Settled
<1>7. w # Owner
  BY <1>4, <1>6 DEF OwnerFact
<1>8. \A f : Guest(Persist, f) = {} /\ Guest(op[Owner], f) = IF f = g THEN {w} ELSE {}
  BY <1>4 DEF Guest
<1>9. op'[Owner] = Persist /\ roster'[g] = roster[g] \cup {w} /\ \A f \in Groups \ {g} : roster'[f] = roster[f]
  BY <1>1, <1>4 DEF DaemonType
<1>10. ASSUME NEW f \in DOMAIN groups[Owner]
       PROVE  Agrees(groups'[Owner][f], f, roster', order', Guest(op'[Owner], f))
  <2>1. Agrees(groups[Owner][f], f, roster, order, Guest(op[Owner], f)) /\ f \in Groups
    BY <1>1, <1>6, RegistryRows DEF OwnerFact
  <2>2. CASE f = g
    <3>1. Guest(op[Owner], f) = {w} /\ Guest(op'[Owner], f) = {}
      BY <1>8, <1>9, <2>2
    <3> HIDE DEF g, w
    <3> QED BY <1>4, <1>9, <2>1, <2>2, <3>1 DEF Agrees
  <2>3. CASE f # g
    <3>1. Guest(op[Owner], f) = {} /\ Guest(op'[Owner], f) = {}
      BY <1>8, <1>9, <2>3
    <3> HIDE DEF g, w
    <3> QED BY <1>4, <1>9, <2>1, <2>3, <3>1 DEF Agrees
  <2> QED BY <2>2, <2>3
<1> HIDE DEF g, w
<1>11. OwnerFactNext
  <2>1. \A f \in Groups \ DOMAIN groups'[Owner] : roster'[f] = {} /\ order'[f] = <<>>
    BY <1>1, <1>4, <1>6, <1>9 DEF OwnerFact
  <2> QED BY <1>4, <1>9, <1>10, <2>1 DEF OwnerFact, OwnerFactNext
<1>12. op[Owner].pc # "pending" /\ Persist.pc # "pending" /\ OpFact(Owner, Persist)
  BY <1>4 DEF OpFact
<1>13. \A v \in Wallets : OpFact(v, op'[v])
  BY <1>4, <1>12, OpFactNext
<1> HIDE DEF R
<1>14. \A v \in Wallets : Waiting(v)' = IF v \in R THEN Append(Waiting(v), e) ELSE Waiting(v)
  BY <1>3, <1>4, <1>12, SubmittedLines
<1>15. \A v \in R : Sound(v, e, order)
  BY <1>5, <1>7 DEF Sound, R
<1>16. \A v \in Wallets : (Fewer(v) /\ SameIds(v)) \/ More(v)
  <2>1. e.kind # "Commit"
    BY <1>5
  <2> QED BY <1>3, <1>14, <1>15, <2>1, SentLines
<1>17. \A v \in Wallets : SameHist(v)
  BY <1>4 DEF SameHist
<1>18. Settled'
  BY <1>4, <1>11, <1>13, <1>16, SettledStep
<1> QED BY <1>4, <1>16, <1>17, <1>18, KeepsAll

LEMMA KeepsBySend ==
    ASSUME DaemonType, DaemonType', Settled, NEW w \in Wallets, NEW g \in Groups, Send(w, g)
    PROVE  Settled' /\ Keeps
<1> USE DaemonAssumption
<1> DEFINE h == groups[w][g]
           new == [h EXCEPT !.gen = @ + 1]
           R == Recipients(h, w)
           ok == Admissible(g, w, R)
           id == Len(sent')
           e == Envelope("Application", g, w, h.hist, {}, id, h.gen)
           o == IF ok THEN Persist ELSE Idle
<1>1. groups[w] \in Registries /\ h \in GroupState /\ g \in DOMAIN groups[w]
  BY RegistryRows, SameTables DEF Send
<1>2. /\ op[w] = Idle /\ op' = [op EXCEPT ![w] = o] /\ groups' = [groups EXCEPT ![w] = Put(groups[w], g, new)]
      /\ mail' = IF ok THEN Deliver(R, e) ELSE mail
      /\ inbox' = inbox /\ disk' = disk /\ UNCHANGED <<roster, order>> /\ commits' = commits
  BY DEF Send, SetGroup, Set, AfterSend
<1>3. o \in {Idle, Persist} /\ o.pc \in {"idle", "persist"} /\ Idle.pc = "idle" /\ Persist.pc = "persist"
  BY DEF Idle, Persist
<1>4. e \in Mailable
  <2>1. id \in Nat
    <3>1. sent' \in Seq(Message)
      BY DEF DaemonType
    <3> QED BY <3>1
  <2>2. h.hist \in Histories /\ h.gen \in Nat
    BY <1>1 DEF GroupState
  <2> HIDE DEF id, h
  <2> QED BY <2>1, <2>2, EnvelopeMailable
<1>5. e.kind = "Application"
  BY DEF Envelope
<1>6. new \in GroupState /\ new.hist = h.hist /\ new.tree = h.tree /\ new.members = h.members
  BY <1>1 DEF GroupState
<1> HIDE DEF e, o, new, ok, R
<1>7. /\ DOMAIN groups'[w] = DOMAIN groups[w] \cup {g}
      /\ groups'[w][g] = new
      /\ \A f \in DOMAIN groups[w] \ {g} : groups'[w][f] = groups[w][f]
      /\ \A v \in Wallets \ {w} : groups'[v] = groups[v]
  BY <1>2, <1>6, RowPut
<1>8. SameHandles(groups'[w], groups[w])
  BY <1>1, <1>6, <1>7 DEF SameHandles
<1>9. \A v \in Wallets : SameHist(v)
  BY <1>7, <1>8 DEF SameHandles, SameHist
<1>10. op'[w] = o /\ \A v \in Wallets \ {w} : op'[v] = op[v]
  BY <1>2 DEF DaemonType
<1>11. OwnerFactNext
  <2>1. CASE w = Owner
    BY <1>2, <1>3, <1>8, <1>10, <2>1, OwnerRenews
  <2>2. CASE w # Owner
    <3>1. groups'[Owner] = groups[Owner] /\ op'[Owner] = op[Owner] /\ disk'[Owner] = disk[Owner]
      BY <1>2, <1>7, <1>10, <2>2
    <3> QED BY <1>2, <3>1, OwnerStays
  <2> QED BY <2>1, <2>2
<1>12. op[w].pc # "pending" /\ o.pc # "pending" /\ OpFact(w, o)
  BY <1>2, <1>3 DEF OpFact
<1>13. \A v \in Wallets : OpFact(v, op'[v])
  BY <1>2, <1>12, OpFactNext
<1>14. \A v \in Wallets : (Fewer(v) /\ SameIds(v)) \/ More(v)
  <2>1. CASE ok
    <3>1. mail' = Deliver(R, e)
      BY <1>2, <2>1
    <3>2. \A v \in Wallets : Waiting(v)' = IF v \in R THEN Append(Waiting(v), e) ELSE Waiting(v)
      BY <1>2, <1>4, <1>12, <3>1, SubmittedLines
    <3>3. e.kind # "Commit" /\ \A v \in R : Sound(v, e, order)
      BY <1>5 DEF Sound
    <3> QED BY <1>4, <3>2, <3>3, SentLines
  <2>2. CASE ~ok
    <3>1. mail' = mail
      BY <1>2, <2>2
    <3>2. \A v \in Wallets : Waiting(v)' = Waiting(v)
      BY <1>2, <1>12, <3>1, QuietLines
    <3> QED BY <3>2, StillLines
  <2> QED BY <2>1, <2>2
<1>15. Settled'
  BY <1>2, <1>11, <1>13, <1>14, SettledStep
<1> QED BY <1>2, <1>9, <1>14, <1>15, KeepsAll

-----------------------------------------------------------------------------
(* Steps of one member that fetch, keep or join.                           *)

LEMMA ThinStep ==
    ASSUME DaemonType, DaemonType', Settled, UNCHANGED <<order, commits>>, NEW w \in Wallets,
           Fewer(w), SameIds(w), \A v \in Wallets \ {w} : Waiting(v)' = Waiting(v),
           \A v \in Wallets : OpFact(v, op'[v]) /\ SameHist(v), OwnerFactNext
    PROVE  Settled' /\ Keeps
<1>1. \A v \in Wallets : Fewer(v) /\ SameIds(v)
  BY StillLines
<1> QED BY <1>1, SettledStep, KeepsAll

(* The beginning of a line loses items, but no Commit of g.                *)
LEMMA ThinLine ==
    ASSUME NEW T, NEW s \in Seq(T), NEW t \in Seq(T), NEW m \in Seq(T), Within(t, s)
    PROVE  /\ Within(t \o m, s \o m)
           /\ \A g : Ids(t, g) = Ids(s, g) => Ids(t \o m, g) = Ids(s \o m, g)
<1>1. Within(t \o m, s \o m)
  <2>1. Within(m, m)
    BY WithinSame
  <2> QED BY <2>1, WithinJoined
<1>2. \A g : Ids(t \o m, g) = Ids(t, g) \cup Ids(m, g) /\ Ids(s \o m, g) = Ids(s, g) \cup Ids(m, g)
  BY IdsJoined
<1> QED BY <1>1, <1>2

(* What is stashed of the beginning of the line of w, and what it loses.   *)
LEMMA StashedLine ==
    ASSUME NEW w \in Wallets, NEW s \in Seq(Mailable), NEW t \in Seq(Mailable), NEW m \in Seq(Mailable),
           Waiting(w) = s \o m, Within(t, s), \A g \in DOMAIN groups[w] : Ids(t, g) = Ids(s, g),
           inbox'[w] = Stash(groups[w], t), Waiting(w)' = Stash(groups[w], t) \o m
    PROVE  Fewer(w) /\ SameIds(w)
<1> DEFINE box == Stash(groups[w], t)
<1>1. box \in Seq(Mailable) /\ Within(box, t)
  BY WithinStash
<1>2. \A g \in DOMAIN groups[w] : Len(box) < INBOX_CAP => Ids(box, g) = Ids(t, g)
  BY IdsStashed
<1>3. inbox'[w] = box /\ Waiting(w)' = box \o m
  OBVIOUS
<1> HIDE DEF box
<1>4. Within(box, s)
  BY <1>1, WithinSome
<1>5. Within(box \o m, s \o m)
  BY <1>1, <1>4, ThinLine
<1>6. ASSUME Len(box) < INBOX_CAP, NEW g \in DOMAIN groups[w]
      PROVE  Ids(box \o m, g) = Ids(s \o m, g)
  <2>1. Ids(box, g) = Ids(s, g)
    BY <1>2, <1>6
  <2> QED BY <1>1, <1>4, <2>1, ThinLine
<1>7. Fewer(w)
  BY <1>3, <1>5 DEF Fewer
<1>8. SameIds(w)
  BY <1>3, <1>6 DEF SameIds
<1> QED BY <1>7, <1>8

LEMMA JoinedFront ==
    ASSUME NEW T, NEW s \in Seq(T), NEW t \in Seq(T), NEW i \in DOMAIN s
    PROVE  i \in DOMAIN (s \o t) /\ (s \o t)[i] = s[i]
<1> DEFINE x == s \o t
<1>1. /\ Len(s) \in Nat /\ Len(t) \in Nat /\ DOMAIN s = 1..Len(s) /\ DOMAIN x = 1..Len(s) + Len(t)
      /\ \A n \in 1..Len(s) : x[n] = s[n]
  BY Joined
<1> HIDE DEF x
<1>2. i \in DOMAIN x /\ x[i] = s[i]
  BY <1>1
<1> QED BY <1>2 DEF x

(* The owner is sent no Welcome.                                           *)
LEMMA OwnerUnwelcome ==
    ASSUME DaemonType, Settled, NEW w \in Wallets, NEW i \in DOMAIN Waiting(w), Waiting(w)[i].kind = "Welcome"
    PROVE  w # Owner
<1>1. Sound(w, Waiting(w)[i], order)
  BY DEF Settled, AllSound
<1> QED BY <1>1 DEF Sound

LEMMA KeepsByJoinGroup ==
    ASSUME DaemonType, DaemonType', Settled, NEW w \in Wallets, NEW g \in Groups, NEW k \in 0..Len(mail[w]),
           JoinGroup(w, g, k)
    PROVE  Settled' /\ Keeps
<1> DEFINE all == TakeInbox(w, k)
           m == SubSeq(mail[w], k + 1, Len(mail[w]))
           pos == {i \in DOMAIN all : IsWelcomeFor(g, all[i])}
<1>1. all \in Seq(Mailable) /\ m \in Seq(Mailable) /\ all \o m = inbox[w] \o mail[w]
  BY Fetched
<1>2. op[w] = Idle /\ Idle.pc = "idle" /\ mail' = [mail EXCEPT ![w] = m]
      /\ UNCHANGED <<groups, disk, roster, order, commits>>
  BY DEF JoinGroup, Set, Idle
<1>3. Waiting(w) = all \o m
  BY <1>1, <1>2 DEF Waiting, InHand
<1>4. \E t, o : /\ t \in Seq(Mailable) /\ Within(t, all) /\ \A f : Ids(t, f) = Ids(all, f)
                /\ o = Idle \/ (o.pc = "welcome" /\ w # Owner)
                /\ op' = [op EXCEPT ![w] = o] /\ inbox' = [inbox EXCEPT ![w] = Stash(groups[w], t)]
  <2>1. CASE pos = {}
    <3>1. inbox' = [inbox EXCEPT ![w] = Stash(groups[w], all)] /\ op' = [op EXCEPT ![w] = Idle]
      BY <1>2, <2>1, SameTables DEF JoinGroup, Set
    <3>2. Within(all, all)
      BY WithinSame
    <3> HIDE DEF all
    <3> QED BY <1>1, <3>1, <3>2
  <2>2. CASE pos # {}
    <3> DEFINE i == CHOOSE i \in pos : \A j \in pos : i <= j
               t == RemoveAt(all, i)
               o == [pc |-> "welcome", env |-> all[i]]
    <3>1. i \in pos
      <4>1. pos \in SUBSET Nat
        BY <1>1
      <4> HIDE DEF pos
      <4> QED BY <2>2, <4>1, LeastElement
    <3>2. /\ inbox' = [inbox EXCEPT ![w] = Stash(groups[w], t)]
          /\ op' = [op EXCEPT ![w] = o] /\ o.pc = "welcome"
      BY <2>2 DEF JoinGroup, Set
    <3>3. i \in DOMAIN all /\ all[i].kind = "Welcome"
      BY <3>1 DEF IsWelcomeFor
    <3> HIDE DEF i, all, o, m
    <3>4. t \in Seq(Mailable) /\ Within(t, all)
      BY <1>1, <3>3, WithinRemoved
    <3>5. \A f : Ids(t, f) = Ids(all, f)
      BY <1>1, <3>3, IdsRemoved DEF IsCommit
    <3>6. w # Owner
      <4>1. i \in DOMAIN (all \o m) /\ (all \o m)[i] = all[i]
        BY <1>1, <3>3, JoinedFront
      <4>2. i \in DOMAIN Waiting(w) /\ Waiting(w)[i].kind = "Welcome"
        BY <1>3, <3>3, <4>1
      <4> QED BY <4>2, OwnerUnwelcome
    <3> HIDE DEF t
    <3> QED BY <3>2, <3>4, <3>5, <3>6
  <2> QED BY <2>1, <2>2
<1> HIDE DEF all, m, pos
<1>5. PICK t, o : /\ t \in Seq(Mailable) /\ Within(t, all) /\ \A f : Ids(t, f) = Ids(all, f)
                  /\ o = Idle \/ (o.pc = "welcome" /\ w # Owner)
                  /\ op' = [op EXCEPT ![w] = o] /\ inbox' = [inbox EXCEPT ![w] = Stash(groups[w], t)]
  BY <1>4
<1> DEFINE box == Stash(groups[w], t)
<1>6. Waiting(w)' = Line(o, box, m) /\ \A v \in Wallets \ {w} : Waiting(v)' = Waiting(v)
  BY <1>2, <1>5, ActorLine
<1>7. o.pc \in {"idle", "welcome"} /\ OpFact(w, o)
  BY <1>2, <1>5 DEF OpFact
<1>8. Waiting(w)' = box \o m /\ inbox'[w] = box
  BY <1>5, <1>6, <1>7 DEF Line, DaemonType
<1>9. Fewer(w) /\ SameIds(w)
  BY <1>1, <1>3, <1>5, <1>8, StashedLine
<1>10. \A v \in Wallets : OpFact(v, op'[v]) /\ SameHist(v)
  BY <1>2, <1>5, <1>7, OpFactNext DEF SameHist
<1>11. OwnerFactNext
  <2>1. CASE w = Owner
    <3>1. op'[Owner] = Idle /\ op[Owner] = Idle
      BY <1>2, <1>5, <2>1 DEF DaemonType
    <3> QED BY <1>2, <3>1, OwnerStays
  <2>2. CASE w # Owner
    <3>1. op'[Owner] = op[Owner]
      BY <1>5, <2>2, DaemonAssumption DEF DaemonType
    <3> QED BY <1>2, <3>1, OwnerStays
  <2> QED BY <2>1, <2>2
<1> QED BY <1>2, <1>6, <1>9, <1>10, <1>11, ThinStep

LEMMA KeepsByJoinPending ==
    ASSUME DaemonType, DaemonType', Settled, NEW w \in Wallets, NEW k \in 0..Len(mail[w]), JoinPending(w, k)
    PROVE  Settled' /\ Keeps
<1> DEFINE all == TakeInbox(w, k)
           m == SubSeq(mail[w], k + 1, Len(mail[w]))
           o == [pc |-> "pending", todo |-> all, rest |-> <<>>]
           box == <<>>
<1>1. all \in Seq(Mailable) /\ m \in Seq(Mailable) /\ all \o m = inbox[w] \o mail[w]
  BY Fetched
<1>2. op[w] = Idle /\ Idle.pc = "idle" /\ mail' = [mail EXCEPT ![w] = m]
      /\ op' = [op EXCEPT ![w] = o] /\ inbox' = [inbox EXCEPT ![w] = box]
      /\ UNCHANGED <<groups, disk, roster, order, commits>>
  BY DEF JoinPending, Set, Idle
<1>3. Waiting(w) = all \o m
  BY <1>1, <1>2 DEF Waiting, InHand
<1>4. o.pc = "pending" /\ o.rest \o o.todo = all
  <2>1. o.rest = <<>> /\ o.todo = all /\ o.pc = "pending"
    OBVIOUS
  <2> HIDE DEF all
  <2> QED BY <1>1, <2>1, ConcatEmptySeq
<1> HIDE DEF all, m, o, box
<1>5. Waiting(w)' = Line(o, box, m) /\ \A v \in Wallets \ {w} : Waiting(v)' = Waiting(v)
  BY <1>2, ActorLine
<1>6. \A v \in Wallets : Waiting(v)' = Waiting(v)
  BY <1>3, <1>4, <1>5 DEF Line
<1>7. OpFact(w, o)
  BY <1>4 DEF OpFact
<1>8. \A v \in Wallets : OpFact(v, op'[v]) /\ SameHist(v)
  BY <1>2, <1>7, OpFactNext DEF SameHist
<1>9. OwnerFactNext
  <2>1. CASE w = Owner
    <3>1. op'[Owner] = o /\ op[Owner] = Idle
      BY <1>2, <2>1 DEF DaemonType
    <3>2. SameHandles(groups'[Owner], groups[Owner])
      BY <1>2 DEF SameHandles
    <3> QED BY <1>2, <1>4, <3>1, <3>2, OwnerRenews
  <2>2. CASE w # Owner
    <3>1. op'[Owner] = op[Owner]
      BY <1>2, <2>2, DaemonAssumption DEF DaemonType
    <3> QED BY <1>2, <3>1, OwnerStays
  <2> QED BY <2>1, <2>2
<1> QED BY <1>2, <1>6, <1>8, <1>9, StillStep

(* An operation in progress that has nothing to say of the owner.          *)
LEMMA PendingOwner ==
    ASSUME DaemonType, Settled, op[Owner].pc = "pending", op'[Owner] = Idle \/ op'[Owner].pc = "pending",
           groups'[Owner] = groups[Owner], disk'[Owner] = disk[Owner], UNCHANGED <<roster, order>>
    PROVE  OwnerFactNext
<1>1. op[Owner].pc = "pending" /\ op'[Owner].pc \in {"idle", "pending"}
  BY DEF Idle
<1>2. \A f : Guest(op[Owner], f) = {} /\ Guest(op'[Owner], f) = {}
  BY <1>1 DEF Guest
<1>3. OwnerFact(groups[Owner], disk[Owner], op[Owner], roster, order)
  BY DEF Settled
<1> QED BY <1>1, <1>2, <1>3 DEF OwnerFact, OwnerFactNext

LEMMA KeepsByJoinPendingEnd ==
    ASSUME DaemonType, DaemonType', Settled, NEW w \in Wallets, JoinPendingEnd(w)
    PROVE  Settled' /\ Keeps
<1> DEFINE s == op[w].rest
           m == mail[w]
           box == Stash(groups[w], s)
           none == <<>>
<1>1. s \in Seq(Mailable) /\ m \in Seq(Mailable) /\ op[w].todo = none /\ op[w].pc = "pending"
  <2>1. op[w].rest \in Seq(Mailable)
    BY OperationParts, SameTables DEF JoinPendingEnd
  <2> QED BY <2>1 DEF DaemonType, JoinPendingEnd
<1>2. /\ op' = [op EXCEPT ![w] = Idle] /\ inbox' = [inbox EXCEPT ![w] = box]
      /\ mail' = [mail EXCEPT ![w] = m] /\ UNCHANGED <<groups, disk, roster, order, commits>> /\ Idle.pc = "idle"
  BY DEF JoinPendingEnd, Set, relayVars, DaemonType, Idle
<1>3. Waiting(w) = s \o m
  <2>1. s \o none = s
    BY <1>1, ConcatEmptySeq
  <2>2. Waiting(w) = (s \o none) \o m
    BY <1>1 DEF Waiting, InHand
  <2> QED BY <2>1, <2>2
<1>4. Waiting(w)' = Line(Idle, box, m) /\ \A v \in Wallets \ {w} : Waiting(v)' = Waiting(v)
  <2> HIDE DEF box, m
  <2> QED BY <1>2, ActorLine
<1>5. Waiting(w)' = box \o m /\ inbox'[w] = box
  BY <1>2, <1>4 DEF Line, DaemonType
<1> HIDE DEF s, m
<1>6. Within(s, s)
  BY WithinSame
<1>7. Fewer(w) /\ SameIds(w)
  BY <1>1, <1>3, <1>5, <1>6, StashedLine
<1>8. OpFact(w, Idle)
  BY <1>2 DEF OpFact
<1>9. \A v \in Wallets : OpFact(v, op'[v]) /\ SameHist(v)
  BY <1>2, <1>8, OpFactNext DEF SameHist
<1>10. OwnerFactNext
  <2>1. CASE w = Owner
    <3>1. op'[Owner] = Idle
      BY <1>2, <2>1 DEF DaemonType
    <3> QED BY <1>1, <1>2, <2>1, <3>1, PendingOwner
  <2>2. CASE w # Owner
    <3>1. op'[Owner] = op[Owner]
      BY <1>2, <2>2, DaemonAssumption DEF DaemonType
    <3> QED BY <1>2, <3>1, OwnerStays
  <2> QED BY <2>1, <2>2
<1> QED BY <1>2, <1>4, <1>7, <1>9, <1>10, ThinStep

LEMMA KeepsByJoinPendingNext ==
    ASSUME DaemonType, DaemonType', Settled, NEW w \in Wallets, JoinPendingNext(w)
    PROVE  Settled' /\ Keeps
<1> DEFINE e == Head(op[w].todo)
           t == Tail(op[w].todo)
           s == op[w].rest
           y == op[w].todo
           m == mail[w]
           box == inbox[w]
           one == <<e>>
           a == s \o y
<1>1. /\ y \in Seq(Mailable) /\ y # <<>> /\ e \in Mailable /\ t \in Seq(Mailable) /\ s \in Seq(Mailable)
      /\ m \in Seq(Mailable)
  BY PendingStep DEF DaemonType
<1>2. /\ op[w].pc = "pending" /\ inbox' = [inbox EXCEPT ![w] = box] /\ mail' = [mail EXCEPT ![w] = m]
      /\ UNCHANGED <<roster, order, commits>>
  BY DEF JoinPendingNext, relayVars, DaemonType
<1>3. Waiting(w) = a \o m
  BY <1>2 DEF Waiting, InHand
<1>4. y = one \o t /\ one \in Seq(Mailable) /\ Within(t, y)
  <2> DEFINE z == op[w].todo
  <2>1. z \in Seq(Mailable) /\ z # <<>>
    BY <1>1
  <2> HIDE DEF z
  <2>2. z = <<Head(z)>> \o Tail(z) /\ <<Head(z)>> \in Seq(Mailable) /\ Within(Tail(z), z)
    BY <2>1, HeadThenTail
  <2> QED BY <2>2 DEF z
<1>5. \/ /\ e.kind = "Welcome" /\ e.group \notin DOMAIN groups[w] /\ JoinWithWelcome(w, e)
         /\ op' = [op EXCEPT ![w] = [op[w] EXCEPT !.todo = t]]
      \/ /\ UNCHANGED <<groups, disk>>
         /\ op' = [op EXCEPT ![w] = [op[w] EXCEPT !.todo = t, !.rest = Append(s, e)]]
  BY DEF JoinPendingNext, Set
<1>6. op[w] = [pc |-> "pending", todo |-> y, rest |-> s]
  <2>1. op[w] \in Operations
    BY SameTables
  <2> QED BY <1>2, <2>1, OperationParts
<1> HIDE DEF e, t, s, y, m, box, one
<1>7. a \in Seq(Mailable)
  BY <1>1, Joined
<1>8. CASE /\ e.kind = "Welcome" /\ e.group \notin DOMAIN groups[w] /\ JoinWithWelcome(w, e)
           /\ op' = [op EXCEPT ![w] = [op[w] EXCEPT !.todo = t]]
  <2> DEFINE o == [pc |-> "pending", todo |-> t, rest |-> s]
             b == s \o t
             g == e.group
  <2>1. op' = [op EXCEPT ![w] = o]
    <3>1. [op[w] EXCEPT !.todo = t] = o
      BY <1>6
    <3> HIDE DEF o
    <3> QED BY <1>8, <3>1
  <2>2. o.pc = "pending" /\ o.todo = t /\ o.rest = s
    OBVIOUS
  <2> HIDE DEF o
  <2>3. Waiting(w)' = Line(o, box, m) /\ \A v \in Wallets \ {w} : Waiting(v)' = Waiting(v)
    BY <1>2, <2>1, ActorLine
  <2>4. Waiting(w)' = b \o m
    BY <2>2, <2>3 DEF Line
  <2>5. b \in Seq(Mailable) /\ Within(b, a)
    <3>1. b \in Seq(Mailable)
      BY <1>1, Joined
    <3>2. Within(s, s)
      BY WithinSame
    <3> QED BY <1>1, <1>4, <3>1, <3>2, WithinJoined
  <2>6. \A f : Ids(b, f) = Ids(a, f)
    <3> SUFFICES ASSUME NEW f PROVE Ids(b, f) = Ids(a, f)
      OBVIOUS
    <3>1. Ids(b, f) = Ids(s, f) \cup Ids(t, f) /\ Ids(a, f) = Ids(s, f) \cup Ids(y, f)
      BY <1>1, IdsJoined
    <3>2. Ids(y, f) = Ids(one, f) \cup Ids(t, f)
      BY <1>1, <1>4, IdsJoined
    <3>3. Ids(one, f) = {}
      <4>1. ~IsCommit(e, f)
        BY <1>8 DEF IsCommit
      <4> QED BY <4>1, IdsOne DEF one
    <3> QED BY <3>1, <3>2, <3>3
  <2> HIDE DEF a, b
  <2>7. Fewer(w) /\ SameIds(w)
    <3>1. Within(b \o m, a \o m) /\ \A f : Ids(b, f) = Ids(a, f) => Ids(b \o m, f) = Ids(a \o m, f)
      BY <1>1, <1>7, <2>5, ThinLine
    <3>2. \A f : Ids(b \o m, f) = Ids(a \o m, f)
      BY <2>6, <3>1
    <3>3. Fewer(w)
      BY <1>3, <2>4, <3>1 DEF Fewer
    <3>4. SameIds(w)
      BY <1>3, <2>4, <3>2 DEF SameIds
    <3> QED BY <3>3, <3>4
  <2>8. w # Owner
    <3>1. 1 \in DOMAIN one /\ one[1] = e
      BY DEF one
    <3>2. e \in Mailable /\ \E i \in DOMAIN (a \o m) : (a \o m)[i] = e
      <4>1. 1 \in DOMAIN y /\ y[1] = e
        BY <1>1, <1>4, <3>1, JoinedFront
      <4> DEFINE n == Len(s) + 1
      <4>2. /\ Len(s) \in Nat /\ Len(y) \in Nat /\ DOMAIN s = 1..Len(s) /\ DOMAIN y = 1..Len(y)
            /\ DOMAIN a = 1..Len(s) + Len(y)
            /\ \A i \in 1..Len(s) : a[i] = s[i]
            /\ \A i \in Len(s) + 1..Len(s) + Len(y) : a[i] = y[i - Len(s)]
        BY <1>1, Joined DEF a
      <4>3. n \in DOMAIN a /\ n \in Len(s) + 1..Len(s) + Len(y) /\ n - Len(s) = 1
        BY <4>1, <4>2
      <4> HIDE DEF n
      <4>4. a[n] = e
        BY <4>1, <4>2, <4>3
      <4>5. n \in DOMAIN (a \o m) /\ (a \o m)[n] = a[n]
        BY <1>1, <1>7, <4>3, JoinedFront
      <4> QED BY <1>1, <4>4, <4>5
    <3>3. PICK i \in DOMAIN Waiting(w) : Waiting(w)[i] = e
      BY <1>3, <3>2
    <3>4. Waiting(w)[i].kind = "Welcome"
      BY <1>8, <3>3
    <3> QED BY <3>4, OwnerUnwelcome
  <2>9. PICK r \in Registries : /\ groups' = [groups EXCEPT ![w] = r] /\ disk' = [disk EXCEPT ![w] = r]
                                /\ \A f \in DOMAIN groups[w] \ {g} : r[f] = groups[w][f]
    <3>1. PICK x : x = e
      OBVIOUS
    <3>2. x \in Mailable /\ JoinWithWelcome(w, x)
      BY <1>1, <1>8, <3>1
    <3>3. \E r \in Registries : /\ groups' = [groups EXCEPT ![w] = r] /\ disk' = [disk EXCEPT ![w] = r]
                                /\ r = Put(groups[w], x.group, Handle(x.hist, x.tree, roster[x.group]))
                                /\ DOMAIN r = DOMAIN groups[w] \union {x.group}
                                /\ \A f \in DOMAIN groups[w] \ {x.group} : r[f] = groups[w][f]
      BY <3>2, Welcomed
    <3> QED BY <3>1, <3>3
  <2>10. g \notin DOMAIN groups[w]
    BY <1>8
  <2> HIDE DEF g
  <2>11. groups'[w] = r /\ \A v \in Wallets \ {w} : groups'[v] = groups[v] /\ disk'[v] = disk[v] /\ op'[v] = op[v]
    BY <2>1, <2>9 DEF DaemonType
  <2>12. \A v \in Wallets : SameHist(v)
    BY <2>9, <2>10, <2>11 DEF SameHist
  <2>13. OpFact(w, o)
    BY <2>2 DEF OpFact
  <2>14. \A v \in Wallets : OpFact(v, op'[v])
    BY <2>1, <2>13, OpFactNext
  <2>15. OwnerFactNext
    <3>1. groups'[Owner] = groups[Owner] /\ disk'[Owner] = disk[Owner] /\ op'[Owner] = op[Owner]
      BY <2>8, <2>11, DaemonAssumption
    <3> QED BY <1>2, <3>1, OwnerStays
  <2> QED BY <1>2, <2>3, <2>7, <2>12, <2>14, <2>15, ThinStep
<1>9. CASE /\ UNCHANGED <<groups, disk>>
           /\ op' = [op EXCEPT ![w] = [op[w] EXCEPT !.todo = t, !.rest = Append(s, e)]]
  <2> DEFINE r == Append(s, e)
             o == [pc |-> "pending", todo |-> t, rest |-> r]
  <2>1. op' = [op EXCEPT ![w] = o]
    <3> HIDE DEF r
    <3>1. op' = [op EXCEPT ![w] = [op[w] EXCEPT !.todo = t, !.rest = r]]
      BY <1>9 DEF r
    <3>2. [op[w] EXCEPT !.todo = t, !.rest = r] = o
      <4>1. PICK q : q = op[w]
        OBVIOUS
      <4>2. q = [pc |-> "pending", todo |-> y, rest |-> s]
        BY <1>6, <4>1
      <4>3. [q EXCEPT !.todo = t] = [pc |-> "pending", todo |-> t, rest |-> s]
        BY <4>2
      <4>4. [[q EXCEPT !.todo = t] EXCEPT !.rest = r] = [pc |-> "pending", todo |-> t, rest |-> r]
        <5>1. PICK p : p = [q EXCEPT !.todo = t]
          OBVIOUS
        <5>2. p = [pc |-> "pending", todo |-> t, rest |-> s]
          BY <4>3, <5>1
        <5>3. [p EXCEPT !.rest = r] = [pc |-> "pending", todo |-> t, rest |-> r]
          BY <5>2
        <5> QED BY <5>1, <5>3
      <4> QED BY <4>1, <4>4
    <3> HIDE DEF o
    <3> QED BY <3>1, <3>2
  <2>2. o.pc = "pending" /\ o.todo = t /\ o.rest = r
    OBVIOUS
  <2>3. r = s \o one
    BY <1>1, AppendIsConcat DEF one
  <2> HIDE DEF o, r
  <2>4. r \o t = a
    <3>1. (s \o one) \o t = s \o (one \o t)
      BY <1>1, <1>4, ConcatAssociative
    <3> QED BY <1>4, <2>3, <3>1
  <2>5. Waiting(w)' = Line(o, box, m) /\ \A v \in Wallets \ {w} : Waiting(v)' = Waiting(v)
    BY <1>2, <2>1, ActorLine
  <2>6. \A v \in Wallets : Waiting(v)' = Waiting(v)
    BY <1>3, <2>2, <2>4, <2>5 DEF Line
  <2>7. OpFact(w, o)
    BY <2>2 DEF OpFact
  <2>8. \A v \in Wallets : OpFact(v, op'[v]) /\ SameHist(v)
    BY <1>9, <2>1, <2>7, OpFactNext DEF SameHist
  <2>9. OwnerFactNext
    <3>1. CASE w = Owner
      <4>1. op'[Owner] = o
        BY <2>1, <3>1 DEF DaemonType
      <4> QED BY <1>2, <1>9, <2>2, <3>1, <4>1, PendingOwner
    <3>2. CASE w # Owner
      <4>1. op'[Owner] = op[Owner]
        BY <2>1, <3>2, DaemonAssumption DEF DaemonType
      <4> QED BY <1>2, <1>9, <4>1, OwnerStays
    <3> QED BY <3>1, <3>2
  <2> QED BY <1>2, <1>9, <2>6, <2>8, <2>9, StillStep
<1> QED BY <1>5, <1>8, <1>9

LEMMA KeepsByPoll ==
    ASSUME DaemonType, DaemonType', Settled, NEW w \in Wallets, NEW g \in Groups, NEW k \in 0..Len(mail[w]),
           Poll(w, g, k)
    PROVE  Settled' /\ Keeps
<1> USE DaemonAssumption
<1> DEFINE all == TakeInbox(w, k)
           h == groups[w][g]
           res == PollLoop(g, h, all)[Len(all)]
           o == IF res.changed THEN Persist ELSE Idle
           m == SubSeq(mail[w], k + 1, Len(mail[w]))
           keep == res.keep
           new == res.h
           box == Stash(groups[w], keep)
           ord == order[g]
<1>1. groups[w] \in Registries /\ h \in GroupState /\ g \in DOMAIN groups[w]
  BY RegistryRows, SameTables DEF Poll
<1>2. all \in Seq(Mailable) /\ m \in Seq(Mailable) /\ all \o m = inbox[w] \o mail[w]
  BY Fetched
<1>3. LoopFact(res, g, h, all, Len(all))
  <2> HIDE DEF all, h
  <2> QED BY <1>1, <1>2, PollResult
<1>4. ord \in Histories /\ Sorted(ord, commits)
  BY DEF DaemonType, Settled
<1>5. CourseFact(res, g, h, all, m, ord, Len(all))
  <2> HIDE DEF all, h, m, ord
  <2>1. PICK c : c = commits
    OBVIOUS
  <2>2. Sorted(ord, c)
    BY <1>4, <2>1
  <2> QED BY <1>1, <1>2, <1>4, <2>2, CourseResult
<1>6. /\ inbox' = [inbox EXCEPT ![w] = box] /\ groups' = [groups EXCEPT ![w] = Put(groups[w], g, new)]
      /\ op' = [op EXCEPT ![w] = o] /\ mail' = [mail EXCEPT ![w] = m] /\ op[w] = Idle
      /\ UNCHANGED <<disk, roster, order, commits>>
  BY DEF Poll, SetGroup, Set
<1>7. Waiting(w) = all \o m
  <2>1. op[w].pc # "pending"
    BY <1>6 DEF Idle
  <2>2. Waiting(w) = inbox[w] \o mail[w]
    BY <2>1 DEF Waiting, InHand
  <2> HIDE DEF all, m
  <2> QED BY <1>2, <2>2
<1> HIDE DEF res
<1>8. keep \in Seq(Mailable) /\ From(keep, all, Len(all)) /\ new \in GroupState
  BY <1>3 DEF LoopFact, Accumulator
<1>9. o \in {Idle, Persist} /\ o.pc \in {"idle", "persist"}
  BY DEF Idle, Persist
<1>10. /\ \A f \in Groups \ {g} : Ids(keep, f) = IdsIn(all, 1..Len(all), f)
       /\ (\A n \in 1..Len(all) : ~IsCommit(all[n], g)) =>
             new.hist = h.hist /\ new.tree = h.tree /\ new.members = h.members
       /\ Course(h, all, m, ord, g) =>
             /\ Begins(new.hist, ord)
             /\ Ids(keep, g) \cup IdsIn(all, Len(all) + 1..Len(all), g) \cup Ids(m, g) = Due(new.hist, ord)
  BY <1>5 DEF CourseFact
<1> HIDE DEF o, keep, new
<1>11. Within(keep, all)
  <2>1. DOMAIN all = 1..Len(all)
    <3> HIDE DEF all
    <3> QED BY <1>2
  <2> HIDE DEF all
  <2> QED BY <1>8, <2>1 DEF From, Within
<1>12. box \in Seq(Mailable) /\ Within(box, keep)
  BY <1>8, WithinStash
<1>13. \A f \in DOMAIN groups[w] : Len(box) < INBOX_CAP => Ids(box, f) = Ids(keep, f)
  BY <1>8, IdsStashed
<1> HIDE DEF box, all, m
<1>14. Within(box, all)
  BY <1>11, <1>12, WithinSome
<1>15. Within(box \o m, all \o m)
  BY <1>2, <1>12, <1>14, ThinLine
<1>16. Waiting(w)' = Line(o, box, m) /\ \A v \in Wallets \ {w} : Waiting(v)' = Waiting(v)
  BY <1>6, ActorLine
<1>17. Waiting(w)' = box \o m /\ inbox'[w] = box
  BY <1>6, <1>9, <1>16 DEF Line, DaemonType
<1>18. /\ DOMAIN groups'[w] = DOMAIN groups[w] \cup {g}
       /\ groups'[w][g] = new
       /\ \A f \in DOMAIN groups[w] \ {g} : groups'[w][f] = groups[w][f]
       /\ \A v \in Wallets \ {w} : groups'[v] = groups[v]
  BY <1>6, <1>8, RowPut
<1>19. op'[w] = o /\ \A v \in Wallets \ {w} : op'[v] = op[v]
  BY <1>6 DEF DaemonType
<1>20. AllSound(w, all \o m, order)
  BY <1>7 DEF Settled
<1>21. ASSUME NEW n \in DOMAIN all PROVE Sound(w, all[n], order)
  <2>1. n \in DOMAIN (all \o m) /\ (all \o m)[n] = all[n]
    BY <1>2, JoinedFront
  <2> QED BY <1>20, <2>1 DEF AllSound
<1>22. DOMAIN all = 1..Len(all) /\ Len(all) \in Nat
  BY <1>2
<1> HIDE DEF h
<1>23. OwnerFactNext
  <2>1. CASE w = Owner
    <3>1. \A n \in 1..Len(all) : ~IsCommit(all[n], g)
      BY <1>21, <1>22, <2>1 DEF Sound, IsCommit
    <3>2. new.hist = h.hist /\ new.tree = h.tree /\ new.members = h.members
      BY <1>10, <3>1
    <3>3. SameHandles(groups'[Owner], groups[Owner])
      BY <1>1, <1>18, <2>1, <3>2 DEF SameHandles, h
    <3>4. op[Owner] = Idle /\ disk'[Owner] = disk[Owner] /\ op'[Owner] \in {Idle, Persist}
      BY <1>6, <1>9, <1>19, <2>1
    <3> QED BY <1>6, <3>3, <3>4, OwnerRenews
  <2>2. CASE w # Owner
    <3>1. groups'[Owner] = groups[Owner] /\ op'[Owner] = op[Owner] /\ disk'[Owner] = disk[Owner]
      BY <1>6, <1>18, <1>19, <2>2
    <3> QED BY <1>6, <3>1, OwnerStays
  <2> QED BY <2>1, <2>2
<1>24. OpFact(w, o)
  BY <1>9 DEF OpFact
<1>25. \A v \in Wallets : OpFact(v, op'[v])
  BY <1>6, <1>24, OpFactNext
<1>26. \A v \in Wallets \ {w} : Fewer(v) /\ SameIds(v)
  BY <1>16, StillLines
<1>27. Fewer(w)
  BY <1>7, <1>15, <1>17 DEF Fewer
<1>28. Settled'
  BY <1>6, <1>23, <1>25, <1>26, <1>27, SettledStep
<1>29. ASSUME NEW v \in Wallets, NEW f \in Groups, Member(v, f), InStep(v, f), Member(v, f)',
              Len(inbox'[v]) < INBOX_CAP
       PROVE  InStep(v, f)'
  <2>1. f \in DOMAIN groups[v] /\ f \in DOMAIN groups'[v]
    BY <1>29 DEF Member
  <2>2. CASE v # w
    <3>1. groups'[v][f].hist = groups[v][f].hist
      BY <1>18, <2>2
    <3> QED BY <1>6, <1>26, <1>29, <2>1, <2>2, <3>1, KeepsStep
  <2>3. CASE v = w
    <3>1. Len(box) < INBOX_CAP /\ f \in DOMAIN groups[w]
      BY <1>17, <1>29, <2>1, <2>3
    <3>2. Ids(box, f) = Ids(keep, f)
      BY <1>13, <3>1
    <3>3. OnCourse(groups[w][f].hist, all \o m, order[f], f)
      BY <1>7, <1>29, <2>1, <2>3, InStepIsOnCourse
    <3>4. Ids(box \o m, f) = Ids(box, f) \cup Ids(m, f)
      BY <1>2, <1>12, IdsJoined
    <3>5. RiseIn(box \o m, f)
      BY <1>15, <3>3, RiseLess DEF OnCourse
    <3>6. OnCourse(groups'[w][f].hist, box \o m, order[f], f)
      <4>1. CASE f # g
        <5>1. groups'[w][f].hist = groups[w][f].hist
          BY <1>18, <3>1, <4>1
        <5>2. Ids(keep, f) = Ids(all, f)
          BY <1>10, <1>22, <4>1 DEF Ids
        <5>3. Ids(all \o m, f) = Ids(all, f) \cup Ids(m, f)
          <6>1. PICK x, z : x = all /\ z = m
            OBVIOUS
          <6>2. x \in Seq(Mailable) /\ z \in Seq(Mailable)
            BY <1>2, <6>1
          <6>3. Ids(x \o z, f) = Ids(x, f) \cup Ids(z, f)
            BY <6>2, IdsJoined
          <6> QED BY <6>1, <6>3
        <5> QED BY <3>2, <3>3, <3>4, <3>5, <5>1, <5>2, <5>3 DEF OnCourse
      <4>2. CASE f = g
        <5>1. \A n \in DOMAIN all : IsCommit(all[n], g) => Placed(all[n], ord)
          BY <1>21 DEF Sound, IsCommit
        <5>2. Course(h, all, m, ord, g)
          BY <3>3, <4>2, <5>1 DEF Course, h
        <5>3. IdsIn(all, Len(all) + 1..Len(all), g) = {}
          <6>1. Len(all) + 1..Len(all) = {}
            BY <1>22
          <6> QED BY <6>1 DEF IdsIn
        <5>4. Begins(new.hist, ord) /\ Ids(keep, g) \cup Ids(m, g) = Due(new.hist, ord)
          BY <1>10, <5>2, <5>3
        <5> QED BY <1>18, <3>2, <3>4, <3>5, <4>2, <5>4 DEF OnCourse
      <4> QED BY <4>1, <4>2
    <3>7. OnCourse(groups'[v][f].hist, Waiting(v)', order'[f], f)
      BY <1>6, <1>17, <2>3, <3>6
    <3> QED BY <2>1, <3>7, InStepIsOnCourseNext
  <2> QED BY <2>2, <2>3
<1> QED BY <1>28, <1>29 DEF Keeps

LEMMA SettledByRestart ==
    ASSUME DaemonType, DaemonType', Settled, NEW w \in Wallets, NEW k \in 0..Len(mail[w]), Restart(w, k), ~torn'
    PROVE  Settled' /\ Keeps
<1> USE DaemonAssumption
<1> DEFINE s == mail[w]
           m == SubSeq(s, k + 1, Len(s))
           box == <<>>
<1>1. /\ op' = [op EXCEPT ![w] = Idle] /\ inbox' = [inbox EXCEPT ![w] = box] /\ mail' = [mail EXCEPT ![w] = m]
      /\ groups' = [groups EXCEPT ![w] = disk[w]] /\ UNCHANGED <<disk, roster, order, commits>>
      /\ crashes' = crashes + 1 /\ op[w] = Idle /\ Idle.pc = "idle"
  BY DEF Restart, Set, Idle
<1>2. Keeps
  BY <1>1 DEF Keeps, DaemonType
<1>3. inbox[w] \in Seq(Mailable) /\ s \in Seq(Mailable) /\ k + 1 \in 1..Len(s) + 1 /\ Len(s) \in 0..Len(s)
  BY DEF DaemonType
<1>4. m \in Seq(Mailable) /\ Within(m, s)
  <2> HIDE DEF s
  <2> QED BY <1>3, WithinStretch
<1>5. Waiting(w) = inbox[w] \o s
  BY <1>1 DEF Waiting, InHand
<1> HIDE DEF s, m
<1>6. Within(box, inbox[w]) /\ box \in Seq(Mailable)
  <2>1. DOMAIN box = {} /\ box \in Seq(Mailable)
    BY EmptySeq
  <2> HIDE DEF box
  <2>2. [n \in {} |-> 0] \in [DOMAIN box -> DOMAIN inbox[w]]
    BY <2>1
  <2>3. PICK at \in [DOMAIN box -> DOMAIN inbox[w]] : TRUE
    BY <2>2
  <2> QED BY <2>1, <2>3 DEF Within
<1> HIDE DEF box
<1>7. Within(box \o m, inbox[w] \o s)
  BY <1>3, <1>4, <1>6, WithinJoined
<1>8. Waiting(w)' = Line(Idle, box, m) /\ \A v \in Wallets \ {w} : Waiting(v)' = Waiting(v)
  <2>1. PICK o : o = Idle
    OBVIOUS
  <2>2. op' = [op EXCEPT ![w] = o] /\ inbox' = [inbox EXCEPT ![w] = box] /\ mail' = [mail EXCEPT ![w] = m]
    BY <1>1, <2>1
  <2>3. Waiting(w)' = Line(o, box, m) /\ \A v \in Wallets \ {w} : Waiting(v)' = Waiting(v)
    BY <2>2, ActorLine
  <2> QED BY <2>1, <2>3
<1>9. \A v \in Wallets : Fewer(v)
  <2>1. Waiting(w)' = box \o m
    BY <1>1, <1>8 DEF Line
  <2>2. Fewer(w)
    BY <1>5, <1>7, <2>1 DEF Fewer
  <2>3. \A v \in Wallets \ {w} : Fewer(v)
    BY <1>8, StillLines
  <2> QED BY <2>2, <2>3
<1>10. OpFact(w, Idle)
  BY <1>1 DEF OpFact
<1>11. \A v \in Wallets : OpFact(v, op'[v])
  BY <1>1, <1>10, OpFactNext
<1>12. OwnerFactNext
  <2>1. CASE w = Owner
    <3>1. op'[Owner] = Idle /\ groups'[Owner] = disk[Owner]
      BY <1>1, <2>1 DEF DaemonType
    <3>2. SameHandles(groups'[Owner], groups[Owner])
      BY <1>1, <2>1, <3>1 DEF Settled, OwnerFact
    <3> QED BY <1>1, <2>1, <3>1, <3>2, OwnerRenews
  <2>2. CASE w # Owner
    <3>1. op'[Owner] = op[Owner] /\ groups'[Owner] = groups[Owner]
      BY <1>1, <2>2 DEF DaemonType
    <3> QED BY <1>1, <3>1, OwnerStays
  <2> QED BY <2>1, <2>2
<1>13. Settled'
  BY <1>1, <1>9, <1>11, <1>12, SettledStep
<1> QED BY <1>2, <1>13

LEMMA SettledInit == Init => Settled
<1> SUFFICES ASSUME Init PROVE Settled
  OBVIOUS
<1> USE DaemonAssumption
<1> DEFINE none == <<>>
<1>1. /\ groups[Owner] = NoGroups /\ disk[Owner] = NoGroups /\ op[Owner] = Idle
      /\ \A g \in Groups : roster[g] = {} /\ order[g] = none
      /\ commits = 0 /\ \A w \in Wallets : op[w] = Idle /\ inbox[w] = none /\ mail[w] = none
  BY DEF Init
<1>2. Idle.pc = "idle" /\ DOMAIN NoGroups = {} /\ DOMAIN none = {} /\ Len(none) = 0
  BY DEF Idle, NoGroups
<1>3. none \o none = none
  <2>1. none \in Seq(Nat)
    OBVIOUS
  <2> QED BY <2>1, ConcatEmptySeq
<1> HIDE DEF none
<1>4. OwnerFact(groups[Owner], disk[Owner], op[Owner], roster, order)
  BY <1>1, <1>2 DEF OwnerFact, SameHandles
<1>5. \A w \in Wallets : OpFact(w, op[w]) /\ AllSound(w, Waiting(w), order)
  <2> SUFFICES ASSUME NEW w \in Wallets PROVE OpFact(w, op[w]) /\ AllSound(w, Waiting(w), order)
    OBVIOUS
  <2>1. Waiting(w) = none
    BY <1>1, <1>2, <1>3 DEF Waiting, InHand
  <2> QED BY <1>1, <1>2, <2>1 DEF OpFact, AllSound
<1>6. \A g \in Groups : Sorted(order[g], commits)
  BY <1>1, <1>2 DEF Sorted
<1> QED BY <1>4, <1>5, <1>6 DEF Settled

(* An invite once redeemed, or a process once stopped, stays so.           *)
LEMMA UndisturbedBefore ==
    ASSUME DaemonType, [Next]_vars, Undisturbed'
    PROVE  Undisturbed
<1>1. (torn => torn') /\ \A t \in DOMAIN invites : t \in DOMAIN invites' /\ (invites[t].consumed => invites'[t].consumed)
  <2>1. CASE UNCHANGED <<torn, invites>>
    BY <2>1
  <2>2. CASE \E g \in Groups, t \in Tokens : PublishInvite(g, t)
    <3>1. PICK g \in Groups, t \in Tokens : PublishInvite(g, t)
      BY <2>2
    <3> DEFINE i == [group |-> g, hist |-> groups[Owner][g].hist, tree |-> groups[Owner][g].tree,
                     consumed |-> FALSE, joiner |-> Owner]
    <3>2. invites' = Put(invites, t, i) /\ t \notin DOMAIN invites /\ torn' = torn
      BY <3>1 DEF PublishInvite
    <3> HIDE DEF i
    <3> QED BY <3>2 DEF Put
  <2>3. CASE \E w \in Wallets, t \in Tokens : RedeemInvite(w, t)
    <3>1. PICK w \in Wallets, t \in Tokens : RedeemInvite(w, t)
      BY <2>3
    <3>2. /\ invites' = [invites EXCEPT ![t].consumed = TRUE, ![t].joiner = w] /\ t \in DOMAIN invites
          /\ ~invites[t].consumed /\ torn' = torn
      BY <3>1 DEF RedeemInvite
    <3>3. DOMAIN invites' = DOMAIN invites /\ \A u \in DOMAIN invites \ {t} : invites'[u] = invites[u]
      BY <3>2
    <3> QED BY <3>2, <3>3
  <2>4. CASE \E w \in Wallets : \E k \in 0..Len(mail[w]) : Restart(w, k)
    BY <2>4 DEF Restart
  <2>5. CASE vars' = vars
    BY <2>5 DEF vars, relayVars
  <2>6. CASE Next
    <3>1. CASE \/ \E g \in Groups : CreateGroup(g)
               \/ \E g \in Groups, w \in Wallets : AddMember(g, w)
               \/ SubmitAdd
               \/ Onboard
               \/ \E g \in Groups, w \in Wallets : Offboard(g, w)
               \/ \E w \in Wallets, g \in Groups : Send(w, g)
      <4>1. UNCHANGED <<torn, invites>>
        BY <3>1 DEF CreateGroup, AddMember, SubmitAdd, Onboard, Offboard, Send, relayVars
      <4> QED BY <2>1, <4>1
    <3>2. CASE \E w \in Wallets, g \in Groups : \E k \in 0..Len(mail[w]) : Poll(w, g, k)
      <4>1. UNCHANGED <<torn, invites>>
        BY <3>2 DEF Poll
      <4> QED BY <2>1, <4>1
    <3>3. CASE \E w \in Wallets, g \in Groups : \E k \in 0..Len(mail[w]) : JoinGroup(w, g, k)
      <4>1. UNCHANGED <<torn, invites>>
        BY <3>3 DEF JoinGroup
      <4> QED BY <2>1, <4>1
    <3>4. CASE \/ \E w \in Wallets : JoinGroupFinish(w)
               \/ \E w \in Wallets : \E k \in 0..Len(mail[w]) : JoinPending(w, k)
               \/ \E w \in Wallets : JoinPendingNext(w)
               \/ \E w \in Wallets : JoinPendingEnd(w)
      <4>1. UNCHANGED <<torn, invites>>
        BY <3>4 DEF JoinGroupFinish, JoinPending, JoinPendingNext, JoinPendingEnd, relayVars
      <4> QED BY <2>1, <4>1
    <3>5. CASE \/ \E w \in Wallets : RedeemCommit(w)
               \/ \E w \in Wallets : PersistState(w)
      <4>1. UNCHANGED <<torn, invites>>
        BY <3>5 DEF RedeemCommit, PersistState, relayVars
      <4> QED BY <2>1, <4>1
    <3> QED BY <2>2, <2>3, <2>4, <2>6, <3>1, <3>2, <3>3, <3>4, <3>5 DEF Next
  <2> QED BY <2>5, <2>6
<1> QED BY <1>1 DEF Undisturbed

LEMMA SettledNext ==
    ASSUME DaemonType, DaemonType', Settled, [Next]_vars
    PROVE  (Undisturbed' => Settled') /\ Keeps
<1>1. CASE UNCHANGED vars
  <2>1. UNCHANGED <<groups, disk, inbox, op, mail, roster, order, commits>>
    BY <1>1 DEF vars, daemonVars, relayVars
  <2>2. \A v \in Wallets : Waiting(v)' = Waiting(v) /\ OpFact(v, op'[v]) /\ SameHist(v)
    BY <2>1 DEF Waiting, InHand, Settled, SameHist
  <2>3. OwnerFactNext
    BY <2>1, OwnerStays
  <2> QED BY <2>1, <2>2, <2>3, StillStep
<1>2. CASE \E w \in Wallets : RedeemCommit(w)
  BY <1>2 DEF RedeemCommit, Settled, OpFact
<1>3. CASE \E w \in Wallets, t \in Tokens : RedeemInvite(w, t)
  <2>1. PICK w \in Wallets, t \in Tokens : RedeemInvite(w, t)
    BY <1>3
  <2>2. Keeps
    BY <2>1, KeepsByRedeemInvite
  <2>3. ~Undisturbed'
    <3>1. invites' = [invites EXCEPT ![t].consumed = TRUE, ![t].joiner = w] /\ t \in DOMAIN invites
      BY <2>1 DEF RedeemInvite
    <3>2. invites[t] \in Invite
      BY <3>1, InviteRows DEF DaemonType
    <3>3. t \in DOMAIN invites' /\ invites'[t].consumed = TRUE
      BY <3>1, <3>2 DEF Invite
    <3> QED BY <3>3 DEF Undisturbed
  <2> QED BY <2>2, <2>3
<1>4. CASE \E w \in Wallets : \E k \in 0..Len(mail[w]) : Restart(w, k)
  <2>0. PICK w \in Wallets : \E k \in 0..Len(mail[w]) : Restart(w, k)
    BY <1>4
  <2>1. PICK k \in 0..Len(mail[w]) : Restart(w, k)
    BY <2>0
  <2>2. Keeps
    BY <2>1 DEF Keeps, Restart, DaemonType
  <2>3. Undisturbed' => Settled'
    BY <2>1, SettledByRestart DEF Undisturbed
  <2> QED BY <2>2, <2>3
<1>5. CASE \/ \E g \in Groups : CreateGroup(g)
           \/ \E g \in Groups, w \in Wallets : AddMember(g, w)
           \/ SubmitAdd
           \/ Onboard
           \/ \E g \in Groups, w \in Wallets : Offboard(g, w)
           \/ \E w \in Wallets, g \in Groups : Send(w, g)
  BY <1>5, KeepsByCreateGroup, KeepsByAddMember, KeepsBySubmitAdd, KeepsByOnboard, KeepsByOffboard, KeepsBySend
<1>6. CASE \/ \E w \in Wallets, g \in Groups : \E k \in 0..Len(mail[w]) : Poll(w, g, k)
           \/ \E w \in Wallets, g \in Groups : \E k \in 0..Len(mail[w]) : JoinGroup(w, g, k)
           \/ \E w \in Wallets : JoinGroupFinish(w)
           \/ \E w \in Wallets : \E k \in 0..Len(mail[w]) : JoinPending(w, k)
           \/ \E w \in Wallets : JoinPendingNext(w)
           \/ \E w \in Wallets : JoinPendingEnd(w)
  BY <1>6, KeepsByPoll, KeepsByJoinGroup, KeepsByJoinGroupFinish, KeepsByJoinPending, KeepsByJoinPendingNext,
     KeepsByJoinPendingEnd
<1>7. CASE \/ \E g \in Groups, t \in Tokens : PublishInvite(g, t)
           \/ \E w \in Wallets : PersistState(w)
  BY <1>7, KeepsByPublishInvite, KeepsByPersistState
<1> QED BY <1>1, <1>2, <1>3, <1>4, <1>5, <1>6, <1>7 DEF Next

LEMMA KeepsInStep ==
    ASSUME DaemonType, DaemonType', Undisturbed => Settled, [Next]_vars
    PROVE  /\ Undisturbed' => Settled'
           /\ \A w \in Wallets, g \in Groups :
                 /\ Member(w, g) /\ InStep(w, g) /\ Member(w, g)'
                 /\ ~torn /\ crashes' = crashes /\ Len(inbox'[w]) < INBOX_CAP
                 /\ \A t \in DOMAIN invites : ~invites[t].consumed
                 => InStep(w, g)'
<1>1. Undisturbed' => Settled'
  BY UndisturbedBefore, SettledNext
<1>2. Undisturbed => Keeps
  BY SettledNext
<1> QED BY <1>1, <1>2 DEF Keeps, Undisturbed

(* Whatever the daemons do between two steps of a member - commit, offboard, *)
(* stash, join, poll another group - its merged Commits and its waiting     *)
(* ones go on making up the relay's order; but for the four exceptions      *)
(* StaysInStep names.                                                       *)
THEOREM StaysInStepHolds == Spec => StaysInStep
<1>1. Spec => [](Undisturbed => Settled)
  <2>1. Init => (Undisturbed => Settled)
    BY SettledInit
  <2>2. DaemonType /\ DaemonType' /\ (Undisturbed => Settled) /\ [Next]_vars => (Undisturbed => Settled)'
    BY KeepsInStep
  <2> QED BY <2>1, <2>2, DaemonTyped, PTL DEF Spec
<1>2. DaemonType /\ DaemonType' /\ (Undisturbed => Settled) /\ [Next]_vars =>
        [\A w \in Wallets, g \in Groups :
           /\ Member(w, g) /\ InStep(w, g) /\ Member(w, g)'
           /\ ~torn /\ crashes' = crashes /\ Len(inbox'[w]) < INBOX_CAP
           /\ \A t \in DOMAIN invites : ~invites[t].consumed
           => InStep(w, g)']_vars
  BY KeepsInStep
<1> QED BY <1>1, <1>2, DaemonTyped, PTL DEF Spec, StaysInStep
=============================================================================

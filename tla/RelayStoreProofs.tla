-------------------------- MODULE RelayStoreProofs --------------------------
(* What RelayStore's methods, one put at a time, keep true of the disk for  *)
(* every set of wallets and ciphertexts, every number of crashes and every  *)
(* number of failed puts: PromisesDurable and Reopenable.                   *)
(*                                                                         *)
(* Both talk of what is on the disk at any instant, so an inductive         *)
(* invariant has to say what each call has put so far.  StoreInv does, in   *)
(* six parts: the puts a method still has to make, then one part for each   *)
(* of the things that must survive - the envelopes, the roster drop, the    *)
(* use of the invite, the audit chain, the accepted Commits.                *)
EXTENDS RelayStore, FiniteSetTheorems, SequenceTheorems, WellFoundedInduction, TLAPS

Envelope == [kind : {"Application", "Commit", "Welcome"}, epoch : Nat,
             sender : Wallets, ct : Ciphertexts, seq : Nat]
AuditRecord == (AuditPuts \cup {"genesis"}) \X Wallets \X Nat
CallRecord == [op : {"none", "submit", "onboard", "offboard", "evict", "redeem"},
               who : Wallets, env : Envelope \cup {NoEnv}, newly : BOOLEAN]

Sends == {"submit", "onboard", "offboard"}

(* What is left to do of a method, wherever it stands. *)
Pending(op) ==
    IF op = "submit"
    THEN {<<"envelope", "group", "receipt">>, <<"group", "receipt">>, <<"receipt">>}
    ELSE IF op = "onboard"
    THEN {<<"envelope", "group", "receipt", "group", "added">>,
          <<"group", "receipt", "group", "added">>,
          <<"receipt", "group", "added">>, <<"group", "added">>, <<"added">>}
    ELSE IF op = "offboard"
    THEN {<<"envelope", "group", "receipt", "drop", "group", "removed", "revoked">>,
          <<"group", "receipt", "drop", "group", "removed", "revoked">>,
          <<"receipt", "drop", "group", "removed", "revoked">>,
          <<"drop", "group", "removed", "revoked">>,
          <<"group", "removed", "revoked">>, <<"removed", "revoked">>, <<"revoked">>}
    ELSE IF op = "evict"
    THEN {<<"group", "removed", "revoked">>, <<"removed", "revoked">>, <<"revoked">>}
    ELSE IF op = "redeem"
    THEN {<<"invite", "group", "referral">>, <<"group", "referral">>, <<"referral">>}
    ELSE {<<>>}

(* Where a call stands, told from what is left: its envelope is not on disk; *)
(* it is, and no snapshot written since counts it; the roster drop is in     *)
(* memory; it is on disk; the invite is consumed in memory only.             *)
Unsent == call.op \in Sends /\ todo[1] = "envelope"
Uncovered == call.op \in Sends /\ todo[1] = "group" /\ todo[2] = "receipt"
Dropped == todo \in {<<"group", "removed", "revoked">>, <<"removed", "revoked">>, <<"revoked">>}
DroppedOnDisk == todo \in {<<"removed", "revoked">>, <<"revoked">>}
Unmarked == call.op = "redeem" /\ todo[1] = "invite"

MemoryType ==
    /\ mem = Memory(Snapshot(mem), mem.log, mem.consumed, mem.referrals, mem.audit)
    /\ mem.members \subseteq Wallets /\ mem.consumed \in BOOLEAN
    /\ mem.current_epoch \in Nat /\ mem.next_seq \in Nat
    /\ mem.log \in Seq(Envelope) /\ mem.audit \in Seq(AuditRecord)

DiskType ==
    /\ disk = [envelopes |-> disk.envelopes, group |-> disk.group, consumed |-> disk.consumed,
               referrals |-> disk.referrals, audit |-> disk.audit]
    /\ disk.group = Snapshot(disk.group)
    /\ disk.group.members \subseteq Wallets /\ disk.consumed \in BOOLEAN
    /\ disk.group.current_epoch \in Nat /\ disk.group.next_seq \in Nat
    /\ IsFiniteSet(DOMAIN disk.envelopes) /\ DOMAIN disk.envelopes \subseteq Nat
    /\ \A k \in DOMAIN disk.envelopes : disk.envelopes[k] \in Envelope
    /\ IsFiniteSet(DOMAIN disk.audit) /\ DOMAIN disk.audit \subseteq Nat
    /\ \A k \in DOMAIN disk.audit : disk.audit[k] \in AuditRecord

CallType ==
    /\ up \in {"up", "down", "refused"} /\ failures \in Nat
    /\ call \in CallRecord /\ todo \in Pending(call.op)
    /\ call.op = "none" => call = NoCall
    /\ call.op \in Sends => call.env \in Envelope
    /\ up # "up" => call.op = "none"

StoreType == MemoryType /\ DiskType /\ CallType

AckedInv ==
    /\ AckedDurable
    /\ up = "up" => disk.group.next_seq <= mem.next_seq
    /\ call.op \in Sends =>
          /\ call.env.seq < mem.next_seq
          /\ Unsent => call.env.seq >= disk.group.next_seq
          /\ ~Unsent => OnDisk(AsAcked(call.env))
          /\ ~Unsent /\ ~Uncovered => call.env.seq < disk.group.next_seq

RemovalInv ==
    /\ RemovalSticks
    /\ call.op \in {"offboard", "evict"} =>
          /\ Dropped => call.who \notin mem.members
          /\ DroppedOnDisk => call.who \notin disk.group.members

RedeemInv ==
    failures = 0 =>
        /\ \A v, w \in viaToken : v = w
        /\ viaToken # {} => disk.consumed \/ Unmarked
        /\ up # "up" => viaToken \subseteq disk.group.members
        /\ up = "up" => (mem.consumed <=> disk.consumed \/ Unmarked)
        /\ Unmarked => viaToken \cap disk.group.members = {}

ChainInv ==
    failures = 0 =>
        /\ \E n \in DOMAIN disk.audit : DOMAIN disk.audit = 0..n
        /\ up = "up" => DOMAIN disk.audit = 0..(Len(mem.audit) - 1)
        /\ up # "refused"

(* The Commit of an epoch is among the envelopes below n. *)
CommitOnDisk(e, c, n) ==
    \E k \in DOMAIN disk.envelopes :
        /\ k < n /\ disk.envelopes[k].kind = "Commit"
        /\ disk.envelopes[k].epoch = e /\ disk.envelopes[k].ct = c

(* The sequence numbers below it belong to envelopes that are on disk. *)
Sent == IF Unsent THEN call.env.seq ELSE mem.next_seq

ReplayInv ==
    failures = 0 =>
        /\ AcceptedReplayable
        /\ \A e \in DOMAIN disk.group.accepted_commit :
              CommitOnDisk(e, disk.group.accepted_commit[e], disk.group.next_seq)
        /\ up = "up" => \A e \in DOMAIN mem.accepted_commit :
              \/ CommitOnDisk(e, mem.accepted_commit[e], Sent)
              \/ /\ Unsent /\ call.env.kind = "Commit" /\ call.env.epoch = e
                 /\ call.env.ct = mem.accepted_commit[e]

(* The inductive invariant. *)
StoreInv == StoreType /\ AckedInv /\ RemovalInv /\ RedeemInv /\ ChainInv /\ ReplayInv

-----------------------------------------------------------------------------
(* A non-empty set of naturals has a least element. *)
LEMMA LeastElement ==
    ASSUME NEW S \in SUBSET Nat, S # {}
    PROVE  \E i \in S : \A j \in S : i <= j
<1>1. IsWellFoundedOn(OpToRel(<, Nat), Nat)
  BY NatLessThanWellFounded
<1> DEFINE Below == OpToRel(<, Nat)
<1>2. \A x, y \in Nat : y < x => <<y, x>> \in Below
  BY DEF OpToRel
<1> HIDE DEF Below
<1>3. PICK i \in S : \A j \in S : <<j, i>> \notin Below
  <2>1. IsWellFoundedOn(Below, Nat)
    BY <1>1 DEF Below
  <2> QED BY <2>1, WFMin
<1>4. \A j \in S : ~(j < i)
  BY <1>2, <1>3
<1> QED BY <1>4

(* How many keys of f come before k. *)
Rank(D, k) == Cardinality({x \in D : x < k})

(* Two keys of a finite set come after different numbers of keys. *)
LEMMA RankIsInjective ==
    ASSUME NEW D \in SUBSET Nat, IsFiniteSet(D), NEW k \in D
    PROVE  /\ Rank(D, k) \in 0..(Cardinality(D) - 1)
           /\ \A l \in D : Rank(D, l) = Rank(D, k) => l = k
<1> DEFINE Before(m) == {x \in D : x < m}
<1>1. \A m \in D : /\ Before(m) \in SUBSET D /\ m \notin Before(m)
                   /\ IsFiniteSet(Before(m)) /\ Cardinality(Before(m)) \in Nat
                   /\ Cardinality(D) \in Nat
  <2> SUFFICES ASSUME NEW m \in D
               PROVE  /\ Before(m) \in SUBSET D /\ m \notin Before(m)
                      /\ IsFiniteSet(Before(m)) /\ Cardinality(Before(m)) \in Nat
                      /\ Cardinality(D) \in Nat
    OBVIOUS
  <2>1. Before(m) \in SUBSET D /\ m \notin Before(m)
    OBVIOUS
  <2>2. IsFiniteSet(Before(m))
    BY <2>1, FS_Subset
  <2> QED BY <2>1, <2>2, FS_CardinalityType
<1>2. Cardinality(Before(k)) < Cardinality(D)
  <2>1. Cardinality(Before(k)) <= Cardinality(D) /\ (Cardinality(D) = Cardinality(Before(k)) => D = Before(k))
    BY <1>1, FS_Subset
  <2> QED BY <1>1, <2>1
<1>3. ASSUME NEW l \in D, NEW m \in D, l < m
      PROVE  Cardinality(Before(l)) # Cardinality(Before(m))
  <2>0. l \in Nat /\ m \in Nat /\ D \subseteq Nat
    OBVIOUS
  <2>1. Before(l) \in SUBSET Before(m) /\ l \in Before(m)
    <3>1. \A x \in Nat : x < l => x < m
      BY <2>0, <1>3
    <3> QED BY <2>0, <1>3, <3>1
  <2>2. Cardinality(Before(m)) = Cardinality(Before(l)) => Before(m) = Before(l)
    BY <1>1, <2>1, FS_Subset
  <2> QED BY <1>1, <2>1, <2>2
<1>4. \A l \in D : Cardinality(Before(l)) = Cardinality(Before(k)) => l = k
  BY <1>3
<1> QED BY <1>1, <1>2, <1>4 DEF Rank

(* The scan of a column family lists each of its values, and nothing else:  *)
(* open() gets back every envelope and every record that was put.           *)
LEMMA ScanListsValues ==
    ASSUME NEW f, NEW S, IsFiniteSet(DOMAIN f), DOMAIN f \subseteq Nat,
           \A k \in DOMAIN f : f[k] \in S
    PROVE  /\ InKeyOrder(f) \in Seq(S) /\ Len(InKeyOrder(f)) = Cardinality(DOMAIN f)
           /\ \A k \in DOMAIN f : \E i \in DOMAIN InKeyOrder(f) : InKeyOrder(f)[i] = f[k]
<1> DEFINE D == DOMAIN f
           n == Cardinality(D)
           rank == [k \in D |-> Rank(D, k) + 1]
           pick == [i \in 1..n |-> CHOOSE k \in D : Rank(D, k) = i - 1]
<1>1. n \in Nat
  BY FS_CardinalityType
<1>2. InKeyOrder(f) = [i \in 1..n |-> f[CHOOSE k \in D : Rank(D, k) = i - 1]]
  BY DEF InKeyOrder, Rank
<1>3. \A k \in D : Rank(D, k) \in 0..(n - 1) /\ \A l \in D : Rank(D, l) = Rank(D, k) => l = k
  BY RankIsInjective
<1> HIDE DEF n
<1>4. \A i \in 1..n : \E k \in D : Rank(D, k) = i - 1
  <2>1. rank \in Injection(D, 1..n)
    BY <1>1, <1>3 DEF Injection, IsInjective
  <2> DEFINE T == {rank[k] : k \in D}
  <2>2. rank \in Bijection(D, T)
    BY <2>1 DEF Bijection, Injection, Surjection, IsInjective
  <2>3. Cardinality(D) = Cardinality(T)
    BY <2>2, FS_Bijection DEF ExistsBijection
  <2>4. T \in SUBSET (1..n) /\ IsFiniteSet(1..n) /\ Cardinality(1..n) = n
    <3>1. \A k \in D : rank[k] = Rank(D, k) + 1 /\ rank[k] \in 1..n
      BY <1>1, <1>3
    <3>2. IsFiniteSet(1..n) /\ Cardinality(1..n) = n
      BY <1>1, FS_Interval
    <3> QED BY <3>1, <3>2
  <2>5. T = 1..n
    <3> HIDE DEF T
    <3> QED BY <2>3, <2>4, FS_Subset DEF n
  <2>6. ASSUME NEW i \in 1..n PROVE \E k \in D : Rank(D, k) = i - 1
    <3>1. PICK k \in D : i = rank[k]
      BY <2>5
    <3>2. i = Rank(D, k) + 1 /\ Rank(D, k) \in 0..(n - 1)
      BY <3>1, <1>3
    <3> QED BY <1>1, <3>2
  <2> QED BY <2>6
<1>5. \A i \in 1..n : (CHOOSE k \in D : Rank(D, k) = i - 1) \in D
  BY <1>4
<1>6. \A k \in D : /\ Rank(D, k) + 1 \in 1..n
                   /\ (CHOOSE l \in D : Rank(D, l) = (Rank(D, k) + 1) - 1) = k
  <2> SUFFICES ASSUME NEW k \in D
               PROVE  /\ Rank(D, k) + 1 \in 1..n
                      /\ (CHOOSE l \in D : Rank(D, l) = (Rank(D, k) + 1) - 1) = k
    OBVIOUS
  <2>1. Rank(D, k) + 1 \in 1..n /\ (Rank(D, k) + 1) - 1 = Rank(D, k)
    BY <1>1, <1>3
  <2> QED BY <1>3, <2>1
<1>7. InKeyOrder(f) \in Seq(S) /\ Len(InKeyOrder(f)) = n
  BY <1>1, <1>2, <1>5
<1>8. \A k \in D : InKeyOrder(f)[Rank(D, k) + 1] = f[k]
  BY <1>2, <1>6
<1> QED BY <1>1, <1>2, <1>6, <1>7, <1>8 DEF n

-----------------------------------------------------------------------------
(* How a method's puts follow each other, as far as the invariant tells     *)
(* them apart.                                                              *)
Progress(op, t) ==
    /\ Len(t) \in Nat \ {0} /\ Head(t) = t[1]
    /\ t[1] \in {"envelope", "group", "invite", "referral", "drop"} \cup AuditPuts
    /\ Len(t) # 1 => Tail(t) \in Pending(op) /\ Tail(t) # <<>>
    /\ t[1] = "envelope" => op \in Sends /\ Len(t) # 1 /\ Tail(t)[1] = "group" /\ Tail(t)[2] = "receipt"
    /\ t[1] = "group" => Len(t) # 1
    /\ t[1] # "envelope" /\ Len(t) # 1 =>
          Tail(t)[1] \notin {"envelope", "invite"} /\ ~(Tail(t)[1] = "group" /\ Tail(t)[2] = "receipt")
    /\ t[1] = "envelope" => Tail(t)[1] # "invite"
    /\ t[1] = "invite" => op = "redeem" /\ Len(t) # 1
    /\ t[1] = "referral" => op = "redeem" /\ Len(t) = 1
    /\ t[1] = "drop" => op = "offboard" /\ Len(t) # 1
    /\ op \in {"offboard", "evict"} /\ Len(t) = 1 => t = <<"revoked">>
    /\ op \in {"offboard", "evict"} /\ Len(t) # 1 =>
          /\ Tail(t) \in {<<"group", "removed", "revoked">>, <<"removed", "revoked">>, <<"revoked">>} =>
                \/ t[1] = "drop"
                \/ t \in {<<"group", "removed", "revoked">>, <<"removed", "revoked">>, <<"revoked">>}
          /\ Tail(t) \in {<<"removed", "revoked">>, <<"revoked">>} =>
                \/ t = <<"group", "removed", "revoked">>
                \/ t \in {<<"removed", "revoked">>, <<"revoked">>}

(* The order of the puts, for every method and every point in it. *)
LEMMA PutsInOrder ==
    ASSUME NEW op, NEW t \in Pending(op), t # <<>>
    PROVE  Progress(op, t)
<1>1. CASE op = "submit"
  <2>0. Pending(op) = {<<"envelope", "group", "receipt">>,
                        <<"group", "receipt">>,
                        <<"receipt">>}
    BY <1>1 DEF Pending
  <2>1. CASE t = <<"envelope", "group", "receipt">>
    <3>1. Len(t) = 3 /\ Head(t) = t[1] /\ Tail(t) = <<"group", "receipt">>
      BY <2>1
    <3> QED BY <1>1, <2>0, <2>1, <3>1 DEF Progress, Sends, AuditPuts
  <2>2. CASE t = <<"group", "receipt">>
    <3>1. Len(t) = 2 /\ Head(t) = t[1] /\ Tail(t) = <<"receipt">>
      BY <2>2
    <3> QED BY <1>1, <2>0, <2>2, <3>1 DEF Progress, Sends, AuditPuts
  <2>3. CASE t = <<"receipt">>
    <3>1. Len(t) = 1 /\ Head(t) = t[1]
      BY <2>3
    <3> QED BY <1>1, <2>0, <2>3, <3>1 DEF Progress, Sends, AuditPuts
  <2> QED BY <2>0, <2>1, <2>2, <2>3
<1>2. CASE op = "onboard"
  <2>0. Pending(op) = {<<"envelope", "group", "receipt", "group", "added">>,
                        <<"group", "receipt", "group", "added">>,
                        <<"receipt", "group", "added">>,
                        <<"group", "added">>,
                        <<"added">>}
    BY <1>2 DEF Pending
  <2>1. CASE t = <<"envelope", "group", "receipt", "group", "added">>
    <3>1. Len(t) = 5 /\ Head(t) = t[1] /\ Tail(t) = <<"group", "receipt", "group", "added">>
      BY <2>1
    <3> QED BY <1>2, <2>0, <2>1, <3>1 DEF Progress, Sends, AuditPuts
  <2>2. CASE t = <<"group", "receipt", "group", "added">>
    <3>1. Len(t) = 4 /\ Head(t) = t[1] /\ Tail(t) = <<"receipt", "group", "added">>
      BY <2>2
    <3> QED BY <1>2, <2>0, <2>2, <3>1 DEF Progress, Sends, AuditPuts
  <2>3. CASE t = <<"receipt", "group", "added">>
    <3>1. Len(t) = 3 /\ Head(t) = t[1] /\ Tail(t) = <<"group", "added">>
      BY <2>3
    <3> QED BY <1>2, <2>0, <2>3, <3>1 DEF Progress, Sends, AuditPuts
  <2>4. CASE t = <<"group", "added">>
    <3>1. Len(t) = 2 /\ Head(t) = t[1] /\ Tail(t) = <<"added">>
      BY <2>4
    <3> QED BY <1>2, <2>0, <2>4, <3>1 DEF Progress, Sends, AuditPuts
  <2>5. CASE t = <<"added">>
    <3>1. Len(t) = 1 /\ Head(t) = t[1]
      BY <2>5
    <3> QED BY <1>2, <2>0, <2>5, <3>1 DEF Progress, Sends, AuditPuts
  <2> QED BY <2>0, <2>1, <2>2, <2>3, <2>4, <2>5
<1>3. CASE op = "offboard"
  <2>0. Pending(op) = {<<"envelope", "group", "receipt", "drop", "group", "removed", "revoked">>,
                        <<"group", "receipt", "drop", "group", "removed", "revoked">>,
                        <<"receipt", "drop", "group", "removed", "revoked">>,
                        <<"drop", "group", "removed", "revoked">>,
                        <<"group", "removed", "revoked">>,
                        <<"removed", "revoked">>,
                        <<"revoked">>}
    BY <1>3 DEF Pending
  <2>1. CASE t = <<"envelope", "group", "receipt", "drop", "group", "removed", "revoked">>
    <3>1. Len(t) = 7 /\ Head(t) = t[1] /\ Tail(t) = <<"group", "receipt", "drop", "group", "removed", "revoked">>
      BY <2>1
    <3> QED BY <1>3, <2>0, <2>1, <3>1 DEF Progress, Sends, AuditPuts
  <2>2. CASE t = <<"group", "receipt", "drop", "group", "removed", "revoked">>
    <3>1. Len(t) = 6 /\ Head(t) = t[1] /\ Tail(t) = <<"receipt", "drop", "group", "removed", "revoked">>
      BY <2>2
    <3> QED BY <1>3, <2>0, <2>2, <3>1 DEF Progress, Sends, AuditPuts
  <2>3. CASE t = <<"receipt", "drop", "group", "removed", "revoked">>
    <3>1. Len(t) = 5 /\ Head(t) = t[1] /\ Tail(t) = <<"drop", "group", "removed", "revoked">>
      BY <2>3
    <3> QED BY <1>3, <2>0, <2>3, <3>1 DEF Progress, Sends, AuditPuts
  <2>4. CASE t = <<"drop", "group", "removed", "revoked">>
    <3>1. Len(t) = 4 /\ Head(t) = t[1] /\ Tail(t) = <<"group", "removed", "revoked">>
      BY <2>4
    <3> QED BY <1>3, <2>0, <2>4, <3>1 DEF Progress, Sends, AuditPuts
  <2>5. CASE t = <<"group", "removed", "revoked">>
    <3>1. Len(t) = 3 /\ Head(t) = t[1] /\ Tail(t) = <<"removed", "revoked">>
      BY <2>5
    <3> QED BY <1>3, <2>0, <2>5, <3>1 DEF Progress, Sends, AuditPuts
  <2>6. CASE t = <<"removed", "revoked">>
    <3>1. Len(t) = 2 /\ Head(t) = t[1] /\ Tail(t) = <<"revoked">>
      BY <2>6
    <3> QED BY <1>3, <2>0, <2>6, <3>1 DEF Progress, Sends, AuditPuts
  <2>7. CASE t = <<"revoked">>
    <3>1. Len(t) = 1 /\ Head(t) = t[1]
      BY <2>7
    <3> QED BY <1>3, <2>0, <2>7, <3>1 DEF Progress, Sends, AuditPuts
  <2> QED BY <2>0, <2>1, <2>2, <2>3, <2>4, <2>5, <2>6, <2>7
<1>4. CASE op = "evict"
  <2>0. Pending(op) = {<<"group", "removed", "revoked">>,
                        <<"removed", "revoked">>,
                        <<"revoked">>}
    BY <1>4 DEF Pending
  <2>1. CASE t = <<"group", "removed", "revoked">>
    <3>1. Len(t) = 3 /\ Head(t) = t[1] /\ Tail(t) = <<"removed", "revoked">>
      BY <2>1
    <3> QED BY <1>4, <2>0, <2>1, <3>1 DEF Progress, Sends, AuditPuts
  <2>2. CASE t = <<"removed", "revoked">>
    <3>1. Len(t) = 2 /\ Head(t) = t[1] /\ Tail(t) = <<"revoked">>
      BY <2>2
    <3> QED BY <1>4, <2>0, <2>2, <3>1 DEF Progress, Sends, AuditPuts
  <2>3. CASE t = <<"revoked">>
    <3>1. Len(t) = 1 /\ Head(t) = t[1]
      BY <2>3
    <3> QED BY <1>4, <2>0, <2>3, <3>1 DEF Progress, Sends, AuditPuts
  <2> QED BY <2>0, <2>1, <2>2, <2>3
<1>5. CASE op = "redeem"
  <2>0. Pending(op) = {<<"invite", "group", "referral">>,
                        <<"group", "referral">>,
                        <<"referral">>}
    BY <1>5 DEF Pending
  <2>1. CASE t = <<"invite", "group", "referral">>
    <3>1. Len(t) = 3 /\ Head(t) = t[1] /\ Tail(t) = <<"group", "referral">>
      BY <2>1
    <3> QED BY <1>5, <2>0, <2>1, <3>1 DEF Progress, Sends, AuditPuts
  <2>2. CASE t = <<"group", "referral">>
    <3>1. Len(t) = 2 /\ Head(t) = t[1] /\ Tail(t) = <<"referral">>
      BY <2>2
    <3> QED BY <1>5, <2>0, <2>2, <3>1 DEF Progress, Sends, AuditPuts
  <2>3. CASE t = <<"referral">>
    <3>1. Len(t) = 1 /\ Head(t) = t[1]
      BY <2>3
    <3> QED BY <1>5, <2>0, <2>3, <3>1 DEF Progress, Sends, AuditPuts
  <2> QED BY <2>0, <2>1, <2>2, <2>3
<1> QED BY <1>1, <1>2, <1>3, <1>4, <1>5 DEF Pending

(* A sequence that starts as s and goes on as u is their concatenation. *)
LEMMA Joined ==
    ASSUME NEW S, NEW s \in Seq(S), NEW u \in Seq(S), NEW v \in Seq(S),
           Len(v) = Len(s) + Len(u),
           \A i \in 1..Len(s) : v[i] = s[i], \A i \in 1..Len(u) : v[Len(s) + i] = u[i]
    PROVE  s \o u = v
<1>1. /\ s \o u \in Seq(S) /\ Len(s \o u) = Len(s) + Len(u)
      /\ \A i \in 1..Len(s) + Len(u) : (s \o u)[i] = IF i <= Len(s) THEN s[i] ELSE u[i - Len(s)]
  BY ConcatProperties
<1>2. Len(s) \in Nat /\ Len(u) \in Nat
  OBVIOUS
<1>3. ASSUME NEW i \in 1..Len(v) PROVE v[i] = (s \o u)[i]
  <2>1. CASE i <= Len(s)
    BY <1>1, <1>2, <2>1
  <2>2. CASE ~(i <= Len(s))
    <3>1. i - Len(s) \in 1..Len(u) /\ Len(s) + (i - Len(s)) = i /\ i \in 1..Len(s) + Len(u)
      BY <1>2, <2>2
    <3>2. v[Len(s) + (i - Len(s))] = u[i - Len(s)]
      BY <3>1
    <3> QED BY <1>1, <2>2, <3>1, <3>2
  <2> QED BY <2>1, <2>2
<1> QED BY <1>1, <1>3, SeqEqual

Names == {"envelope", "group", "invite", "referral", "drop"} \cup AuditPuts

(* The puts of onboard and offboard, written out. *)
LEMMA PutsWritten ==
    /\ SubmitPuts = <<"envelope", "group", "receipt">>
    /\ OnboardPuts = <<"envelope", "group", "receipt", "group", "added">>
    /\ SubmitPuts \o <<"drop">> \o DropPuts
         = <<"envelope", "group", "receipt", "drop", "group", "removed", "revoked">>
<1>1. <<"envelope", "group", "receipt">> \o <<"group", "added">>
        = <<"envelope", "group", "receipt", "group", "added">>
  <2> DEFINE s == <<"envelope", "group", "receipt">>
             u == <<"group", "added">>
             v == <<"envelope", "group", "receipt", "group", "added">>
  <2>1. s \in Seq(Names) /\ u \in Seq(Names) /\ v \in Seq(Names)
    BY DEF Names, AuditPuts
  <2>2. Len(s) = 3 /\ Len(u) = 2 /\ Len(v) = 5
    OBVIOUS
  <2>3. \A i \in 1..3 : v[i] = s[i]
    <3>1. \A i \in 1..3 : i = 1 \/ i = 2 \/ i = 3
      OBVIOUS
    <3> QED BY <3>1
  <2>4. \A i \in 1..2 : v[3 + i] = u[i]
    <3>1. \A i \in 1..2 : i = 1 \/ i = 2
      OBVIOUS
    <3> QED BY <3>1
  <2> HIDE DEF s, u, v, Names
  <2>5. /\ Len(v) = Len(s) + Len(u)
        /\ \A i \in 1..Len(s) : v[i] = s[i]
        /\ \A j \in 1..Len(u) : v[Len(s) + j] = u[j]
    BY <2>2, <2>3, <2>4
  <2>6. s \o u = v
    BY <2>1, <2>5, Joined
  <2> QED BY <2>6 DEF s, u, v
<1>2. <<"envelope", "group", "receipt">> \o <<"drop">>
        = <<"envelope", "group", "receipt", "drop">>
  <2> DEFINE s == <<"envelope", "group", "receipt">>
             u == <<"drop">>
             v == <<"envelope", "group", "receipt", "drop">>
  <2>1. s \in Seq(Names) /\ u \in Seq(Names) /\ v \in Seq(Names)
    BY DEF Names, AuditPuts
  <2>2. Len(s) = 3 /\ Len(u) = 1 /\ Len(v) = 4
    OBVIOUS
  <2>3. \A i \in 1..3 : v[i] = s[i]
    <3>1. \A i \in 1..3 : i = 1 \/ i = 2 \/ i = 3
      OBVIOUS
    <3> QED BY <3>1
  <2>4. \A i \in 1..1 : v[3 + i] = u[i]
    <3>1. \A i \in 1..1 : i = 1
      OBVIOUS
    <3> QED BY <3>1
  <2> HIDE DEF s, u, v, Names
  <2>5. /\ Len(v) = Len(s) + Len(u)
        /\ \A i \in 1..Len(s) : v[i] = s[i]
        /\ \A j \in 1..Len(u) : v[Len(s) + j] = u[j]
    BY <2>2, <2>3, <2>4
  <2>6. s \o u = v
    BY <2>1, <2>5, Joined
  <2> QED BY <2>6 DEF s, u, v
<1>3. <<"envelope", "group", "receipt", "drop">> \o <<"group", "removed", "revoked">>
        = <<"envelope", "group", "receipt", "drop", "group", "removed", "revoked">>
  <2> DEFINE s == <<"envelope", "group", "receipt", "drop">>
             u == <<"group", "removed", "revoked">>
             v == <<"envelope", "group", "receipt", "drop", "group", "removed", "revoked">>
  <2>1. s \in Seq(Names) /\ u \in Seq(Names) /\ v \in Seq(Names)
    BY DEF Names, AuditPuts
  <2>2. Len(s) = 4 /\ Len(u) = 3 /\ Len(v) = 7
    OBVIOUS
  <2>3. \A i \in 1..4 : v[i] = s[i]
    <3>1. \A i \in 1..4 : i = 1 \/ i = 2 \/ i = 3 \/ i = 4
      OBVIOUS
    <3> QED BY <3>1
  <2>4. \A i \in 1..3 : v[4 + i] = u[i]
    <3>1. \A i \in 1..3 : i = 1 \/ i = 2 \/ i = 3
      OBVIOUS
    <3> QED BY <3>1
  <2> HIDE DEF s, u, v, Names
  <2>5. /\ Len(v) = Len(s) + Len(u)
        /\ \A i \in 1..Len(s) : v[i] = s[i]
        /\ \A j \in 1..Len(u) : v[Len(s) + j] = u[j]
    BY <2>2, <2>3, <2>4
  <2>6. s \o u = v
    BY <2>1, <2>5, Joined
  <2> QED BY <2>6 DEF s, u, v
<1> QED BY <1>1, <1>2, <1>3 DEF SubmitPuts, OnboardPuts, DropPuts

-----------------------------------------------------------------------------
(* A submit, an onboard and an offboard start alike: an envelope takes the  *)
(* next sequence number in memory, and the puts that begin with it are due.  *)
Starts(env) ==
    /\ Idle /\ up' = up /\ disk' = disk /\ failures' = failures /\ acked' = acked
    /\ env \in Envelope /\ env.seq = mem.next_seq
    /\ env.kind = "Commit" => env.epoch \notin DOMAIN mem.accepted_commit
    /\ mem'.members \subseteq Wallets
    /\ mem' = Memory(Snapshot(mem'), Append(mem.log, env), mem.consumed, mem.referrals, mem.audit)
    /\ mem'.next_seq = mem.next_seq + 1
    /\ mem'.current_epoch = IF env.kind = "Commit" THEN env.epoch ELSE mem.current_epoch
    /\ mem'.accepted_commit = IF env.kind = "Commit" THEN Put(mem.accepted_commit, env.epoch, env.ct)
                                                     ELSE mem.accepted_commit
    /\ call' \in CallRecord /\ call'.op \in Sends /\ call'.env = env
    /\ todo' \in Pending(call'.op) /\ todo'[1] = "envelope" /\ Len(todo') > 2

AppliedEffect(m, M, env) ==
    /\ Appended(m, env).members = M
    /\ Appended(m, env) = Memory(Snapshot(Appended(m, env)), Append(mem.log, env), mem.consumed,
                                 mem.referrals, mem.audit)
    /\ Appended(m, env).next_seq = mem.next_seq + 1
    /\ Appended(m, env).current_epoch = IF env.kind = "Commit" THEN env.epoch ELSE mem.current_epoch
    /\ Appended(m, env).accepted_commit =
          IF env.kind = "Commit" THEN Put(mem.accepted_commit, env.epoch, env.ct)
                                 ELSE mem.accepted_commit

(* What submit does to memory, with a roster of M. *)
LEMMA AppendEffect ==
    ASSUME StoreType, NEW M, NEW env \in Envelope
    PROVE  AppliedEffect([mem EXCEPT !.members = M], M, env)
<1> DEFINE m == [mem EXCEPT !.members = M]
<1>1. /\ m = Memory(Snapshot(m), mem.log, mem.consumed, mem.referrals, mem.audit)
      /\ m.members = M /\ m.next_seq = mem.next_seq /\ m.current_epoch = mem.current_epoch
      /\ m.accepted_commit = mem.accepted_commit
      /\ m.log = mem.log /\ m.consumed = mem.consumed /\ m.referrals = mem.referrals
      /\ m.audit = mem.audit
  BY DEF StoreType, MemoryType, Memory, Snapshot
<1> HIDE DEF m
<1> DEFINE epoch == IF env.kind = "Commit" THEN env.epoch ELSE mem.current_epoch
           accepted == IF env.kind = "Commit" THEN Put(mem.accepted_commit, env.epoch, env.ct)
                                              ELSE mem.accepted_commit
           applied == [members |-> M, current_epoch |-> epoch, next_seq |-> mem.next_seq + 1,
                       accepted_commit |-> accepted]
<1>2. Appended(m, env) = Memory(applied, Append(mem.log, env), mem.consumed, mem.referrals, mem.audit)
  <2> DEFINE a == Appended(m, env)
  <2>1. DOMAIN m = {"members", "current_epoch", "next_seq", "accepted_commit", "log", "consumed",
                    "referrals", "audit"}
    <3>1. DOMAIN Memory(Snapshot(m), mem.log, mem.consumed, mem.referrals, mem.audit)
            = {"members", "current_epoch", "next_seq", "accepted_commit", "log", "consumed",
               "referrals", "audit"}
      BY DEF Memory
    <3> QED BY <1>1, <3>1
  <2>2. /\ a.members = M /\ a.current_epoch = epoch /\ a.next_seq = mem.next_seq + 1
        /\ a.accepted_commit = accepted /\ a.log = Append(mem.log, env)
        /\ a.consumed = mem.consumed /\ a.referrals = mem.referrals /\ a.audit = mem.audit
    BY <1>1, <2>1 DEF Appended
  <2>3. a = [x \in DOMAIN m |-> a[x]]
    BY DEF Appended
  <2> HIDE DEF a, epoch, accepted
  <2>4. a = Memory(applied, Append(mem.log, env), mem.consumed, mem.referrals, mem.audit)
    BY <2>1, <2>2, <2>3 DEF Memory
  <2> QED BY <2>4 DEF a
<1>3. Snapshot(Appended(m, env)) = applied
  <2> HIDE DEF epoch, accepted
  <2> QED BY <1>2 DEF Memory, Snapshot
<1>4. AppliedEffect(m, M, env)
  <2>1. Appended(m, env) = Memory(Snapshot(Appended(m, env)), Append(mem.log, env), mem.consumed,
                                  mem.referrals, mem.audit)
    BY <1>2, <1>3
  <2>2. /\ Appended(m, env).members = M /\ Appended(m, env).next_seq = mem.next_seq + 1
        /\ Appended(m, env).current_epoch = epoch /\ Appended(m, env).accepted_commit = accepted
    <3> HIDE DEF epoch, accepted
    <3> QED BY <1>2 DEF Memory
  <2> QED BY <2>1, <2>2 DEF AppliedEffect
<1> QED BY <1>4 DEF m

(* The envelope submit builds is one, with the fields it was given. *)
LEMMA EnvIsEnvelope ==
    ASSUME NEW k \in {"Application", "Commit", "Welcome"}, NEW e \in Nat, NEW w \in Wallets,
           NEW c \in Ciphertexts, NEW n \in Nat
    PROVE  /\ Env(k, e, w, c, n) \in Envelope
           /\ Env(k, e, w, c, n).kind = k /\ Env(k, e, w, c, n).epoch = e
           /\ Env(k, e, w, c, n).ct = c /\ Env(k, e, w, c, n).seq = n
  BY DEF Env, Envelope

(* A call that begins is recorded with its puts, before any of them. *)
LEMMA CallIsRecord ==
    ASSUME NEW op \in {"submit", "onboard", "offboard", "evict", "redeem"}, NEW w \in Wallets,
           NEW env \in Envelope \cup {NoEnv}, NEW newly \in BOOLEAN, NEW puts,
           Begin(op, w, env, newly, puts)
    PROVE  /\ call' \in CallRecord /\ call'.op = op /\ call'.who = w /\ call'.env = env
           /\ todo' = puts /\ disk' = disk /\ up' = up /\ failures' = failures
  BY DEF Begin, CallRecord

(* The puts of each method, where it begins; those of a send begin with the *)
(* envelope. *)
LEMMA FirstPuts ==
    /\ SubmitPuts \in Pending("submit") /\ SubmitPuts[1] = "envelope" /\ Len(SubmitPuts) = 3
    /\ OnboardPuts \in Pending("onboard") /\ OnboardPuts[1] = "envelope" /\ Len(OnboardPuts) = 5
    /\ SubmitPuts \o <<"drop">> \o DropPuts \in Pending("offboard")
    /\ (SubmitPuts \o <<"drop">> \o DropPuts)[1] = "envelope"
    /\ Len(SubmitPuts \o <<"drop">> \o DropPuts) = 7
    /\ DropPuts \in Pending("evict") /\ RedeemPuts \in Pending("redeem")
<1>1. SubmitPuts \in Pending("submit") /\ SubmitPuts[1] = "envelope" /\ Len(SubmitPuts) = 3
  BY DEF Pending, SubmitPuts
<1>2. OnboardPuts \in Pending("onboard") /\ OnboardPuts[1] = "envelope" /\ Len(OnboardPuts) = 5
  <2>1. OnboardPuts = <<"envelope", "group", "receipt", "group", "added">>
    BY PutsWritten
  <2>2. OnboardPuts \in Pending("onboard")
    BY <2>1 DEF Pending
  <2> QED BY <2>1, <2>2
<1>3. /\ SubmitPuts \o <<"drop">> \o DropPuts \in Pending("offboard")
      /\ (SubmitPuts \o <<"drop">> \o DropPuts)[1] = "envelope"
      /\ Len(SubmitPuts \o <<"drop">> \o DropPuts) = 7
  <2> DEFINE puts == SubmitPuts \o <<"drop">> \o DropPuts
  <2>1. puts = <<"envelope", "group", "receipt", "drop", "group", "removed", "revoked">>
    BY PutsWritten
  <2> HIDE DEF puts
  <2>2. puts \in Pending("offboard")
    BY <2>1 DEF Pending
  <2>3. puts[1] = "envelope" /\ Len(puts) = 7
    BY <2>1
  <2> QED BY <2>2, <2>3 DEF puts
<1>4. DropPuts \in Pending("evict") /\ RedeemPuts \in Pending("redeem")
  BY DEF Pending, DropPuts, RedeemPuts
<1> QED BY <1>1, <1>2, <1>3, <1>4

Begins ==
    \/ \E w \in Wallets, c \in Ciphertexts : BeginSubmit(w, "Application", mem.current_epoch, c)
    \/ \E w \in Wallets, e \in 1..MaxEpoch, c \in Ciphertexts : BeginSubmit(w, "Commit", e, c)
    \/ \E j \in Others, c \in Ciphertexts : BeginOnboard(j, c)
    \/ \E r \in Others, e \in 1..MaxEpoch, c \in Ciphertexts : BeginOffboard(r, e, c)

(* Submit, onboard and offboard each begin that way. *)
LEMMA BeginsStart ==
    ASSUME StoreType, Begins
    PROVE  \E env : Starts(env)
<1>0. mem.next_seq \in Nat /\ mem.current_epoch \in Nat /\ mem.members \subseteq Wallets
  BY DEF StoreType, MemoryType
<1>1. ASSUME NEW w \in Wallets, NEW k \in {"Application", "Commit"}, NEW e \in Nat,
             NEW c \in Ciphertexts, BeginSubmit(w, k, e, c)
      PROVE  \E env : Starts(env)
  <2> DEFINE env == Env(k, e, w, c, mem.next_seq)
  <2>1. env \in Envelope /\ env.seq = mem.next_seq /\ env.kind = k /\ env.epoch = e
    BY <1>0, EnvIsEnvelope
  <2>2. /\ Idle /\ acked' = acked /\ mem' = Appended(mem, env)
        /\ Begin("submit", w, env, FALSE, SubmitPuts)
        /\ k = "Commit" => e \notin DOMAIN mem.accepted_commit
    BY <1>1 DEF BeginSubmit, MayBegin, NextCommit
  <2> HIDE DEF env
  <2>3. [mem EXCEPT !.members = mem.members] = mem
    BY DEF StoreType, MemoryType, Memory
  <2>4. AppliedEffect(mem, mem.members, env)
    <3>1. AppliedEffect([mem EXCEPT !.members = mem.members], mem.members, env)
      BY <2>1, AppendEffect
    <3> QED BY <2>3, <3>1
  <2>5. /\ call' \in CallRecord /\ call'.op = "submit" /\ call'.env = env
        /\ todo' = SubmitPuts /\ disk' = disk /\ up' = up /\ failures' = failures
    <3>1. env \in Envelope \cup {NoEnv} /\ FALSE \in BOOLEAN
      BY <2>1
    <3>2. Begin("submit", w, env, FALSE, SubmitPuts)
      BY <2>2
    <3> QED BY <3>1, <3>2, CallIsRecord
  <2>6. Starts(env)
    BY <1>0, <2>1, <2>2, <2>4, <2>5, FirstPuts DEF Starts, AppliedEffect, Sends
  <2> QED BY <2>6
<1>2. ASSUME NEW j \in Others, NEW c \in Ciphertexts, BeginOnboard(j, c)
      PROVE  \E env : Starts(env)
  <2> DEFINE env == Env("Welcome", mem.current_epoch, Admin, c, mem.next_seq)
             M == mem.members \cup {j}
             newly == j \notin mem.members
  <2>1. env \in Envelope /\ env.seq = mem.next_seq /\ env.kind = "Welcome"
    BY <1>0, EnvIsEnvelope DEF Wallets
  <2>2. /\ Idle /\ acked' = acked /\ mem' = Appended([mem EXCEPT !.members = M], env)
        /\ Begin("onboard", j, env, newly, OnboardPuts)
    <3>1. [mem EXCEPT !.members = @ \cup {j}] = [mem EXCEPT !.members = M]
      BY DEF StoreType, MemoryType, Memory
    <3> QED BY <1>2, <3>1 DEF BeginOnboard, MayBegin
  <2>3. M \subseteq Wallets /\ newly \in BOOLEAN /\ j \in Wallets
    BY <1>0 DEF Wallets
  <2> HIDE DEF env, M, newly
  <2>4. AppliedEffect([mem EXCEPT !.members = M], M, env)
    BY <2>1, AppendEffect
  <2>5. /\ call' \in CallRecord /\ call'.op = "onboard" /\ call'.env = env
        /\ todo' = OnboardPuts /\ disk' = disk /\ up' = up /\ failures' = failures
    BY <2>1, <2>2, <2>3, CallIsRecord
  <2>6. Starts(env)
    BY <2>1, <2>2, <2>3, <2>4, <2>5, FirstPuts DEF Starts, AppliedEffect, Sends
  <2> QED BY <2>6
<1>3. ASSUME NEW r \in Others, NEW e \in Nat, NEW c \in Ciphertexts, BeginOffboard(r, e, c)
      PROVE  \E env : Starts(env)
  <2> DEFINE env == Env("Commit", e, Admin, c, mem.next_seq)
             puts == SubmitPuts \o <<"drop">> \o DropPuts
  <2>1. env \in Envelope /\ env.seq = mem.next_seq /\ env.kind = "Commit" /\ env.epoch = e
    <3>1. Admin \in Wallets
      BY DEF Wallets
    <3> QED BY <1>0, <3>1, EnvIsEnvelope
  <2>2. /\ Idle /\ acked' = acked /\ mem' = Appended(mem, env)
        /\ Begin("offboard", r, env, FALSE, puts)
        /\ e \notin DOMAIN mem.accepted_commit
    BY <1>3 DEF BeginOffboard, MayBegin, NextCommit
  <2>3. puts \in Pending("offboard") /\ puts[1] = "envelope" /\ Len(puts) = 7 /\ r \in Wallets
    BY FirstPuts DEF Wallets
  <2> HIDE DEF env, puts
  <2>4. [mem EXCEPT !.members = mem.members] = mem
    BY DEF StoreType, MemoryType, Memory
  <2>5. AppliedEffect(mem, mem.members, env)
    <3>1. AppliedEffect([mem EXCEPT !.members = mem.members], mem.members, env)
      BY <2>1, AppendEffect
    <3> QED BY <2>4, <3>1
  <2>6. /\ call' \in CallRecord /\ call'.op = "offboard" /\ call'.env = env
        /\ todo' = puts /\ disk' = disk /\ up' = up /\ failures' = failures
    BY <2>1, <2>2, <2>3, CallIsRecord
  <2>7. Starts(env)
    <3>1. /\ mem'.members \subseteq Wallets /\ mem'.next_seq = mem.next_seq + 1
          /\ mem' = Memory(Snapshot(mem'), Append(mem.log, env), mem.consumed, mem.referrals, mem.audit)
      BY <1>0, <2>2, <2>5 DEF AppliedEffect
    <3>2. /\ mem'.current_epoch = IF env.kind = "Commit" THEN env.epoch ELSE mem.current_epoch
          /\ mem'.accepted_commit = IF env.kind = "Commit"
                THEN Put(mem.accepted_commit, env.epoch, env.ct) ELSE mem.accepted_commit
      BY <2>2, <2>5 DEF AppliedEffect
    <3>3. /\ call'.op \in Sends /\ todo' \in Pending(call'.op)
          /\ todo'[1] = "envelope" /\ Len(todo') > 2
      <4>1. "offboard" \in Sends
        BY DEF Sends
      <4>2. todo' \in Pending("offboard") /\ todo'[1] = "envelope" /\ Len(todo') = 7
        BY <2>3, <2>6
      <4> QED BY <2>6, <4>1, <4>2
    <3> QED BY <2>1, <2>2, <2>6, <3>1, <3>2, <3>3 DEF Starts
  <2> QED BY <2>7
<1>4. \A e \in 1..MaxEpoch : e \in Nat
  OBVIOUS
<1> QED BY <1>0, <1>1, <1>2, <1>3, <1>4 DEF Begins

-----------------------------------------------------------------------------
(* What one put does to memory, to the disk and to the call. *)
Record == <<todo[1], call.who, call.env.seq>>

Puts ==
    /\ up = "up" /\ up' = "up" /\ failures' = failures /\ viaToken' = viaToken
    /\ todo # <<>> /\ Progress(call.op, todo) /\ todo[1] # "drop"
    /\ mem' = Memory(Snapshot(mem), mem.log, mem.consumed, mem.referrals,
                     IF todo[1] \in AuditPuts THEN Append(mem.audit, Record) ELSE mem.audit)
    /\ disk' = [envelopes |-> IF todo[1] = "envelope" THEN Put(disk.envelopes, call.env.seq, call.env)
                                                      ELSE disk.envelopes,
                group |-> IF todo[1] = "group" THEN Snapshot(mem) ELSE disk.group,
                consumed |-> IF todo[1] = "invite" THEN mem.consumed ELSE disk.consumed,
                referrals |-> disk'.referrals,
                audit |-> IF todo[1] \in AuditPuts THEN Put(disk.audit, Len(mem.audit), Record)
                                                   ELSE disk.audit]
    /\ Len(todo) # 1 => call' = call /\ todo' = Tail(todo) /\ acked' = acked /\ gone' = gone
    /\ Len(todo) = 1 =>
          /\ call' = NoCall /\ todo' = <<>>
          /\ acked' = IF call.op \in Sends THEN acked \cup {AsAcked(call.env)} ELSE acked
          /\ gone' = IF call.op \in {"offboard", "evict"} THEN gone \cup {call.who} ELSE gone

(* The step of a put does that. *)
LEMMA PutEffect ==
    ASSUME StoreType, PutOk
    PROVE  Puts
<1>1. /\ up = "up" /\ up' = up /\ failures' = failures /\ viaToken' = viaToken /\ todo # <<>>
      /\ mem' = Chained(Head(todo)) /\ disk' = Written(Head(todo)) /\ Head(todo) # "drop"
  BY DEF PutOk
<1>2. Progress(call.op, todo) /\ Head(todo) = todo[1]
  <2>1. todo \in Pending(call.op)
    BY DEF StoreType, CallType
  <2>2. Progress(call.op, todo)
    BY <1>1, <2>1, PutsInOrder
  <2> QED BY <2>2 DEF Progress
<1>3. mem' = Memory(Snapshot(mem), mem.log, mem.consumed, mem.referrals,
                    IF todo[1] \in AuditPuts THEN Append(mem.audit, Record) ELSE mem.audit)
  BY <1>1, <1>2 DEF StoreType, MemoryType, Memory, Snapshot, Chained, Record
<1>4. disk' = [envelopes |-> IF todo[1] = "envelope" THEN Put(disk.envelopes, call.env.seq, call.env)
                                                     ELSE disk.envelopes,
               group |-> IF todo[1] = "group" THEN Snapshot(mem) ELSE disk.group,
               consumed |-> IF todo[1] = "invite" THEN mem.consumed ELSE disk.consumed,
               referrals |-> disk'.referrals,
               audit |-> IF todo[1] \in AuditPuts THEN Put(disk.audit, Len(mem.audit), Record)
                                                  ELSE disk.audit]
  <2>1. disk' = Written(todo[1]) /\ todo[1] \in {"envelope", "group", "invite", "referral"} \cup AuditPuts
    BY <1>1, <1>2 DEF Progress
  <2>2. CASE todo[1] = "envelope"
    BY <2>1, <2>2 DEF StoreType, DiskType, Written, EnvelopeKey, AuditPuts
  <2>3. CASE todo[1] = "group"
    BY <2>1, <2>3 DEF StoreType, DiskType, Written, AuditPuts
  <2>4. CASE todo[1] = "invite"
    BY <2>1, <2>4 DEF StoreType, DiskType, Written, AuditPuts
  <2>5. CASE todo[1] = "referral"
    BY <2>1, <2>5 DEF StoreType, DiskType, Written, AuditPuts
  <2>6. CASE todo[1] \in AuditPuts
    BY <2>1, <2>6 DEF StoreType, DiskType, Written, AuditPuts, AuditKey, Record
  <2> QED BY <2>1, <2>2, <2>3, <2>4, <2>5, <2>6
<1>5. Len(todo) # 1 => call' = call /\ todo' = Tail(todo) /\ acked' = acked /\ gone' = gone
  BY DEF PutOk
<1>6. Len(todo) = 1 =>
          /\ call' = NoCall /\ todo' = <<>>
          /\ acked' = IF call.op \in Sends THEN acked \cup {AsAcked(call.env)} ELSE acked
          /\ gone' = IF call.op \in {"offboard", "evict"} THEN gone \cup {call.who} ELSE gone
  BY DEF PutOk, Return, Sends
<1> QED BY <1>1, <1>2, <1>3, <1>4, <1>5, <1>6 DEF Puts

(* A failed put: what it had changed in memory stays, and the call is over. *)
LEMMA FailureEffect ==
    ASSUME StoreType, PutFails
    PROVE  /\ up = "up" /\ up' = "up" /\ disk' = disk /\ viaToken' = viaToken
           /\ failures' = failures + 1 /\ call' = NoCall /\ todo' = <<>>
           /\ acked' = acked /\ gone' = gone
           /\ mem' = Memory(Snapshot(mem'), mem.log, mem.consumed, mem.referrals, mem'.audit)
           /\ mem'.members \subseteq mem.members /\ mem'.current_epoch = mem.current_epoch
           /\ mem'.next_seq = mem.next_seq
           /\ mem'.audit \in Seq(AuditRecord)
<1>1. /\ up = "up" /\ up' = up /\ disk' = disk /\ viaToken' = viaToken /\ failures' = failures + 1
      /\ todo # <<>> /\ Return(FALSE)
      /\ \E undo : mem' = [Chained(Head(todo)) EXCEPT !.members = @ \ undo]
  BY DEF PutFails
<1>2. call' = NoCall /\ todo' = <<>> /\ acked' = acked /\ gone' = gone
  BY <1>1 DEF Return
<1>3. Progress(call.op, todo) /\ Head(todo) = todo[1]
  <2>1. todo \in Pending(call.op)
    BY DEF StoreType, CallType
  <2>2. Progress(call.op, todo)
    BY <1>1, <2>1, PutsInOrder
  <2> QED BY <2>2 DEF Progress
<1>4. Record \in AuditRecord \/ todo[1] \notin AuditPuts
  BY <1>3 DEF Record, AuditRecord, StoreType, CallType, CallRecord, NoEnv, Env, Envelope
<1>5. PICK undo : mem' = [Chained(todo[1]) EXCEPT !.members = @ \ undo]
  BY <1>1, <1>3
<1> DEFINE chained == Chained(todo[1])
<1>6. /\ chained = Memory(Snapshot(mem), mem.log, mem.consumed, mem.referrals, chained.audit)
      /\ chained.audit = IF todo[1] \in AuditPuts THEN Append(mem.audit, Record) ELSE mem.audit
  BY DEF StoreType, MemoryType, Memory, Snapshot, Chained, Record
<1>7. chained.audit \in Seq(AuditRecord)
  <2>1. mem.audit \in Seq(AuditRecord)
    BY DEF StoreType, MemoryType
  <2> HIDE DEF chained
  <2> QED BY <1>4, <1>6, <2>1
<1>8. mem' = [chained EXCEPT !.members = @ \ undo]
  BY <1>5
<1> HIDE DEF chained
<1>9. /\ mem' = Memory(Snapshot(mem'), mem.log, mem.consumed, mem.referrals, mem'.audit)
      /\ mem'.members = mem.members \ undo /\ mem'.current_epoch = mem.current_epoch
      /\ mem'.next_seq = mem.next_seq /\ mem'.audit = chained.audit
  <2>1. chained = [members |-> mem.members, current_epoch |-> mem.current_epoch,
                   next_seq |-> mem.next_seq, accepted_commit |-> mem.accepted_commit,
                   log |-> mem.log, consumed |-> mem.consumed, referrals |-> mem.referrals,
                   audit |-> chained.audit]
    BY <1>6 DEF Memory, Snapshot
  <2>2. mem' = [members |-> mem.members \ undo, current_epoch |-> mem.current_epoch,
                next_seq |-> mem.next_seq, accepted_commit |-> mem.accepted_commit,
                log |-> mem.log, consumed |-> mem.consumed, referrals |-> mem.referrals,
                audit |-> chained.audit]
    BY <1>8, <2>1
  <2> QED BY <2>2 DEF Memory, Snapshot
<1> QED BY <1>1, <1>2, <1>7, <1>9

(* open() after a crash: memory is what the disk holds. *)
LEMMA OpenEffect ==
    ASSUME StoreType, Open
    PROVE  /\ up # "up" /\ up' \in {"up", "refused"} /\ call' = call /\ todo' = todo
           /\ disk' = disk /\ failures' = failures /\ acked' = acked /\ gone' = gone
           /\ viaToken' = viaToken
           /\ ChainVerifies => up' = "up"
           /\ up' = "up" =>
                mem' = Memory(disk.group, InKeyOrder(disk.envelopes), disk.consumed,
                              InKeyOrder(disk.referrals), InKeyOrder(disk.audit))
           /\ up' # "up" => mem' = mem
  BY DEF Open

-----------------------------------------------------------------------------
(* The invariant holds of a service that has just created its group. *)
LEMMA InitStore == Init => StoreInv
<1> SUFFICES ASSUME Init PROVE StoreInv
  OBVIOUS
<1>1. /\ mem = Booted /\ up = "up" /\ call = NoCall /\ todo = <<>> /\ failures = 0
      /\ acked = {} /\ gone = {} /\ viaToken = {}
      /\ disk = [envelopes |-> Empty, group |-> Fresh, consumed |-> FALSE,
                 referrals |-> Empty, audit |-> Put(Empty, 0, Genesis)]
  BY DEF Init
<1>2. DOMAIN Empty = {} /\ DOMAIN disk.audit = {0} /\ disk.audit[0] = Genesis
  BY <1>1 DEF Empty, Put
<1>3. Genesis \in AuditRecord
  BY DEF Genesis, AuditRecord, Wallets
<1>4. StoreType
  <2>1. MemoryType
    <3>1. <<>> \in Seq(Envelope) /\ <<Genesis>> \in Seq(AuditRecord)
      BY <1>3
    <3> QED BY <1>1, <3>1 DEF MemoryType, Memory, Snapshot, Booted, Fresh, Wallets
  <2>2. DiskType
    <3>1. IsFiniteSet({}) /\ IsFiniteSet({0})
      BY FS_EmptySet, FS_Singleton
    <3>2. /\ disk = [envelopes |-> disk.envelopes, group |-> disk.group, consumed |-> disk.consumed,
                      referrals |-> disk.referrals, audit |-> disk.audit]
          /\ disk.envelopes = Empty /\ disk.group = Fresh /\ disk.consumed = FALSE
      BY <1>1
    <3>3. /\ Fresh = Snapshot(Fresh) /\ Fresh.members \subseteq Wallets
          /\ Fresh.current_epoch \in Nat /\ Fresh.next_seq \in Nat
      BY DEF Snapshot, Fresh, Wallets
    <3> QED BY <1>2, <1>3, <3>1, <3>2, <3>3 DEF DiskType
  <2>3. CallType
    BY <1>1 DEF CallType, NoCall, CallRecord, Pending, Sends, Wallets
  <2> QED BY <2>1, <2>2, <2>3 DEF StoreType
<1>5. AckedInv
  BY <1>1 DEF AckedInv, AckedDurable, NoCall, Sends, Booted, Memory, Fresh
<1>6. RemovalInv
  BY <1>1 DEF RemovalInv, RemovalSticks, NoCall
<1>7. RedeemInv
  BY <1>1 DEF RedeemInv, Unmarked, NoCall, Booted, Memory
<1>8. ChainInv
  <2>1. Len(mem.audit) = 1
    BY <1>1 DEF Booted, Memory
  <2> QED BY <1>1, <1>2, <2>1 DEF ChainInv
<1>9. ReplayInv
  BY <1>1, <1>2 DEF ReplayInv, AcceptedReplayable, Booted, Memory, Fresh
<1> QED BY <1>4, <1>5, <1>6, <1>7, <1>8, <1>9 DEF StoreInv

-----------------------------------------------------------------------------
(* The Commit a replay is answered with has a sequence number. *)
LEMMA PriorSeqIsNat ==
    ASSUME StoreType, NEW e, CommitAt(e) # {}
    PROVE  PriorSeq(e) \in Nat
<1>1. mem.log \in Seq(Envelope) /\ CommitAt(e) \subseteq DOMAIN mem.log
  BY DEF StoreType, MemoryType, CommitAt
<1>2. CommitAt(e) \in SUBSET Nat
  BY <1>1
<1>3. \E i \in CommitAt(e) : \A j \in CommitAt(e) : i <= j
  BY <1>2, LeastElement
<1> DEFINE least == CHOOSE i \in CommitAt(e) : \A j \in CommitAt(e) : i <= j
<1>4. least \in CommitAt(e)
  BY <1>3
<1>5. least \in DOMAIN mem.log
  BY <1>1, <1>4
<1> HIDE DEF least
<1>6. mem.log[least] \in Envelope
  BY <1>1, <1>5
<1>7. mem.log[least].seq \in Nat
  BY <1>6 DEF Envelope
<1> QED BY <1>7 DEF PriorSeq, least

(* An offboard with a Commit already accepted goes straight to the roster drop. *)
LEMMA EvictEffect ==
    ASSUME StoreType, NEW r \in Others, NEW e \in Nat, NEW c \in Ciphertexts,
           BeginOffboardReplay(r, e, c)
    PROVE  /\ Idle /\ up' = up /\ disk' = disk /\ failures' = failures
           /\ acked' = acked /\ gone' = gone /\ viaToken' = viaToken
           /\ mem' = Memory(Snapshot(mem'), mem.log, mem.consumed, mem.referrals, mem.audit)
           /\ mem'.members = mem.members \ {r} /\ mem'.current_epoch = mem.current_epoch
           /\ mem'.next_seq = mem.next_seq /\ mem'.accepted_commit = mem.accepted_commit
           /\ call' \in CallRecord /\ call'.op = "evict" /\ call'.who = r /\ todo' = DropPuts
<1>1. /\ Idle /\ acked' = acked /\ gone' = gone /\ viaToken' = viaToken
      /\ mem' = [mem EXCEPT !.members = @ \ {r}] /\ CommitAt(e) # {}
  BY DEF BeginOffboardReplay, MayBegin, Replayable
<1> DEFINE env == Env("Commit", e, Admin, c, PriorSeq(e))
<1>2. env \in Envelope
  BY <1>1, PriorSeqIsNat, EnvIsEnvelope DEF Wallets
<1>3. Begin("evict", r, env, FALSE, DropPuts)
  BY DEF BeginOffboardReplay
<1> HIDE DEF env
<1>4. r \in Wallets /\ FALSE \in BOOLEAN
  BY DEF Wallets
<1>5. /\ call' \in CallRecord /\ call'.op = "evict" /\ call'.who = r /\ todo' = DropPuts
      /\ disk' = disk /\ up' = up /\ failures' = failures
  BY <1>2, <1>3, <1>4, CallIsRecord
<1>6. /\ mem' = Memory(Snapshot(mem'), mem.log, mem.consumed, mem.referrals, mem.audit)
      /\ mem'.members = mem.members \ {r} /\ mem'.current_epoch = mem.current_epoch
      /\ mem'.next_seq = mem.next_seq /\ mem'.accepted_commit = mem.accepted_commit
  BY <1>1 DEF StoreType, MemoryType, Memory, Snapshot
<1> QED BY <1>1, <1>5, <1>6

(* A redeem uses the invite and joins in memory. *)
LEMMA RedeemEffect ==
    ASSUME StoreType, NEW j \in Others, BeginRedeem(j)
    PROVE  /\ Idle /\ ~mem.consumed /\ up' = up /\ disk' = disk /\ failures' = failures
           /\ acked' = acked /\ gone' = gone \ {j}
           /\ viaToken' = IF j \in mem.members \cup disk.group.members
                          THEN viaToken ELSE viaToken \cup {j}
           /\ mem' = Memory(Snapshot(mem'), mem.log, TRUE, mem'.referrals, mem.audit)
           /\ mem'.members = mem.members \cup {j} /\ mem'.current_epoch = mem.current_epoch
           /\ mem'.next_seq = mem.next_seq /\ mem'.accepted_commit = mem.accepted_commit
           /\ call' \in CallRecord /\ call'.op = "redeem" /\ call'.who = j /\ todo' = RedeemPuts
<1>1. /\ Idle /\ ~mem.consumed /\ acked' = acked /\ gone' = gone \ {j}
      /\ viaToken' = IF j \in mem.members \cup disk.group.members
                     THEN viaToken ELSE viaToken \cup {j}
      /\ mem' = [mem EXCEPT !.members = @ \cup {j}, !.consumed = TRUE, !.referrals = Append(@, j)]
  BY DEF BeginRedeem, MayBegin
<1>2. Begin("redeem", j, NoEnv, FALSE, RedeemPuts) /\ j \in Wallets /\ FALSE \in BOOLEAN
  BY DEF BeginRedeem, Wallets
<1>3. /\ call' \in CallRecord /\ call'.op = "redeem" /\ call'.who = j /\ todo' = RedeemPuts
      /\ disk' = disk /\ up' = up /\ failures' = failures
  BY <1>2, CallIsRecord
<1>4. /\ mem' = Memory(Snapshot(mem'), mem.log, TRUE, mem'.referrals, mem.audit)
      /\ mem'.members = mem.members \cup {j} /\ mem'.current_epoch = mem.current_epoch
      /\ mem'.next_seq = mem.next_seq /\ mem'.accepted_commit = mem.accepted_commit
  BY <1>1 DEF StoreType, MemoryType, Memory, Snapshot
<1> QED BY <1>1, <1>3, <1>4

(* end_membership: the roster loses the wallet in memory. *)
LEMMA DropEffect ==
    ASSUME StoreType, Drop
    PROVE  /\ up = "up" /\ up' = up /\ disk' = disk /\ failures' = failures /\ call' = call
           /\ acked' = acked /\ gone' = gone /\ viaToken' = viaToken
           /\ todo # <<>> /\ todo[1] = "drop" /\ Progress(call.op, todo) /\ todo' = Tail(todo)
           /\ mem' = Memory(Snapshot(mem'), mem.log, mem.consumed, mem.referrals, mem.audit)
           /\ mem'.members = mem.members \ {call.who} /\ mem'.current_epoch = mem.current_epoch
           /\ mem'.next_seq = mem.next_seq /\ mem'.accepted_commit = mem.accepted_commit
<1>1. /\ up = "up" /\ up' = up /\ disk' = disk /\ failures' = failures /\ call' = call
      /\ acked' = acked /\ gone' = gone /\ viaToken' = viaToken
      /\ todo # <<>> /\ Head(todo) = "drop" /\ todo' = Tail(todo)
      /\ mem' = [mem EXCEPT !.members = @ \ {call.who}]
  BY DEF Drop
<1>2. Progress(call.op, todo) /\ Head(todo) = todo[1]
  <2>1. todo \in Pending(call.op)
    BY DEF StoreType, CallType
  <2>2. Progress(call.op, todo)
    BY <1>1, <2>1, PutsInOrder
  <2> QED BY <2>2 DEF Progress
<1>3. /\ mem' = Memory(Snapshot(mem'), mem.log, mem.consumed, mem.referrals, mem.audit)
      /\ mem'.members = mem.members \ {call.who} /\ mem'.current_epoch = mem.current_epoch
      /\ mem'.next_seq = mem.next_seq /\ mem'.accepted_commit = mem.accepted_commit
  BY <1>1 DEF StoreType, MemoryType, Memory, Snapshot
<1> QED BY <1>1, <1>2, <1>3

(* The steps, by what they do to the store. *)
LEMMA StepKinds ==
    ASSUME StoreType, [Next]_vars
    PROVE  \/ Begins
           \/ \E r \in Others, e \in Nat, c \in Ciphertexts : BeginOffboardReplay(r, e, c)
           \/ \E j \in Others : BeginRedeem(j)
           \/ PutOk \/ Drop \/ PutFails \/ Crash \/ Open
           \/ UNCHANGED <<mem, disk, up, call, todo, failures, acked, gone, viaToken>>
<1>1. \A e \in 1..MaxEpoch : e \in Nat
  OBVIOUS
<1>2. CASE \E w \in Wallets, e \in 1..MaxEpoch, c \in Ciphertexts : Replay(w, e, c)
  BY <1>2 DEF Replay
<1>3. CASE UNCHANGED vars
  BY <1>3 DEF vars
<1>4. CASE Begins \/ (\E r \in Others, e \in 1..MaxEpoch, c \in Ciphertexts : BeginOffboardReplay(r, e, c))
        \/ (\E j \in Others : BeginRedeem(j))
        \/ PutOk \/ Drop \/ PutFails \/ Crash \/ Open
  BY <1>1, <1>4
<1> QED BY <1>2, <1>3, <1>4 DEF Next, Begins

-----------------------------------------------------------------------------
(* A call in progress keeps its type. *)
LEMMA CallTypeSame ==
    ASSUME StoreType, up' = up, failures' \in Nat, call' \in CallRecord, todo' \in Pending(call'.op),
           up = "up", call'.op # "none", call'.op \in Sends => call'.env \in Envelope
    PROVE  CallType'
  BY DEF StoreType, CallType

(* So does a call that is over. *)
LEMMA CallTypeOver ==
    ASSUME StoreType, up' \in {"up", "down", "refused"}, failures' \in Nat, call' = NoCall, todo' = <<>>
    PROVE  CallType'
<1>1. NoCall \in CallRecord /\ NoCall.op = "none" /\ <<>> \in Pending("none")
  BY DEF NoCall, CallRecord, Pending, Wallets
<1>2. "none" \notin Sends
  BY DEF Sends
<1> QED BY <1>1, <1>2 DEF CallType

(* The record a put of the audit chain appends is an audit record. *)
LEMMA RecordType ==
    ASSUME StoreType, todo[1] \in AuditPuts
    PROVE  Record \in AuditRecord
<1>1. call.who \in Wallets /\ call.env \in Envelope \cup {NoEnv}
  BY DEF StoreType, CallType, CallRecord
<1>2. call.env.seq \in Nat
  BY <1>1 DEF Envelope, NoEnv, Env
<1> QED BY <1>1, <1>2 DEF Record, AuditRecord

(* A put of a typed value under a number leaves a column family typed. *)
LEMMA PutKeepsType ==
    ASSUME NEW f, NEW S, NEW k \in Nat, NEW v \in S, IsFiniteSet(DOMAIN f), DOMAIN f \subseteq Nat,
           \A x \in DOMAIN f : f[x] \in S
    PROVE  /\ IsFiniteSet(DOMAIN Put(f, k, v)) /\ DOMAIN Put(f, k, v) \subseteq Nat
           /\ \A x \in DOMAIN Put(f, k, v) : Put(f, k, v)[x] \in S
<1>1. DOMAIN Put(f, k, v) = DOMAIN f \cup {k}
  BY DEF Put
<1>2. \A x \in DOMAIN f \cup {k} : Put(f, k, v)[x] = IF x = k THEN v ELSE f[x]
  BY DEF Put
<1>3. IsFiniteSet(DOMAIN f \cup {k})
  BY FS_AddElement
<1> QED BY <1>1, <1>2, <1>3

(* Every step keeps the types, and the puts still due are those of the method. *)
LEMMA TypeStep ==
    ASSUME StoreType, [Next]_vars
    PROVE  StoreType'
<1>0. /\ MemoryType /\ DiskType /\ CallType
      /\ failures \in Nat /\ failures + 1 \in Nat /\ call \in CallRecord /\ todo \in Pending(call.op)
      /\ up \in {"up", "down", "refused"}
  BY DEF StoreType, CallType
<1>0a. disk' = disk => DiskType'
  BY <1>0 DEF DiskType
<1>1. CASE Begins
  <2>1. PICK env : Starts(env)
    BY <1>1, BeginsStart
  <2>2. MemoryType'
    <3>1. mem'.log = Append(mem.log, env) /\ mem'.consumed = mem.consumed /\ mem'.audit = mem.audit
          /\ mem'.referrals = mem.referrals
      BY <2>1 DEF Starts, Memory
    <3>2. mem'.current_epoch \in Nat /\ mem'.next_seq \in Nat
      BY <1>0, <2>1 DEF Starts, MemoryType, Envelope
    <3>3. mem'.log \in Seq(Envelope)
      <4>1. env \in Envelope /\ mem.log \in Seq(Envelope)
        BY <1>0, <2>1 DEF Starts, MemoryType
      <4> QED BY <3>1, <4>1
    <3> QED BY <1>0, <2>1, <3>1, <3>2, <3>3 DEF Starts, MemoryType
  <2>3. CallType'
    BY <1>0, <2>1, CallTypeSame DEF Starts, Idle, Sends
  <2> QED BY <1>0a, <2>1, <2>2, <2>3 DEF Starts, StoreType
<1>2. CASE \E r \in Others, e \in Nat, c \in Ciphertexts : BeginOffboardReplay(r, e, c)
  <2>1. PICK r \in Others :
          /\ Idle /\ up' = up /\ disk' = disk /\ failures' = failures
          /\ mem' = Memory(Snapshot(mem'), mem.log, mem.consumed, mem.referrals, mem.audit)
          /\ mem'.members = mem.members \ {r} /\ mem'.current_epoch = mem.current_epoch
          /\ mem'.next_seq = mem.next_seq
          /\ call' \in CallRecord /\ call'.op = "evict" /\ todo' = DropPuts
    BY <1>2, EvictEffect
  <2>2. MemoryType'
    <3>1. mem'.log = mem.log /\ mem'.consumed = mem.consumed /\ mem'.audit = mem.audit
          /\ mem'.referrals = mem.referrals
      BY <2>1 DEF Memory
    <3> QED BY <1>0, <2>1, <3>1 DEF MemoryType
  <2>3. CallType'
    BY <1>0, <2>1, CallTypeSame, FirstPuts DEF Idle, Sends
  <2> QED BY <1>0a, <2>1, <2>2, <2>3 DEF StoreType
<1>3. CASE \E j \in Others : BeginRedeem(j)
  <2>1. PICK j \in Others :
          /\ Idle /\ up' = up /\ disk' = disk /\ failures' = failures
          /\ mem' = Memory(Snapshot(mem'), mem.log, TRUE, mem'.referrals, mem.audit)
          /\ mem'.members = mem.members \cup {j} /\ mem'.current_epoch = mem.current_epoch
          /\ mem'.next_seq = mem.next_seq
          /\ call' \in CallRecord /\ call'.op = "redeem" /\ todo' = RedeemPuts
    BY <1>3, RedeemEffect
  <2>2. MemoryType'
    <3>1. mem'.log = mem.log /\ mem'.consumed = TRUE /\ mem'.audit = mem.audit
      BY <2>1 DEF Memory
    <3> QED BY <1>0, <2>1, <3>1 DEF MemoryType, Wallets
  <2>3. CallType'
    BY <1>0, <2>1, CallTypeSame, FirstPuts DEF Idle, Sends
  <2> QED BY <1>0a, <2>1, <2>2, <2>3 DEF StoreType
<1>4. CASE PutOk
  <2>1. Puts
    BY <1>4, PutEffect
  <2>2. MemoryType'
    <3>1. /\ mem'.log = mem.log /\ mem'.consumed = mem.consumed /\ mem'.members = mem.members
          /\ mem'.current_epoch = mem.current_epoch /\ mem'.next_seq = mem.next_seq
          /\ mem'.referrals = mem.referrals /\ Snapshot(mem') = Snapshot(mem)
          /\ mem'.audit = IF todo[1] \in AuditPuts THEN Append(mem.audit, Record) ELSE mem.audit
      BY <2>1 DEF Puts, Memory, Snapshot
    <3>2. mem'.audit \in Seq(AuditRecord)
      <4>1. mem.audit \in Seq(AuditRecord)
        BY <1>0 DEF MemoryType
      <4> QED BY <3>1, <4>1, RecordType
    <3>3. mem' = Memory(Snapshot(mem'), mem'.log, mem'.consumed, mem'.referrals, mem'.audit)
      BY <2>1, <3>1 DEF Puts
    <3> QED BY <1>0, <3>1, <3>2, <3>3 DEF MemoryType
  <2>3. DiskType'
    <3>1. todo[1] = "envelope" => call.env \in Envelope /\ call.env.seq \in Nat
      BY <1>0, <2>1 DEF Puts, Progress, CallType, Envelope
    <3>2. /\ IsFiniteSet(DOMAIN disk'.envelopes) /\ DOMAIN disk'.envelopes \subseteq Nat
          /\ \A k \in DOMAIN disk'.envelopes : disk'.envelopes[k] \in Envelope
      <4>1. disk'.envelopes = IF todo[1] = "envelope" THEN Put(disk.envelopes, call.env.seq, call.env)
                                                      ELSE disk.envelopes
        BY <2>1 DEF Puts
      <4>2. /\ IsFiniteSet(DOMAIN disk.envelopes) /\ DOMAIN disk.envelopes \subseteq Nat
            /\ \A k \in DOMAIN disk.envelopes : disk.envelopes[k] \in Envelope
        BY <1>0 DEF DiskType
      <4>3. CASE todo[1] = "envelope"
        <5>1. disk'.envelopes = Put(disk.envelopes, call.env.seq, call.env)
          BY <4>1, <4>3
        <5> DEFINE f == disk.envelopes
                   k == call.env.seq
                   v == call.env
        <5>2. k \in Nat /\ v \in Envelope /\ disk'.envelopes = Put(f, k, v)
          BY <3>1, <4>3, <5>1
        <5>3. IsFiniteSet(DOMAIN f) /\ DOMAIN f \subseteq Nat /\ \A x \in DOMAIN f : f[x] \in Envelope
          BY <4>2
        <5> HIDE DEF f, k, v
        <5> QED BY <5>2, <5>3, PutKeepsType
      <4> QED BY <4>1, <4>2, <4>3
    <3>3. /\ IsFiniteSet(DOMAIN disk'.audit) /\ DOMAIN disk'.audit \subseteq Nat
          /\ \A k \in DOMAIN disk'.audit : disk'.audit[k] \in AuditRecord
      <4>1. disk'.audit = IF todo[1] \in AuditPuts THEN Put(disk.audit, Len(mem.audit), Record)
                                                   ELSE disk.audit
        BY <2>1 DEF Puts
      <4>2. /\ IsFiniteSet(DOMAIN disk.audit) /\ DOMAIN disk.audit \subseteq Nat
            /\ \A k \in DOMAIN disk.audit : disk.audit[k] \in AuditRecord
            /\ Len(mem.audit) \in Nat
        BY <1>0 DEF DiskType, MemoryType
      <4> QED BY <4>1, <4>2, RecordType, PutKeepsType
    <3>4. /\ disk'.group = Snapshot(disk'.group) /\ disk'.group.members \subseteq Wallets
          /\ disk'.group.current_epoch \in Nat /\ disk'.group.next_seq \in Nat
      <4>1. disk'.group = IF todo[1] = "group" THEN Snapshot(mem) ELSE disk.group
        BY <2>1 DEF Puts
      <4>2. /\ Snapshot(mem) = Snapshot(Snapshot(mem)) /\ Snapshot(mem).members \subseteq Wallets
            /\ Snapshot(mem).current_epoch \in Nat /\ Snapshot(mem).next_seq \in Nat
        BY <1>0 DEF MemoryType, Snapshot
      <4> QED BY <1>0, <4>1, <4>2 DEF DiskType
    <3>5. /\ disk' = [envelopes |-> disk'.envelopes, group |-> disk'.group,
                      consumed |-> disk'.consumed, referrals |-> disk'.referrals,
                      audit |-> disk'.audit]
          /\ disk'.consumed \in BOOLEAN
      BY <1>0, <2>1 DEF Puts, DiskType, MemoryType
    <3> QED BY <3>2, <3>3, <3>4, <3>5 DEF DiskType
  <2>4. CallType'
    <3>1. CASE Len(todo) = 1
      BY <1>0, <2>1, <3>1, CallTypeOver DEF Puts
    <3>2. CASE Len(todo) # 1
      <4>1. Tail(todo) \in Pending(call.op) /\ call.op # "none"
        BY <1>0, <2>1, <3>2 DEF Puts, Progress, CallType, Pending
      <4> QED BY <1>0, <2>1, <3>2, <4>1, CallTypeSame DEF Puts, CallType
    <3> QED BY <3>1, <3>2
  <2> QED BY <2>2, <2>3, <2>4 DEF StoreType
<1>5. CASE Drop
  <2>1. /\ up = "up" /\ up' = up /\ disk' = disk /\ failures' = failures /\ call' = call
        /\ todo # <<>> /\ todo[1] = "drop" /\ Progress(call.op, todo) /\ todo' = Tail(todo)
        /\ mem' = Memory(Snapshot(mem'), mem.log, mem.consumed, mem.referrals, mem.audit)
        /\ mem'.members = mem.members \ {call.who} /\ mem'.current_epoch = mem.current_epoch
        /\ mem'.next_seq = mem.next_seq
    BY <1>5, DropEffect
  <2>2. MemoryType'
    <3>1. mem'.log = mem.log /\ mem'.consumed = mem.consumed /\ mem'.audit = mem.audit
          /\ mem'.referrals = mem.referrals
      BY <2>1 DEF Memory
    <3> QED BY <1>0, <2>1, <3>1 DEF MemoryType
  <2>3. CallType'
    <3>1. Tail(todo) \in Pending(call.op) /\ call.op # "none"
      BY <2>1 DEF Progress
    <3> QED BY <1>0, <2>1, <3>1, CallTypeSame DEF CallType
  <2> QED BY <1>0a, <2>1, <2>2, <2>3 DEF StoreType
<1>6. CASE PutFails
  <2>1. /\ up' = "up" /\ disk' = disk /\ failures' = failures + 1 /\ call' = NoCall /\ todo' = <<>>
        /\ mem' = Memory(Snapshot(mem'), mem.log, mem.consumed, mem.referrals, mem'.audit)
        /\ mem'.members \subseteq mem.members /\ mem'.current_epoch = mem.current_epoch
        /\ mem'.next_seq = mem.next_seq /\ mem'.audit \in Seq(AuditRecord)
    BY <1>6, FailureEffect
  <2>2. MemoryType'
    <3>1. mem'.log = mem.log /\ mem'.consumed = mem.consumed /\ mem'.referrals = mem.referrals
      BY <2>1 DEF Memory
    <3> QED BY <1>0, <2>1, <3>1 DEF MemoryType
  <2>3. CallType'
    BY <1>0, <2>1, CallTypeOver
  <2> QED BY <1>0a, <2>1, <2>2, <2>3 DEF StoreType
<1>7. CASE Crash
  <2>1. /\ up' = "down" /\ mem' = Booted /\ call' = NoCall /\ todo' = <<>>
        /\ disk' = disk /\ failures' = failures
    BY <1>7 DEF Crash
  <2>2. MemoryType'
    <3>1. <<>> \in Seq(Envelope) /\ <<Genesis>> \in Seq(AuditRecord)
      <4>1. Genesis \in AuditRecord
        BY DEF Genesis, AuditRecord, Wallets
      <4> QED BY <4>1
    <3> QED BY <2>1, <3>1 DEF MemoryType, Memory, Snapshot, Booted, Fresh, Wallets
  <2>3. CallType'
    BY <1>0, <2>1, CallTypeOver
  <2> QED BY <1>0a, <2>1, <2>2, <2>3 DEF StoreType
<1>8. CASE Open
  <2>1. /\ up # "up" /\ up' \in {"up", "refused"} /\ call' = call /\ todo' = todo
        /\ disk' = disk /\ failures' = failures
        /\ up' = "up" => mem' = Memory(disk.group, InKeyOrder(disk.envelopes), disk.consumed,
                                       InKeyOrder(disk.referrals), InKeyOrder(disk.audit))
        /\ up' # "up" => mem' = mem
    BY <1>8, OpenEffect
  <2>2. MemoryType'
    <3>1. CASE up' = "up"
      <4>1. /\ mem'.log = InKeyOrder(disk.envelopes) /\ mem'.audit = InKeyOrder(disk.audit)
            /\ mem'.consumed = disk.consumed /\ mem'.referrals = InKeyOrder(disk.referrals)
            /\ mem'.members = disk.group.members /\ mem'.current_epoch = disk.group.current_epoch
            /\ mem'.next_seq = disk.group.next_seq
            /\ mem'.accepted_commit = disk.group.accepted_commit
        BY <2>1, <3>1 DEF Memory
      <4>2. mem' = Memory(Snapshot(mem'), mem'.log, mem'.consumed, mem'.referrals, mem'.audit)
        BY <2>1, <3>1, <4>1 DEF Memory, Snapshot
      <4>3. mem'.log \in Seq(Envelope) /\ mem'.audit \in Seq(AuditRecord)
        BY <1>0, <4>1, ScanListsValues DEF DiskType
      <4> QED BY <1>0, <4>1, <4>2, <4>3 DEF DiskType, MemoryType
    <3>2. CASE up' # "up"
      BY <1>0, <2>1, <3>2 DEF MemoryType
    <3> QED BY <3>1, <3>2
  <2>3. call = NoCall /\ todo = <<>>
    BY <1>0, <2>1 DEF CallType, Pending
  <2>4. CallType'
    BY <1>0, <2>1, <2>3, CallTypeOver
  <2> QED BY <1>0a, <2>1, <2>2, <2>4 DEF StoreType
<1>9. CASE UNCHANGED <<mem, disk, up, call, todo, failures, acked, gone, viaToken>>
  BY <1>9 DEF StoreType, MemoryType, DiskType, CallType
<1> QED BY <1>1, <1>2, <1>3, <1>4, <1>5, <1>6, <1>7, <1>8, <1>9, StepKinds

-----------------------------------------------------------------------------
(* Memory and the disk agree on which sequence numbers are taken: what was  *)
(* answered Ok is never overwritten.                                        *)
LEMMA QuietAcked ==
    ASSUME AckedInv, disk' = disk, acked' = acked,
           up' = "up" => disk.group.next_seq <= mem'.next_seq,
           call'.op \notin Sends
    PROVE  AckedInv'
  BY DEF AckedInv, AckedDurable, OnDisk

(* Every step, a crash or a failed put too, keeps what was answered Ok. *)
LEMMA AckedStep ==
    ASSUME StoreType, AckedInv, [Next]_vars
    PROVE  AckedInv'
<1>0. /\ MemoryType /\ DiskType /\ CallType
      /\ mem.next_seq \in Nat /\ disk.group.next_seq \in Nat
      /\ up = "up" => disk.group.next_seq <= mem.next_seq
  BY DEF StoreType, MemoryType, DiskType, AckedInv
<1>0a. NoCall.op \notin Sends /\ "evict" \notin Sends /\ "redeem" \notin Sends
  BY DEF NoCall, Sends
<1>1. CASE Begins
  <2>1. PICK env : Starts(env)
    BY <1>1, BeginsStart
  <2>2. /\ disk' = disk /\ acked' = acked /\ up = "up" /\ mem'.next_seq = mem.next_seq + 1
        /\ call'.env.seq = mem.next_seq /\ call'.op \in Sends /\ todo'[1] = "envelope"
    BY <2>1 DEF Starts, Idle
  <2> QED BY <1>0, <2>2 DEF AckedInv, AckedDurable, OnDisk, Unsent
<1>2. CASE \E r \in Others, e \in Nat, c \in Ciphertexts : BeginOffboardReplay(r, e, c)
  <2>1. /\ Idle /\ disk' = disk /\ acked' = acked /\ mem'.next_seq = mem.next_seq /\ call'.op = "evict"
    BY <1>2, EvictEffect
  <2> QED BY <1>0, <1>0a, <2>1, QuietAcked DEF Idle
<1>3. CASE \E j \in Others : BeginRedeem(j)
  <2>1. /\ Idle /\ disk' = disk /\ acked' = acked /\ mem'.next_seq = mem.next_seq /\ call'.op = "redeem"
    BY <1>3, RedeemEffect
  <2> QED BY <1>0, <1>0a, <2>1, QuietAcked DEF Idle
<1>4. CASE PutOk
  <2>1. Puts
    BY <1>4, PutEffect
  <2>2. /\ up = "up" /\ mem'.next_seq = mem.next_seq
        /\ disk'.envelopes = IF todo[1] = "envelope" THEN Put(disk.envelopes, call.env.seq, call.env)
                                                     ELSE disk.envelopes
        /\ disk'.group.next_seq = IF todo[1] = "group" THEN mem.next_seq ELSE disk.group.next_seq
    BY <2>1 DEF Puts, Memory, Snapshot
  <2>3. disk.group.next_seq <= disk'.group.next_seq /\ disk'.group.next_seq <= mem'.next_seq
    BY <1>0, <2>2
  <2> DEFINE Kept(a) == a.seq \in DOMAIN disk'.envelopes /\ AsAcked(disk'.envelopes[a.seq]) = a
  <2>4. ASSUME NEW a, OnDisk(a), todo[1] = "envelope" => a.seq # call.env.seq
        PROVE  Kept(a)
    BY <2>2, <2>4 DEF OnDisk, Put
  <2>5. \A a \in acked : Kept(a) /\ a.seq < disk'.group.next_seq
    <3> SUFFICES ASSUME NEW a \in acked PROVE Kept(a) /\ a.seq < disk'.group.next_seq
      OBVIOUS
    <3>1. OnDisk(a) /\ a.seq < disk.group.next_seq
      BY DEF AckedInv, AckedDurable
    <3>2. a.seq \in Nat
      BY <1>0, <3>1 DEF OnDisk, DiskType
    <3>3. todo[1] = "envelope" => call.env.seq \in Nat /\ call.env.seq >= disk.group.next_seq
      BY <1>0, <2>1 DEF AckedInv, Unsent, Puts, Progress, CallType, Envelope
    <3>4. todo[1] = "envelope" => a.seq # call.env.seq
      BY <1>0, <3>1, <3>2, <3>3
    <3>5. a.seq < disk'.group.next_seq
      BY <1>0, <2>2, <2>3, <3>1, <3>2
    <3> QED BY <2>4, <3>1, <3>4, <3>5
  <2>6. ASSUME call.op \in Sends
        PROVE  /\ Kept(AsAcked(call.env))
               /\ ~(todo[1] = "envelope") /\ ~Uncovered => call.env.seq < disk.group.next_seq
               /\ call.env.seq < mem.next_seq /\ call.env.seq \in Nat
    <3>1. call.env.seq \in Nat /\ call.env.seq < mem.next_seq
      BY <1>0, <2>6 DEF AckedInv, CallType, Envelope
    <3>2. CASE todo[1] = "envelope"
      <4>1. disk'.envelopes = Put(disk.envelopes, call.env.seq, call.env)
        BY <2>2, <3>2
      <4>2. AsAcked(call.env).seq = call.env.seq
        BY DEF AsAcked
      <4>3. call.env.seq \in DOMAIN disk'.envelopes /\ disk'.envelopes[call.env.seq] = call.env
        BY <4>1 DEF Put
      <4> QED BY <3>1, <3>2, <4>2, <4>3
    <3>3. CASE todo[1] # "envelope"
      <4>1. OnDisk(AsAcked(call.env))
        BY <2>6, <3>3 DEF AckedInv, Unsent
      <4>2. Kept(AsAcked(call.env))
        BY <2>2, <3>3, <4>1 DEF OnDisk
      <4>3. ~Uncovered => call.env.seq < disk.group.next_seq
        BY <2>6, <3>3 DEF AckedInv, Unsent
      <4> QED BY <3>1, <4>2, <4>3
    <3> QED BY <3>2, <3>3
  <2>7. ASSUME call.op \in Sends, todo[1] # "envelope", todo[1] = "group" \/ ~Uncovered
        PROVE  call.env.seq < disk'.group.next_seq
    <3>1. CASE todo[1] = "group"
      BY <1>0, <2>2, <2>6, <2>7, <3>1
    <3>2. CASE todo[1] # "group"
      BY <1>0, <2>2, <2>6, <2>7, <3>2
    <3> QED BY <3>1, <3>2
  <2>8. CASE Len(todo) = 1
    <3>1. todo[1] # "envelope" /\ todo[1] # "group" /\ call' = NoCall
          /\ acked' = IF call.op \in Sends THEN acked \cup {AsAcked(call.env)} ELSE acked
      BY <2>1, <2>8 DEF Puts, Progress
    <3>2. call.op \in Sends => call.env.seq < disk'.group.next_seq
      BY <2>7, <3>1 DEF Uncovered
    <3>3. AsAcked(call.env).seq = call.env.seq
      BY DEF AsAcked
    <3>4. AckedDurable'
      <4> SUFFICES ASSUME NEW a \in acked' PROVE Kept(a) /\ a.seq < disk'.group.next_seq
        BY DEF AckedDurable, OnDisk
      <4>1. CASE a \in acked
        BY <2>5, <4>1
      <4>2. CASE a \notin acked
        <5>1. call.op \in Sends /\ a = AsAcked(call.env)
          BY <3>1, <4>2
        <5> QED BY <2>6, <3>2, <3>3, <5>1
      <4> QED BY <4>1, <4>2
    <3> QED BY <1>0a, <2>3, <3>1, <3>4 DEF AckedInv
  <2>9. CASE Len(todo) # 1
    <3>1. call' = call /\ todo' = Tail(todo) /\ acked' = acked
      BY <2>1, <2>9 DEF Puts
    <3>2. AckedDurable'
      BY <2>5, <3>1 DEF AckedDurable, OnDisk
    <3>3. ASSUME call.op \in Sends
          PROVE  /\ call.env.seq < mem'.next_seq
                 /\ ~Unsent' /\ Kept(AsAcked(call.env))
                 /\ ~Uncovered' => call.env.seq < disk'.group.next_seq
      <4>1. todo[1] # "envelope" => ~Unsent' /\ ~Uncovered'
        BY <2>1, <2>9, <3>1 DEF Puts, Progress, Unsent, Uncovered
      <4>2. todo[1] = "envelope" => ~Unsent' /\ Uncovered'
        BY <2>1, <2>9, <3>1, <3>3 DEF Puts, Progress, Unsent, Uncovered
      <4>3. todo[1] # "envelope" => call.env.seq < disk'.group.next_seq
        BY <2>7, <3>3 DEF Uncovered
      <4> QED BY <2>2, <2>6, <3>3, <4>1, <4>2, <4>3
    <3>4. Kept(AsAcked(call.env)) => OnDisk(AsAcked(call.env))'
      BY <3>1 DEF OnDisk
    <3> QED BY <2>3, <3>1, <3>2, <3>3, <3>4 DEF AckedInv
  <2> QED BY <2>8, <2>9
<1>5. CASE Drop
  <2>1. /\ up = "up" /\ disk' = disk /\ call' = call /\ acked' = acked
        /\ todo[1] = "drop" /\ todo # <<>> /\ Progress(call.op, todo) /\ todo' = Tail(todo)
        /\ mem'.next_seq = mem.next_seq
    BY <1>5, DropEffect
  <2>2. ~Unsent /\ ~Uncovered /\ ~Unsent' /\ ~Uncovered'
    BY <2>1 DEF Unsent, Uncovered, Progress
  <2> QED BY <1>0, <2>1, <2>2 DEF AckedInv, AckedDurable, OnDisk
<1>6. CASE PutFails
  <2>1. /\ up = "up" /\ disk' = disk /\ call' = NoCall /\ acked' = acked /\ mem'.next_seq = mem.next_seq
    BY <1>6, FailureEffect
  <2> QED BY <1>0, <1>0a, <2>1, QuietAcked
<1>7. CASE Crash
  <2>1. up' = "down" /\ disk' = disk /\ acked' = acked /\ call' = NoCall
    BY <1>7 DEF Crash
  <2> QED BY <1>0a, <2>1, QuietAcked
<1>8. CASE Open
  <2>1. /\ up # "up" /\ call' = call /\ disk' = disk /\ acked' = acked
        /\ up' = "up" => mem' = Memory(disk.group, InKeyOrder(disk.envelopes), disk.consumed,
                                       InKeyOrder(disk.referrals), InKeyOrder(disk.audit))
    BY <1>8, OpenEffect
  <2>2. up' = "up" => mem'.next_seq = disk.group.next_seq
    BY <2>1 DEF Memory
  <2>3. call'.op \notin Sends
    BY <1>0, <1>0a, <2>1 DEF CallType
  <2> QED BY <1>0, <2>1, <2>2, <2>3, QuietAcked
<1>9. CASE UNCHANGED <<mem, disk, up, call, todo, failures, acked, gone, viaToken>>
  BY <1>9 DEF AckedInv, AckedDurable, OnDisk, Unsent, Uncovered
<1> QED BY <1>1, <1>2, <1>3, <1>4, <1>5, <1>6, <1>7, <1>8, <1>9, StepKinds

-----------------------------------------------------------------------------
(* A wallet that is gone stays off the roster, in memory and on disk.       *)
LEMMA BeginsRoster ==
    ASSUME StoreType, Begins
    PROVE  /\ gone' \subseteq gone /\ gone' \cap mem'.members \subseteq gone \cap mem.members
           /\ viaToken' \subseteq viaToken
<1>1. ASSUME NEW w, NEW k, NEW e, NEW c, BeginSubmit(w, k, e, c)
      PROVE  gone' = gone /\ mem'.members = mem.members /\ viaToken' = viaToken
  BY <1>1 DEF BeginSubmit, Appended
<1>2. ASSUME NEW j \in Others, NEW c, BeginOnboard(j, c)
      PROVE  gone' = gone \ {j} /\ mem'.members = mem.members \cup {j} /\ viaToken' \subseteq viaToken
  <2>1. DOMAIN mem = {"members", "current_epoch", "next_seq", "accepted_commit", "log", "consumed",
                      "referrals", "audit"}
    <3>1. DOMAIN Memory(Snapshot(mem), mem.log, mem.consumed, mem.referrals, mem.audit)
            = {"members", "current_epoch", "next_seq", "accepted_commit", "log", "consumed",
               "referrals", "audit"}
      BY DEF Memory
    <3> QED BY <3>1 DEF StoreType, MemoryType
  <2> QED BY <1>2, <2>1 DEF BeginOnboard, Appended
<1>3. ASSUME NEW r, NEW e, NEW c, BeginOffboard(r, e, c)
      PROVE  gone' = gone /\ mem'.members = mem.members /\ viaToken' = viaToken
  BY <1>3 DEF BeginOffboard, Appended
<1> QED BY <1>1, <1>2, <1>3 DEF Begins

(* Every step keeps that, and what the roster drop has done so far. *)
LEMMA RemovalStep ==
    ASSUME StoreType, RemovalInv, [Next]_vars
    PROVE  RemovalInv'
<1>0. /\ gone \cap disk.group.members = {} /\ (up = "up" => gone \cap mem.members = {})
      /\ MemoryType /\ DiskType /\ CallType
  BY DEF RemovalInv, RemovalSticks, StoreType
<1>0a. NoCall.op \notin {"offboard", "evict"}
  BY DEF NoCall
<1>1. CASE Begins
  <2>1. PICK env : Starts(env)
    BY <1>1, BeginsStart
  <2>2. up = "up" /\ disk' = disk /\ todo'[1] = "envelope"
    BY <2>1 DEF Starts, Idle
  <2>3. ~Dropped' /\ ~DroppedOnDisk'
    BY <2>2 DEF Dropped, DroppedOnDisk
  <2> QED BY <1>0, <1>1, <2>2, <2>3, BeginsRoster DEF RemovalInv, RemovalSticks
<1>2. CASE \E r \in Others, e \in Nat, c \in Ciphertexts : BeginOffboardReplay(r, e, c)
  <2>1. PICK r \in Others :
          /\ Idle /\ disk' = disk /\ gone' = gone /\ mem'.members = mem.members \ {r}
          /\ call'.who = r /\ todo' = DropPuts
    BY <1>2, EvictEffect
  <2>2. ~DroppedOnDisk'
    BY <2>1 DEF DropPuts, DroppedOnDisk
  <2> QED BY <1>0, <2>1, <2>2 DEF RemovalInv, RemovalSticks, Idle
<1>3. CASE \E j \in Others : BeginRedeem(j)
  <2>1. PICK j \in Others :
          /\ Idle /\ disk' = disk /\ gone' = gone \ {j} /\ mem'.members = mem.members \cup {j}
          /\ call'.op = "redeem"
    BY <1>3, RedeemEffect
  <2> QED BY <1>0, <2>1 DEF RemovalInv, RemovalSticks, Idle
<1>4. CASE PutOk
  <2>1. Puts
    BY <1>4, PutEffect
  <2>2. /\ up = "up" /\ mem'.members = mem.members
        /\ disk'.group.members = IF todo[1] = "group" THEN mem.members ELSE disk.group.members
    BY <2>1 DEF Puts, Memory, Snapshot
  <2>3. CASE Len(todo) = 1
    <3>1. /\ todo[1] # "group" /\ call' = NoCall
          /\ gone' = IF call.op \in {"offboard", "evict"} THEN gone \cup {call.who} ELSE gone
          /\ call.op \in {"offboard", "evict"} => todo = <<"revoked">>
      BY <2>1, <2>3 DEF Puts, Progress
    <3>2. call.op \in {"offboard", "evict"} =>
             call.who \notin mem.members /\ call.who \notin disk.group.members
      BY <3>1 DEF RemovalInv, Dropped, DroppedOnDisk
    <3> QED BY <1>0, <1>0a, <2>2, <3>1, <3>2 DEF RemovalInv, RemovalSticks
  <2>4. CASE Len(todo) # 1
    <3>1. call' = call /\ todo' = Tail(todo) /\ gone' = gone
      BY <2>1, <2>4 DEF Puts
    <3>2. RemovalSticks'
      BY <1>0, <2>2, <3>1 DEF RemovalSticks
    <3>3. ASSUME call.op \in {"offboard", "evict"}, Dropped'
          PROVE  call.who \notin mem.members
      <4>1. Dropped
        BY <2>1, <2>4, <3>1, <3>3 DEF Puts, Progress, Dropped
      <4> QED BY <3>3, <4>1 DEF RemovalInv
    <3>4. ASSUME call.op \in {"offboard", "evict"}, DroppedOnDisk'
          PROVE  call.who \notin disk'.group.members
      <4>1. \/ todo = <<"group", "removed", "revoked">>
            \/ todo \in {<<"removed", "revoked">>, <<"revoked">>}
        BY <2>1, <2>4, <3>1, <3>4 DEF Puts, Progress, DroppedOnDisk
      <4>2. CASE todo = <<"group", "removed", "revoked">>
        BY <2>2, <3>4, <4>2 DEF RemovalInv, Dropped
      <4>3. CASE todo \in {<<"removed", "revoked">>, <<"revoked">>}
        <5>1. todo[1] # "group"
          BY <4>3
        <5> QED BY <2>2, <3>4, <4>3, <5>1 DEF RemovalInv, DroppedOnDisk
      <4> QED BY <4>1, <4>2, <4>3
    <3> QED BY <2>2, <3>1, <3>2, <3>3, <3>4 DEF RemovalInv
  <2> QED BY <2>3, <2>4
<1>5. CASE Drop
  <2>1. /\ up = "up" /\ disk' = disk /\ call' = call /\ gone' = gone
        /\ todo[1] = "drop" /\ Progress(call.op, todo) /\ todo' = Tail(todo)
        /\ mem'.members = mem.members \ {call.who}
    BY <1>5, DropEffect
  <2>2. call.op \in {"offboard", "evict"} => ~DroppedOnDisk'
    <3>1. todo # <<"group", "removed", "revoked">> /\ todo \notin {<<"removed", "revoked">>, <<"revoked">>}
      BY <2>1
    <3> QED BY <2>1, <3>1 DEF Progress, DroppedOnDisk
  <2> QED BY <1>0, <2>1, <2>2 DEF RemovalInv, RemovalSticks
<1>6. CASE PutFails
  <2>1. /\ up = "up" /\ disk' = disk /\ call' = NoCall /\ gone' = gone
        /\ mem'.members \subseteq mem.members
    BY <1>6, FailureEffect
  <2> QED BY <1>0, <1>0a, <2>1 DEF RemovalInv, RemovalSticks
<1>7. CASE Crash
  <2>1. up' = "down" /\ disk' = disk /\ gone' = gone /\ call' = NoCall
    BY <1>7 DEF Crash
  <2> QED BY <1>0, <1>0a, <2>1 DEF RemovalInv, RemovalSticks
<1>8. CASE Open
  <2>1. /\ up # "up" /\ call' = call /\ disk' = disk /\ gone' = gone
        /\ up' = "up" => mem' = Memory(disk.group, InKeyOrder(disk.envelopes), disk.consumed,
                                       InKeyOrder(disk.referrals), InKeyOrder(disk.audit))
    BY <1>8, OpenEffect
  <2>2. up' = "up" => mem'.members = disk.group.members
    BY <2>1 DEF Memory
  <2>3. call' = NoCall
    BY <1>0, <2>1 DEF CallType
  <2> QED BY <1>0, <1>0a, <2>1, <2>2, <2>3 DEF RemovalInv, RemovalSticks
<1>9. CASE UNCHANGED <<mem, disk, up, call, todo, failures, acked, gone, viaToken>>
  BY <1>9 DEF RemovalInv, RemovalSticks, Dropped, DroppedOnDisk
<1> QED BY <1>1, <1>2, <1>3, <1>4, <1>5, <1>6, <1>7, <1>8, <1>9, StepKinds

-----------------------------------------------------------------------------
(* The invite admits at most one wallet, and the disk knows that it is used *)
(* before the wallet it admitted is on the durable roster.                  *)
LEMMA RedeemStep ==
    ASSUME StoreType, RedeemInv, [Next]_vars
    PROVE  RedeemInv'
<1>0. /\ MemoryType /\ DiskType /\ CallType /\ failures \in Nat
      /\ mem.consumed \in BOOLEAN /\ disk.consumed \in BOOLEAN
  BY DEF StoreType, MemoryType, DiskType, CallType
<1>0a. NoCall.op # "redeem" /\ ("redeem" \notin Sends)
  BY DEF NoCall, Sends
<1>1. CASE Begins
  <2>1. PICK env : Starts(env)
    BY <1>1, BeginsStart
  <2>2. /\ up = "up" /\ up' = up /\ disk' = disk /\ failures' = failures /\ call.op = "none"
        /\ call'.op \in Sends /\ mem'.consumed = mem.consumed
    BY <2>1 DEF Starts, Idle, Memory
  <2>3. ~Unmarked /\ ~Unmarked'
    BY <1>0a, <2>2 DEF Unmarked
  <2> QED BY <1>1, <2>2, <2>3, BeginsRoster DEF RedeemInv
<1>2. CASE \E r \in Others, e \in Nat, c \in Ciphertexts : BeginOffboardReplay(r, e, c)
  <2>1. /\ Idle /\ up' = up /\ disk' = disk /\ failures' = failures /\ viaToken' = viaToken
        /\ \E m : mem' = Memory(m, mem.log, mem.consumed, mem.referrals, mem.audit)
        /\ call'.op = "evict"
    BY <1>2, EvictEffect
  <2>2. mem'.consumed = mem.consumed
    BY <2>1 DEF Memory
  <2>3. ~Unmarked /\ ~Unmarked'
    BY <2>1 DEF Unmarked, Idle
  <2> QED BY <2>1, <2>2, <2>3 DEF RedeemInv
<1>3. CASE \E j \in Others : BeginRedeem(j)
  <2>1. PICK j \in Others :
          /\ Idle /\ ~mem.consumed /\ up' = up /\ disk' = disk /\ failures' = failures
          /\ viaToken' = IF j \in mem.members \cup disk.group.members
                         THEN viaToken ELSE viaToken \cup {j}
          /\ mem' = Memory(Snapshot(mem'), mem.log, TRUE, mem'.referrals, mem.audit)
          /\ call'.op = "redeem" /\ todo' = RedeemPuts
    BY <1>3, RedeemEffect
  <2>2. mem'.consumed = TRUE
    BY <2>1 DEF Memory
  <2>3. ~Unmarked /\ Unmarked' /\ up = "up"
    BY <2>1 DEF Unmarked, Idle, RedeemPuts
  <2>4. failures = 0 => ~disk.consumed /\ viaToken = {}
    BY <1>0, <2>1, <2>3 DEF RedeemInv
  <2>5. failures = 0 => /\ \A v, w \in viaToken' : v = w
                        /\ viaToken' \cap disk.group.members = {}
    BY <2>1, <2>4
  <2> QED BY <2>1, <2>2, <2>3, <2>5 DEF RedeemInv
<1>4. CASE PutOk
  <2>1. Puts
    BY <1>4, PutEffect
  <2>2. /\ up = "up" /\ up' = "up" /\ failures' = failures /\ viaToken' = viaToken
        /\ mem'.consumed = mem.consumed
        /\ disk'.consumed = IF todo[1] = "invite" THEN mem.consumed ELSE disk.consumed
    BY <2>1 DEF Puts, Memory
  <2>3. ~Unmarked'
    <3>1. CASE Len(todo) = 1
      BY <1>0a, <2>1, <3>1 DEF Puts, Unmarked
    <3>2. CASE Len(todo) # 1
      BY <2>1, <3>2 DEF Puts, Progress, Unmarked, Sends
    <3> QED BY <3>1, <3>2
  <2>4. todo[1] = "invite" <=> Unmarked
    BY <2>1 DEF Puts, Progress, Unmarked
  <2>5. failures = 0 => (mem.consumed <=> disk.consumed \/ Unmarked)
    BY <2>2 DEF RedeemInv
  <2>6. failures = 0 => (disk'.consumed <=> mem.consumed)
    BY <1>0, <2>2, <2>4, <2>5
  <2>7. failures = 0 => /\ \A v, w \in viaToken : v = w
                        /\ viaToken # {} => disk.consumed \/ Unmarked
    BY DEF RedeemInv
  <2> QED BY <2>2, <2>3, <2>5, <2>6, <2>7 DEF RedeemInv
<1>5. CASE Drop
  <2>1. /\ up = "up" /\ up' = up /\ disk' = disk /\ call' = call /\ failures' = failures
        /\ viaToken' = viaToken
        /\ todo[1] = "drop" /\ Progress(call.op, todo) /\ todo' = Tail(todo)
        /\ mem' = Memory(Snapshot(mem'), mem.log, mem.consumed, mem.referrals, mem.audit)
    BY <1>5, DropEffect
  <2>2. mem'.consumed = mem.consumed
    BY <2>1 DEF Memory
  <2>3. ~Unmarked /\ ~Unmarked'
    BY <2>1 DEF Unmarked, Progress
  <2> QED BY <2>1, <2>2, <2>3 DEF RedeemInv
<1>6. CASE PutFails
  <2>1. failures' # 0
    BY <1>0, <1>6, FailureEffect
  <2> QED BY <2>1 DEF RedeemInv
<1>7. CASE Crash
  <2>1. /\ up = "up" /\ up' = "down" /\ disk' = disk /\ call' = NoCall /\ failures' = failures
        /\ viaToken' = viaToken \cap disk.group.members
    BY <1>7 DEF Crash
  <2>2. ~Unmarked'
    BY <1>0a, <2>1 DEF Unmarked
  <2>3. failures = 0 /\ viaToken' # {} => disk.consumed
    BY <2>1 DEF RedeemInv
  <2> QED BY <2>1, <2>2, <2>3 DEF RedeemInv
<1>8. CASE Open
  <2>1. /\ up # "up" /\ up' \in {"up", "refused"} /\ call' = call /\ disk' = disk
        /\ failures' = failures /\ viaToken' = viaToken
        /\ up' = "up" => mem' = Memory(disk.group, InKeyOrder(disk.envelopes), disk.consumed,
                                       InKeyOrder(disk.referrals), InKeyOrder(disk.audit))
    BY <1>8, OpenEffect
  <2>2. up' = "up" => mem'.consumed = disk.consumed
    BY <2>1 DEF Memory
  <2>3. ~Unmarked /\ ~Unmarked'
    BY <1>0, <2>1 DEF CallType, Unmarked
  <2> QED BY <2>1, <2>2, <2>3 DEF RedeemInv
<1>9. CASE UNCHANGED <<mem, disk, up, call, todo, failures, acked, gone, viaToken>>
  BY <1>9 DEF RedeemInv, Unmarked
<1> QED BY <1>1, <1>2, <1>3, <1>4, <1>5, <1>6, <1>7, <1>8, <1>9, StepKinds

-----------------------------------------------------------------------------
(* The audit chain on disk has no gap and is as long as the one in memory.  *)
LEMMA ChainStep ==
    ASSUME StoreType, ChainInv, [Next]_vars
    PROVE  ChainInv'
<1>0. /\ MemoryType /\ DiskType /\ CallType /\ failures \in Nat /\ Len(mem.audit) \in Nat
      /\ DOMAIN disk.audit \subseteq Nat
  BY DEF StoreType, MemoryType, DiskType, CallType
<1>1. ASSUME up = "up", up' = "up", disk' = disk, failures' = failures, mem'.audit = mem.audit
      PROVE  ChainInv'
  BY <1>1 DEF ChainInv
<1>2. CASE Begins
  <2>1. PICK env : Starts(env)
    BY <1>2, BeginsStart
  <2> QED BY <1>1, <2>1 DEF Starts, Idle, Memory
<1>3. CASE \E r \in Others, e \in Nat, c \in Ciphertexts : BeginOffboardReplay(r, e, c)
  <2>1. /\ Idle /\ up' = up /\ disk' = disk /\ failures' = failures
        /\ \E m : mem' = Memory(m, mem.log, mem.consumed, mem.referrals, mem.audit)
    BY <1>3, EvictEffect
  <2> QED BY <1>1, <2>1 DEF Idle, Memory
<1>4. CASE \E j \in Others : BeginRedeem(j)
  <2>1. /\ Idle /\ up' = up /\ disk' = disk /\ failures' = failures
        /\ \E m, x : mem' = Memory(m, mem.log, TRUE, x, mem.audit)
    BY <1>4, RedeemEffect
  <2> QED BY <1>1, <2>1 DEF Idle, Memory
<1>5. CASE PutOk
  <2>1. Puts
    BY <1>5, PutEffect
  <2>2. /\ up = "up" /\ up' = "up" /\ failures' = failures
        /\ mem'.audit = IF todo[1] \in AuditPuts THEN Append(mem.audit, Record) ELSE mem.audit
        /\ disk'.audit = IF todo[1] \in AuditPuts THEN Put(disk.audit, Len(mem.audit), Record)
                                                  ELSE disk.audit
    BY <2>1 DEF Puts, Memory
  <2>3. CASE todo[1] \in AuditPuts
    <3>1. DOMAIN disk'.audit = DOMAIN disk.audit \cup {Len(mem.audit)}
      BY <2>2, <2>3 DEF Put
    <3>2. Len(mem'.audit) = Len(mem.audit) + 1
      <4>1. mem.audit \in Seq(AuditRecord)
        BY <1>0 DEF MemoryType
      <4> QED BY <2>2, <2>3, <4>1
    <3>3. failures = 0 => DOMAIN disk.audit = 0..(Len(mem.audit) - 1)
      BY <2>2 DEF ChainInv
    <3>4. failures = 0 => DOMAIN disk'.audit = 0..Len(mem.audit)
      BY <1>0, <3>1, <3>3
    <3>5. Len(mem.audit) \in 0..Len(mem.audit) /\ Len(mem'.audit) - 1 = Len(mem.audit)
      BY <1>0, <3>2
    <3> QED BY <2>2, <3>4, <3>5 DEF ChainInv
  <2>4. CASE todo[1] \notin AuditPuts
    BY <2>2, <2>4 DEF ChainInv
  <2> QED BY <2>3, <2>4
<1>6. CASE Drop
  <2>1. /\ up = "up" /\ up' = up /\ disk' = disk /\ failures' = failures
        /\ \E m : mem' = Memory(m, mem.log, mem.consumed, mem.referrals, mem.audit)
    BY <1>6, DropEffect
  <2> QED BY <1>1, <2>1 DEF Memory
<1>7. CASE PutFails
  <2>1. failures' # 0
    BY <1>0, <1>7, FailureEffect
  <2> QED BY <2>1 DEF ChainInv
<1>8. CASE Crash
  <2>1. up' = "down" /\ disk' = disk /\ failures' = failures
    BY <1>8 DEF Crash
  <2> QED BY <2>1 DEF ChainInv
<1>9. CASE Open
  <2>1. /\ up # "up" /\ up' \in {"up", "refused"} /\ disk' = disk /\ failures' = failures
        /\ ChainVerifies => up' = "up"
        /\ up' = "up" => mem' = Memory(disk.group, InKeyOrder(disk.envelopes), disk.consumed,
                                       InKeyOrder(disk.referrals), InKeyOrder(disk.audit))
    BY <1>9, OpenEffect
  <2>2. up' = "up" => Len(mem'.audit) = Cardinality(DOMAIN disk.audit)
    <3>1. up' = "up" => mem'.audit = InKeyOrder(disk.audit)
      BY <2>1 DEF Memory
    <3>2. Len(InKeyOrder(disk.audit)) = Cardinality(DOMAIN disk.audit)
      BY <1>0, ScanListsValues DEF DiskType
    <3> QED BY <3>1, <3>2
  <2>3. ASSUME failures = 0
        PROVE  /\ up' = "up" /\ \E n \in DOMAIN disk.audit : DOMAIN disk.audit = 0..n
               /\ DOMAIN disk.audit = 0..(Cardinality(DOMAIN disk.audit) - 1)
    <3>1. PICK n \in DOMAIN disk.audit : DOMAIN disk.audit = 0..n
      BY <2>3 DEF ChainInv
    <3>2. n \in Nat
      BY <1>0
    <3>3. Cardinality(0..n) = n + 1
      BY <3>2, FS_Interval
    <3>4. DOMAIN disk.audit = 0..(Cardinality(DOMAIN disk.audit) - 1)
      BY <3>1, <3>2, <3>3
    <3> QED BY <2>1, <3>1, <3>4 DEF ChainVerifies
  <2> QED BY <2>1, <2>2, <2>3 DEF ChainInv
<1>10. CASE UNCHANGED <<mem, disk, up, call, todo, failures, acked, gone, viaToken>>
  BY <1>10 DEF ChainInv
<1> QED BY <1>2, <1>3, <1>4, <1>5, <1>6, <1>7, <1>8, <1>9, <1>10, StepKinds

-----------------------------------------------------------------------------
(* The envelope of an accepted Commit is on disk before the snapshot that   *)
(* accepts it, below the sequence numbers that are still to be handed out.  *)
LEMMA QuietReplay ==
    ASSUME StoreType, ReplayInv, up = "up", up' = "up", disk' = disk, failures' = failures,
           mem'.log = mem.log, mem'.accepted_commit = mem.accepted_commit,
           mem'.next_seq = mem.next_seq, ~Unsent, ~Unsent'
    PROVE  ReplayInv'
<1>1. \A e : CommitAt(e)' = CommitAt(e)
  BY DEF CommitAt
<1>2. AcceptedReplayable => AcceptedReplayable'
  BY <1>1 DEF AcceptedReplayable
<1>3. Sent = mem.next_seq /\ Sent' = mem.next_seq
  BY DEF Sent
<1> QED BY <1>2, <1>3 DEF ReplayInv, CommitOnDisk

(* Every step keeps the Commits that replays are compared with. *)
LEMMA ReplayStep ==
    ASSUME StoreType, AckedInv, ReplayInv, [Next]_vars
    PROVE  ReplayInv'
<1>0. /\ MemoryType /\ DiskType /\ CallType /\ failures \in Nat
      /\ mem.next_seq \in Nat /\ disk.group.next_seq \in Nat /\ mem.log \in Seq(Envelope)
      /\ DOMAIN disk.envelopes \subseteq Nat
      /\ up = "up" => disk.group.next_seq <= mem.next_seq
  BY DEF StoreType, MemoryType, DiskType, CallType, AckedInv
<1>1. CASE Begins
  <2>1. PICK env : Starts(env)
    BY <1>1, BeginsStart
  <2>2. /\ up = "up" /\ up' = "up" /\ disk' = disk /\ failures' = failures /\ call.op = "none"
        /\ mem'.log = Append(mem.log, env) /\ mem'.next_seq = mem.next_seq + 1
        /\ call'.env = env /\ call'.op \in Sends /\ todo'[1] = "envelope"
        /\ env.seq = mem.next_seq /\ env \in Envelope
        /\ mem'.accepted_commit = IF env.kind = "Commit"
              THEN Put(mem.accepted_commit, env.epoch, env.ct) ELSE mem.accepted_commit
        /\ env.kind = "Commit" => env.epoch \notin DOMAIN mem.accepted_commit
    BY <2>1 DEF Starts, Idle, Memory
  <2>3. ~Unsent /\ Unsent' /\ Sent = mem.next_seq /\ Sent' = mem.next_seq
    BY <2>2 DEF Unsent, Sent, Sends
  <2>4. /\ Len(mem'.log) = Len(mem.log) + 1 /\ DOMAIN mem'.log = 1..(Len(mem.log) + 1)
        /\ mem'.log[Len(mem.log) + 1] = env /\ Len(mem.log) \in Nat
        /\ \A i \in DOMAIN mem.log : i \in DOMAIN mem'.log /\ mem'.log[i] = mem.log[i]
    BY <1>0, <2>2
  <2>5. /\ \A e \in DOMAIN mem.accepted_commit :
              e \in DOMAIN mem'.accepted_commit /\ mem'.accepted_commit[e] = mem.accepted_commit[e]
        /\ \A e \in DOMAIN mem'.accepted_commit :
              \/ e \in DOMAIN mem.accepted_commit
              \/ env.kind = "Commit" /\ env.epoch = e /\ env.ct = mem'.accepted_commit[e]
    <3>1. CASE env.kind = "Commit"
      BY <2>2, <3>1 DEF Put
    <3>2. CASE env.kind # "Commit"
      BY <2>2, <3>2
    <3> QED BY <3>1, <3>2
  <2>6. ASSUME failures = 0
        PROVE  AcceptedReplayable'
    <3> SUFFICES ASSUME NEW e \in DOMAIN mem'.accepted_commit
                 PROVE  \E i \in CommitAt(e)' : mem'.log[i].ct = mem'.accepted_commit[e]
      BY DEF AcceptedReplayable
    <3>1. CASE e \in DOMAIN mem.accepted_commit
      <4>1. PICK i \in CommitAt(e) : mem.log[i].ct = mem.accepted_commit[e]
        BY <2>2, <2>6, <3>1 DEF ReplayInv, AcceptedReplayable
      <4>2. i \in CommitAt(e)' /\ mem'.log[i] = mem.log[i]
        BY <2>4, <4>1 DEF CommitAt
      <4> QED BY <2>5, <3>1, <4>1, <4>2
    <3>2. CASE e \notin DOMAIN mem.accepted_commit
      <4>1. env.kind = "Commit" /\ env.epoch = e /\ env.ct = mem'.accepted_commit[e]
        BY <2>5, <3>2
      <4>2. Len(mem.log) + 1 \in CommitAt(e)'
        BY <2>4, <4>1 DEF CommitAt
      <4> QED BY <2>4, <4>1, <4>2
    <3> QED BY <3>1, <3>2
  <2>7. ASSUME failures = 0, NEW e \in DOMAIN mem'.accepted_commit
        PROVE  \/ CommitOnDisk(e, mem'.accepted_commit[e], mem.next_seq)
               \/ env.kind = "Commit" /\ env.epoch = e /\ env.ct = mem'.accepted_commit[e]
    <3>1. CASE e \in DOMAIN mem.accepted_commit
      <4>1. CommitOnDisk(e, mem.accepted_commit[e], Sent)
        BY <2>2, <2>3, <2>7, <3>1 DEF ReplayInv
      <4> QED BY <2>3, <2>5, <3>1, <4>1
    <3> QED BY <2>5, <3>1
  <2>8. \A e, c, n : CommitOnDisk(e, c, n) <=> CommitOnDisk(e, c, n)'
    BY <2>2 DEF CommitOnDisk
  <2> QED BY <2>2, <2>3, <2>6, <2>7, <2>8 DEF ReplayInv, CommitOnDisk
<1>2. CASE \E r \in Others, e \in Nat, c \in Ciphertexts : BeginOffboardReplay(r, e, c)
  <2>1. /\ Idle /\ up' = up /\ disk' = disk /\ failures' = failures
        /\ \E m : mem' = Memory(m, mem.log, mem.consumed, mem.referrals, mem.audit)
        /\ mem'.next_seq = mem.next_seq /\ mem'.accepted_commit = mem.accepted_commit
        /\ call'.op = "evict"
    BY <1>2, EvictEffect
  <2>2. mem'.log = mem.log /\ up = "up" /\ ~Unsent /\ ~Unsent'
    BY <2>1 DEF Memory, Idle, Unsent, Sends
  <2> QED BY <2>1, <2>2, QuietReplay
<1>3. CASE \E j \in Others : BeginRedeem(j)
  <2>1. /\ Idle /\ up' = up /\ disk' = disk /\ failures' = failures
        /\ \E m, x : mem' = Memory(m, mem.log, TRUE, x, mem.audit)
        /\ mem'.next_seq = mem.next_seq /\ mem'.accepted_commit = mem.accepted_commit
        /\ call'.op = "redeem"
    BY <1>3, RedeemEffect
  <2>2. mem'.log = mem.log /\ up = "up" /\ ~Unsent /\ ~Unsent'
    BY <2>1 DEF Memory, Idle, Unsent, Sends
  <2> QED BY <2>1, <2>2, QuietReplay
<1>4. CASE PutOk
  <2>1. Puts
    BY <1>4, PutEffect
  <2>2. /\ up = "up" /\ up' = "up" /\ failures' = failures
        /\ mem'.log = mem.log /\ mem'.accepted_commit = mem.accepted_commit
        /\ mem'.next_seq = mem.next_seq
        /\ disk'.envelopes = IF todo[1] = "envelope" THEN Put(disk.envelopes, call.env.seq, call.env)
                                                     ELSE disk.envelopes
        /\ disk'.group = IF todo[1] = "group" THEN Snapshot(mem) ELSE disk.group
    BY <2>1 DEF Puts, Memory, Snapshot
  <2>3. ~Unsent'
    <3>1. CASE Len(todo) = 1
      BY <2>1, <3>1 DEF Puts, Unsent, NoCall, Sends
    <3>2. CASE Len(todo) # 1
      BY <2>1, <3>2 DEF Puts, Progress, Unsent
    <3> QED BY <3>1, <3>2
  <2>4. Sent' = mem.next_seq
    BY <2>2, <2>3 DEF Sent
  <2>5. AcceptedReplayable => AcceptedReplayable'
    <3>1. \A e : CommitAt(e)' = CommitAt(e)
      BY <2>2 DEF CommitAt
    <3> QED BY <2>2, <3>1 DEF AcceptedReplayable
  <2>6. todo[1] = "envelope" => /\ Unsent /\ call.env.seq \in Nat
                                /\ disk.group.next_seq <= call.env.seq /\ call.env.seq < mem.next_seq
    BY <1>0, <2>1 DEF Puts, Progress, Unsent, AckedInv, CallType, Envelope
  <2>7. todo[1] # "envelope" => ~Unsent /\ Sent = mem.next_seq
    BY DEF Unsent, Sent
  <2>8. ASSUME NEW e, NEW c, NEW n \in Nat, CommitOnDisk(e, c, n),
               todo[1] = "envelope" => n <= call.env.seq
        PROVE  CommitOnDisk(e, c, n)'
    <3>1. PICK k \in DOMAIN disk.envelopes :
            /\ k < n /\ disk.envelopes[k].kind = "Commit"
            /\ disk.envelopes[k].epoch = e /\ disk.envelopes[k].ct = c
      BY <2>8 DEF CommitOnDisk
    <3>2. k \in DOMAIN disk'.envelopes /\ disk'.envelopes[k] = disk.envelopes[k]
      <4>1. CASE todo[1] = "envelope"
        <5>1. k # call.env.seq
          BY <1>0, <2>6, <2>8, <3>1, <4>1
        <5> QED BY <2>2, <4>1, <5>1 DEF Put
      <4>2. CASE todo[1] # "envelope"
        BY <2>2, <4>2
      <4> QED BY <4>1, <4>2
    <3> QED BY <3>1, <3>2 DEF CommitOnDisk
  <2>9. ASSUME NEW e, NEW c, NEW n \in Nat, NEW m \in Nat, n <= m, CommitOnDisk(e, c, n)'
        PROVE  CommitOnDisk(e, c, m)'
    <3>1. PICK k \in DOMAIN disk'.envelopes :
            /\ k < n /\ disk'.envelopes[k].kind = "Commit"
            /\ disk'.envelopes[k].epoch = e /\ disk'.envelopes[k].ct = c
      BY <2>9 DEF CommitOnDisk
    <3>2. k \in Nat
      BY <1>0, <2>2, <2>6 DEF Put
    <3>3. k < m
      BY <2>9, <3>1, <3>2
    <3> QED BY <3>1, <3>3 DEF CommitOnDisk
  <2>10. ASSUME failures = 0, NEW e \in DOMAIN mem.accepted_commit, NEW c, c = mem.accepted_commit[e],
                NEW n, n = mem.next_seq
         PROVE  CommitOnDisk(e, c, n)'
    <3>1. CASE CommitOnDisk(e, c, Sent)
      <4>1. CASE todo[1] = "envelope"
        <5>1. PICK m \in Nat : m = call.env.seq /\ m <= n /\ Sent = m
          BY <1>0, <2>6, <2>10, <4>1 DEF Sent
        <5>2. CommitOnDisk(e, c, m)'
          BY <2>8, <3>1, <5>1
        <5> QED BY <1>0, <2>9, <2>10, <5>1, <5>2
      <4>2. CASE todo[1] # "envelope"
        <5>1. Sent = n /\ n \in Nat
          BY <1>0, <2>7, <2>10, <4>2
        <5> QED BY <2>8, <3>1, <4>2, <5>1
      <4> QED BY <4>1, <4>2
    <3>2. CASE Unsent /\ call.env.kind = "Commit" /\ call.env.epoch = e /\ call.env.ct = c
      <4>1. todo[1] = "envelope"
        BY <3>2 DEF Unsent
      <4>2. call.env.seq \in DOMAIN disk'.envelopes /\ disk'.envelopes[call.env.seq] = call.env
        BY <2>2, <4>1 DEF Put
      <4>3. call.env.seq < n
        BY <2>6, <2>10, <4>1
      <4> QED BY <3>2, <4>2, <4>3 DEF CommitOnDisk
    <3> QED BY <2>2, <2>10, <3>1, <3>2 DEF ReplayInv
  <2>11. ASSUME failures = 0, NEW e \in DOMAIN disk'.group.accepted_commit,
                NEW c, c = disk'.group.accepted_commit[e], NEW n, n = disk'.group.next_seq
         PROVE  CommitOnDisk(e, c, n)'
    <3>1. CASE todo[1] = "group"
      <4>1. /\ disk'.group.accepted_commit = mem.accepted_commit
            /\ disk'.group.next_seq = mem.next_seq
        BY <2>2, <3>1 DEF Snapshot
      <4> QED BY <2>10, <2>11, <4>1
    <3>2. CASE todo[1] # "group"
      <4>1. disk'.group = disk.group
        BY <2>2, <3>2
      <4>2. CommitOnDisk(e, c, n) /\ n \in Nat
        BY <1>0, <2>11, <4>1 DEF ReplayInv
      <4>3. todo[1] = "envelope" => n <= call.env.seq
        BY <2>6, <2>11, <4>1
      <4> QED BY <2>8, <4>2, <4>3
    <3> QED BY <3>1, <3>2
  <2>12. failures = 0 => AcceptedReplayable
    BY DEF ReplayInv
  <2>13. failures = 0 => \A e \in DOMAIN mem'.accepted_commit :
                            CommitOnDisk(e, mem.accepted_commit[e], Sent)'
    BY <2>2, <2>4, <2>10
  <2>14. failures = 0 => \A e \in DOMAIN disk'.group.accepted_commit :
                CommitOnDisk(e, disk.group.accepted_commit[e], disk.group.next_seq)'
    BY <2>11
  <2> QED BY <2>2, <2>5, <2>12, <2>13, <2>14 DEF ReplayInv
<1>5. CASE Drop
  <2>1. /\ up = "up" /\ up' = up /\ disk' = disk /\ failures' = failures /\ call' = call
        /\ todo[1] = "drop" /\ Progress(call.op, todo) /\ todo' = Tail(todo)
        /\ \E m : mem' = Memory(m, mem.log, mem.consumed, mem.referrals, mem.audit)
        /\ mem'.next_seq = mem.next_seq /\ mem'.accepted_commit = mem.accepted_commit
    BY <1>5, DropEffect
  <2>2. mem'.log = mem.log /\ ~Unsent /\ ~Unsent'
    BY <2>1 DEF Memory, Unsent, Progress
  <2> QED BY <2>1, <2>2, QuietReplay
<1>6. CASE PutFails
  <2>1. failures' # 0
    BY <1>0, <1>6, FailureEffect
  <2> QED BY <2>1 DEF ReplayInv
<1>7. CASE Crash
  <2>1. up' = "down" /\ disk' = disk /\ failures' = failures
    BY <1>7 DEF Crash
  <2> QED BY <2>1 DEF ReplayInv, AcceptedReplayable, CommitOnDisk
<1>8. CASE Open
  <2>1. /\ up # "up" /\ call' = call /\ disk' = disk /\ failures' = failures
        /\ up' = "up" => mem' = Memory(disk.group, InKeyOrder(disk.envelopes), disk.consumed,
                                       InKeyOrder(disk.referrals), InKeyOrder(disk.audit))
    BY <1>8, OpenEffect
  <2>2. up' = "up" => /\ mem'.log = InKeyOrder(disk.envelopes)
                      /\ mem'.accepted_commit = disk.group.accepted_commit
                      /\ mem'.next_seq = disk.group.next_seq
    BY <2>1 DEF Memory
  <2>3. ~Unsent'
    BY <1>0, <2>1 DEF CallType, Unsent, Sends
  <2>4. up' = "up" => Sent' = disk.group.next_seq
    BY <2>2, <2>3 DEF Sent
  <2>5. failures = 0 => \A e \in DOMAIN disk.group.accepted_commit :
              CommitOnDisk(e, disk.group.accepted_commit[e], disk.group.next_seq)
    BY DEF ReplayInv
  <2>6. ASSUME failures = 0, up' = "up"
        PROVE  AcceptedReplayable'
    <3> SUFFICES ASSUME NEW e \in DOMAIN mem'.accepted_commit
                 PROVE  \E i \in CommitAt(e)' : mem'.log[i].ct = mem'.accepted_commit[e]
      BY DEF AcceptedReplayable
    <3>1. PICK k \in DOMAIN disk.envelopes :
            /\ disk.envelopes[k].kind = "Commit" /\ disk.envelopes[k].epoch = e
            /\ disk.envelopes[k].ct = disk.group.accepted_commit[e]
      BY <2>2, <2>5, <2>6 DEF CommitOnDisk
    <3>2. PICK i \in DOMAIN InKeyOrder(disk.envelopes) :
            InKeyOrder(disk.envelopes)[i] = disk.envelopes[k]
      BY <1>0, ScanListsValues DEF DiskType
    <3> QED BY <2>2, <2>6, <3>1, <3>2 DEF CommitAt
  <2>7. \A e, c, n : CommitOnDisk(e, c, n) <=> CommitOnDisk(e, c, n)'
    BY <2>1 DEF CommitOnDisk
  <2>8. up' # "up" => AcceptedReplayable'
    BY DEF AcceptedReplayable
  <2> QED BY <2>1, <2>2, <2>4, <2>5, <2>6, <2>7, <2>8 DEF ReplayInv
<1>9. CASE UNCHANGED <<mem, disk, up, call, todo, failures, acked, gone, viaToken>>
  BY <1>9 DEF ReplayInv, AcceptedReplayable, CommitAt, CommitOnDisk, Sent, Unsent
<1> QED BY <1>1, <1>2, <1>3, <1>4, <1>5, <1>6, <1>7, <1>8, <1>9, StepKinds

-----------------------------------------------------------------------------
(* StoreInv holds in every reachable state. *)
THEOREM StoreInvariant == Spec => []StoreInv
<1>1. StoreInv /\ [Next]_vars => StoreInv'
  BY TypeStep, AckedStep, RemovalStep, RedeemStep, ChainStep, ReplayStep DEF StoreInv
<1> QED BY InitStore, <1>1, PTL DEF Spec

(* What a caller was told has happened is on the disk, whatever crashes or  *)
(* put fails: an acknowledged envelope under its sequence number, a removal *)
(* from the roster, and, as long as no put has failed, the one use of an    *)
(* invite.                                                                  *)
THEOREM PromisesDurableHolds == Spec => []PromisesDurable
<1>1. StoreInv => PromisesDurable
  <2> SUFFICES ASSUME StoreInv PROVE PromisesDurable
    OBVIOUS
  <2>1. AckedDurable /\ RemovalSticks
    BY DEF StoreInv, AckedInv, RemovalInv
  <2>2. ASSUME failures = 0
        PROVE  /\ viaToken \cap disk.group.members # {} => disk.consumed
               /\ Cardinality(viaToken \cap disk.group.members) <= 1
    <3>1. viaToken \cap disk.group.members # {} => disk.consumed
      BY <2>2 DEF StoreInv, RedeemInv
    <3> DEFINE admitted == viaToken \cap disk.group.members
    <3>2. \A v, w \in admitted : v = w
      BY <2>2 DEF StoreInv, RedeemInv
    <3> HIDE DEF admitted
    <3>3. admitted = {} => Cardinality(admitted) = 0
      BY FS_EmptySet
    <3>4. ASSUME admitted # {} PROVE Cardinality(admitted) = 1
      <4>1. PICK w : w \in admitted
        BY <3>4
      <4>2. admitted = {w}
        BY <3>2, <4>1
      <4> QED BY <4>2, FS_Singleton
    <3>5. Cardinality(admitted) <= 1
      BY <3>3, <3>4
    <3> QED BY <3>1, <3>5 DEF admitted
  <2> QED BY <2>1, <2>2 DEF PromisesDurable, RedeemOnceDurably
<1> QED BY StoreInvariant, <1>1, PTL

(* As long as no put has failed, the chain on disk verifies, open() starts  *)
(* the relay, and the running relay finds the Commit of every epoch that it *)
(* has accepted.                                                            *)
THEOREM ReopenableHolds == Spec => []Reopenable
<1>1. StoreInv => Reopenable
  <2> SUFFICES ASSUME StoreInv PROVE Reopenable
    OBVIOUS
  <2>1. ASSUME failures = 0
        PROVE  ChainVerifies /\ up # "refused"
    <3>1. PICK n \in DOMAIN disk.audit : DOMAIN disk.audit = 0..n
      BY <2>1 DEF StoreInv, ChainInv
    <3>2. n \in Nat
      BY DEF StoreInv, StoreType, DiskType
    <3>3. Cardinality(0..n) = n + 1
      BY <3>2, FS_Interval
    <3>4. DOMAIN disk.audit = 0..(Cardinality(DOMAIN disk.audit) - 1)
      BY <3>1, <3>2, <3>3
    <3> QED BY <2>1, <3>4 DEF ChainVerifies, StoreInv, ChainInv
  <2>2. AcceptedReplayable
    BY DEF StoreInv, ReplayInv, AcceptedReplayable
  <2> QED BY <2>1, <2>2 DEF Reopenable, ChainOpens
<1> QED BY StoreInvariant, <1>1, PTL
=============================================================================

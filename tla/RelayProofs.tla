---------------------------- MODULE RelayProofs ----------------------------
(***************************************************************************)
(* Theorems about Relay, for any number of wallets, groups, ciphertexts,   *)
(* tokens and grants: type correctness, the total order of every group,    *)
(* the refinement of OrderedLog, who is in a group (MembershipAccounted)   *)
(* and what each wallet is shown (DeliveredAsOrdered).                     *)
(*                                                                         *)
(* Order goes through one fact about the code, StepKinds: whatever method  *)
(* runs, the ordered part of the groups (log, next_seq, current_epoch,     *)
(* accepted_commit) is left alone, or one fresh group is registered, or    *)
(* one admissible envelope is appended to one group.  DeliveredAsOrdered   *)
(* rests on TotalOrder.  MembershipAccounted rests on one count: the grant *)
(* generation of a wallet in a group is the number of its removals the     *)
(* audit chain holds (GenerationsCount).                                   *)
(***************************************************************************)
EXTENDS Relay, FiniteSetTheorems, SequenceTheorems, TLAPS

(* An envelope a client may send; a Commit names an epoch in range. *)
Sendable(d) ==
    /\ d \in Envelope
    /\ d.kind = "Commit" => d.epoch \in 1..MaxEpoch

(* Two states of a group with the same ordered part. *)
SameOrder(s, t) ==
    /\ t.log = s.log
    /\ t.next_seq = s.next_seq
    /\ t.current_epoch = s.current_epoch
    /\ t.accepted_commit = s.accepted_commit

Quiet ==
    /\ DOMAIN groups' = DOMAIN groups
    /\ \A g \in DOMAIN groups : SameOrder(groups[g], groups'[g])

Registers(g, w) ==
    /\ g \notin DOMAIN groups
    /\ groups' = Put(groups, g, NewGroup(w))

Appends(d) ==
    /\ Sendable(d)
    /\ d.group \in DOMAIN groups
    /\ OrderOk(groups[d.group], d)
    /\ DOMAIN groups' = DOMAIN groups
    /\ SameOrder(Appended(groups[d.group], d), groups'[d.group])
    /\ \A g \in DOMAIN groups \ {d.group} : groups'[g] = groups[g]

-----------------------------------------------------------------------------
(* The types of what the operators build.                                  *)

(* Recording a Commit in accepted_commit keeps it a map from epochs.        *)
LEMMA PutHashes ==
    ASSUME NEW f \in Hashes, NEW e \in 1..MaxEpoch, NEW c \in Ciphertexts
    PROVE  Put(f, e, c) \in Hashes
<1>1. PICK D \in SUBSET (1..MaxEpoch) : f \in [D -> Ciphertexts]
  BY DEF Hashes
<1>2. Put(f, e, c) \in [D \cup {e} -> Ciphertexts]
  BY <1>1 DEF Put
<1>3. D \cup {e} \in SUBSET (1..MaxEpoch)
  OBVIOUS
<1> QED BY <1>2, <1>3 DEF Hashes

(* The state register_group creates.                                       *)
LEMMA NewGroupType ==
    ASSUME NEW w \in Wallets
    PROVE  NewGroup(w) \in GroupState
<1>1. [e \in {} |-> 0] \in Hashes
  <2>1. [e \in {} |-> 0] \in [{} -> Ciphertexts] OBVIOUS
  <2>2. {} \in SUBSET (1..MaxEpoch) OBVIOUS
  <2> QED BY <2>1, <2>2 DEF Hashes
<1>2. <<>> \in Seq(Envelope) OBVIOUS
<1>3. [x \in Wallets |-> 0] \in [Wallets -> Nat] OBVIOUS
<1>4. {w} \in SUBSET Wallets OBVIOUS
<1> QED BY <1>1, <1>2, <1>3, <1>4 DEF NewGroup, GroupState

(* submit's changes to a group.                                            *)
LEMMA AppendedType ==
    ASSUME NEW s \in GroupState, NEW d, Sendable(d)
    PROVE  /\ Appended(s, d) \in GroupState
           /\ Stamp(s, d) \in Envelope
<1>1. s.next_seq \in Nat /\ s.log \in Seq(Envelope) /\ s.accepted_commit \in Hashes
  BY DEF GroupState
<1>2. Stamp(s, d) \in Envelope
  BY <1>1 DEF Sendable, Envelope, Stamp
<1>3. Append(s.log, Stamp(s, d)) \in Seq(Envelope)
  BY <1>1, <1>2
<1>4. (IF d.kind = "Commit" THEN Put(s.accepted_commit, d.epoch, d.ct)
                            ELSE s.accepted_commit) \in Hashes
  BY <1>1, PutHashes DEF Sendable, Envelope
<1>5. (IF d.kind = "Commit" THEN d.epoch ELSE s.current_epoch) \in Nat
  BY DEF Sendable, Envelope, GroupState
<1>6. s.next_seq + 1 \in Nat
  BY <1>1
<1> QED BY <1>2, <1>3, <1>4, <1>5, <1>6 DEF Appended, GroupState

(* The roster changes of onboard, redeem_invite and offboard.              *)
LEMMA RosterTypes ==
    ASSUME NEW s \in GroupState, NEW w \in Wallets
    PROVE  /\ WithMember(s, w) \in GroupState
           /\ \A b \in BOOLEAN : UndoAdd(WithMember(s, w), w, b) \in GroupState
           /\ Offboarded(s, w) \in GroupState
           /\ SameOrder(s, WithMember(s, w))
           /\ \A b \in BOOLEAN : SameOrder(s, UndoAdd(WithMember(s, w), w, b))
           /\ SameOrder(s, Offboarded(s, w))
<1>1. WithMember(s, w) \in GroupState /\ SameOrder(s, WithMember(s, w))
  BY DEF WithMember, GroupState, SameOrder
<1>2. \A b \in BOOLEAN : /\ UndoAdd(WithMember(s, w), w, b) \in GroupState
                         /\ SameOrder(s, UndoAdd(WithMember(s, w), w, b))
  BY <1>1 DEF UndoAdd, GroupState, SameOrder
<1>3. end_membership(s, w) \in GroupState /\ SameOrder(s, end_membership(s, w))
  <2>1. s.grant_generations \in [Wallets -> Nat]
    BY DEF GroupState
  <2>2. s.grant_generations[w] + 1 \in Nat
    BY <2>1
  <2>3. [s.grant_generations EXCEPT ![w] = s.grant_generations[w] + 1] \in [Wallets -> Nat]
    BY <2>1, <2>2
  <2> QED BY <2>3 DEF end_membership, GroupState, SameOrder
<1>4. Offboarded(s, w) \in GroupState /\ SameOrder(s, Offboarded(s, w))
  BY <1>3 DEF Offboarded, GroupState, SameOrder
<1> QED BY <1>1, <1>2, <1>4

(* What the clients send.                                                  *)
LEMMA CommitsType ==
    ASSUME NEW d \in Commits
    PROVE  Sendable(d) /\ d.kind = "Commit" /\ d.group \in Groups
<1>1. PICK g \in Groups, e \in 1..MaxEpoch, w \in Wallets, R \in RecipientLists,
           c \in Ciphertexts : d = Draft(g, e, "Commit", w, R, c)
  BY DEF Commits
<1> QED BY <1>1, BoundsAssumption, RecipientsAssumption
        DEF Draft, Sendable, Envelope, Kinds

(* Welcomes, Proposals and Applications are sendable.                      *)
LEMMA OthersType ==
    ASSUME TypeOK, NEW k \in Kinds \ {"Commit"}, NEW d \in Others(k)
    PROVE  Sendable(d) /\ d.kind = k /\ d.group \in DOMAIN groups
<1>1. PICK g \in DOMAIN groups, w \in Wallets, R \in RecipientLists,
           c \in Ciphertexts : d = Draft(g, groups[g].current_epoch, k, w, R, c)
  BY DEF Others
<1>2. g \in Groups /\ groups[g].current_epoch \in Nat
  BY DEF TypeOK, GroupState
<1> QED BY <1>1, <1>2, RecipientsAssumption DEF Draft, Sendable, Envelope

(* Everything submit is given is sendable.                                 *)
LEMMA SubmissionsType ==
    ASSUME TypeOK, NEW d \in Submissions
    PROVE  Sendable(d)
<1>1. PICK k \in SubmitKinds : d \in (IF k = "Commit" THEN Commits ELSE Others(k))
  BY DEF Submissions
<1>2. k \in Kinds
  BY KindsAssumption DEF Kinds
<1> QED BY <1>1, <1>2, CommitsType, OthersType

(* How often an envelope names a wallet is a number, and so many copies of  *)
(* it are a sequence.                                                      *)
LEMMA CopiesType ==
    ASSUME NEW e \in Envelope, NEW w
    PROVE  Copies(e, w) \in Nat
<1> DEFINE R == {i \in DOMAIN e.recipients : e.recipients[i] = w}
<1>1. e.recipients \in Seq(Wallets)
  BY DEF Envelope
<1>2. IsFiniteSet(1..Len(e.recipients))
  BY <1>1, FS_Interval
<1>3. R \subseteq 1..Len(e.recipients)
  BY <1>1
<1>4. IsFiniteSet(R)
  BY <1>2, <1>3, FS_Subset
<1> QED BY <1>4, FS_CardinalityType DEF Copies

LEMMA CopiesSeq ==
    ASSUME NEW e \in Envelope, NEW n \in Nat
    PROVE  /\ [i \in 1..n |-> e] \in Seq(Envelope)
           /\ Len([i \in 1..n |-> e]) = n
  OBVIOUS

(* submit on the append path keeps the types of all it touches.            *)
LEMMA DeliverType ==
    ASSUME TypeOK, NEW s \in GroupState, NEW d, Sendable(d),
           NEW after \in GroupState, NEW events \in Seq(AuditEvent),
           Deliver(s, d, after, events)
    PROVE  /\ DOMAIN groups' = DOMAIN groups
           /\ \A g \in DOMAIN groups' : groups'[g] \in GroupState
           /\ mailboxes' \in [Wallets -> Seq(Envelope)]
           /\ audit' \in Seq(AuditEvent)
<1>1. Stamp(s, d) \in Envelope
  BY AppendedType
<1>2. Receipt(Stamp(s, d)) \in AuditEvent
  BY <1>1 DEF Receipt, Event, AuditEvent, AuditTypes, Envelope
<1>3. audit' \in Seq(AuditEvent)
  <2>1. <<Receipt(Stamp(s, d))>> \in Seq(AuditEvent)
    BY <1>2
  <2>2. audit \o <<Receipt(Stamp(s, d))>> \in Seq(AuditEvent)
    BY <2>1 DEF TypeOK
  <2> QED BY <2>2 DEF Deliver
<1>4. mailboxes' \in [Wallets -> Seq(Envelope)]
  <2>1. ASSUME NEW w \in Wallets
        PROVE  mailboxes[w] \o [i \in 1..Copies(Stamp(s, d), w) |-> Stamp(s, d)]
                 \in Seq(Envelope)
    <3>1. mailboxes[w] \in Seq(Envelope)
      BY DEF TypeOK
    <3>2. [i \in 1..Copies(Stamp(s, d), w) |-> Stamp(s, d)] \in Seq(Envelope)
      BY <1>1, CopiesType, CopiesSeq
    <3> QED BY <3>1, <3>2, ConcatProperties
  <2> QED BY <2>1 DEF Deliver, FanOut
<1>5. /\ DOMAIN groups' = DOMAIN groups
      /\ \A g \in DOMAIN groups' : groups'[g] \in GroupState
  BY DEF Deliver, TypeOK
<1> QED BY <1>3, <1>4, <1>5

(* How often a wallet was removed is a number.                             *)
LEMMA RemovalsType ==
    ASSUME TypeOK, NEW g, NEW w
    PROVE  Removals(g, w) \in Nat
<1> DEFINE R == {i \in DOMAIN audit : audit[i].type = "MemberRemoved"
                                      /\ audit[i].group = g /\ audit[i].who = w}
<1>1. IsFiniteSet(1..Len(audit))
  BY FS_Interval DEF TypeOK
<1>2. R \subseteq 1..Len(audit)
  BY DEF TypeOK
<1>3. IsFiniteSet(R)
  BY <1>1, <1>2, FS_Subset
<1> QED BY <1>3, FS_CardinalityType DEF Removals
-----------------------------------------------------------------------------
(* Every method keeps the types.                                           *)
LEMMA TypeStep ==
    ASSUME TypeOK, [Next]_vars
    PROVE  TypeOK'
<1> USE DEF inviteVars
<1>1. ASSUME NEW w \in Wallets, Authenticate(w) PROVE TypeOK'
  BY <1>1 DEF Authenticate, TypeOK
<1>2. ASSUME NEW w \in Wallets, EndSession(w) PROVE TypeOK'
  BY <1>2 DEF EndSession, TypeOK
<1>3. ASSUME NEW w \in Wallets, Fetch(w) PROVE TypeOK'
  <2>1. fetched[w] \o mailboxes[w] \in Seq(Envelope)
    BY DEF TypeOK
  <2>2. /\ fetched' \in [Wallets -> Seq(Envelope)]
        /\ mailboxes' \in [Wallets -> Seq(Envelope)]
    BY <1>3, <2>1 DEF Fetch, TypeOK
  <2> QED BY <1>3, <2>2 DEF Fetch, TypeOK
<1>4. ASSUME NEW w \in Wallets, NEW g \in Groups, RegisterGroup(w, g) PROVE TypeOK'
  <2>1. Event("GroupCreated", g, w, 0) \in AuditEvent
    BY DEF Event, AuditEvent, AuditTypes
  <2>2. audit' \in Seq(AuditEvent)
    BY <1>4, <2>1 DEF RegisterGroup, TypeOK
  <2>3. /\ DOMAIN groups' \subseteq Groups
        /\ \A h \in DOMAIN groups' : groups'[h] \in GroupState
    BY <1>4, NewGroupType DEF RegisterGroup, Put, TypeOK
  <2> QED BY <1>4, <2>2, <2>3 DEF RegisterGroup, TypeOK
<1>5. ASSUME NEW d \in Submissions, Submit(d) PROVE TypeOK'
  <2>1. Sendable(d) /\ groups[d.group] \in GroupState /\ <<>> \in Seq(AuditEvent)
    BY <1>5, SubmissionsType DEF Submit, TypeOK
  <2>2. Appended(groups[d.group], d) \in GroupState
    BY <2>1, AppendedType
  <2>3. Deliver(groups[d.group], d, Appended(groups[d.group], d), <<>>)
    BY <1>5 DEF Submit
  <2> HIDE DEF Deliver
  <2>4. /\ DOMAIN groups' = DOMAIN groups
        /\ \A g \in DOMAIN groups' : groups'[g] \in GroupState
        /\ mailboxes' \in [Wallets -> Seq(Envelope)]
        /\ audit' \in Seq(AuditEvent)
    BY <2>1, <2>2, <2>3, DeliverType
  <2> QED BY <1>5, <2>4 DEF Submit, TypeOK
<1>6. ASSUME NEW d \in Submissions, SubmitReplay(d) PROVE TypeOK'
  BY <1>6 DEF SubmitReplay, TypeOK
<1>7. ASSUME NEW j \in Wallets, NEW d \in Others("Welcome"), Onboard(j, d) PROVE TypeOK'
  <2> DEFINE s == WithMember(groups[d.group], j)
             after == [Appended(s, d) EXCEPT !.ratchet_tree = s.current_epoch]
             events == <<Event("MemberAdded", d.group, j, s.current_epoch)>>
  <2>1. Sendable(d) /\ d.group \in DOMAIN groups
    BY OthersType DEF Kinds
  <2>2. s \in GroupState
    BY <2>1, RosterTypes DEF TypeOK
  <2>3. after \in GroupState
    <3>1. Appended(s, d) \in GroupState BY <2>1, <2>2, AppendedType
    <3> QED BY <3>1, <2>2 DEF GroupState
  <2>4. events \in Seq(AuditEvent)
    <3>1. Event("MemberAdded", d.group, j, s.current_epoch) \in AuditEvent
      BY <2>1, <2>2 DEF Event, AuditEvent, AuditTypes, GroupState, TypeOK
    <3> QED BY <3>1
  <2>5. Deliver(s, d, after, events)
    BY <1>7 DEF Onboard
  <2> HIDE DEF s, after, events
  <2>6. /\ DOMAIN groups' = DOMAIN groups
        /\ \A g \in DOMAIN groups' : groups'[g] \in GroupState
        /\ mailboxes' \in [Wallets -> Seq(Envelope)]
        /\ audit' \in Seq(AuditEvent)
    BY <2>1, <2>2, <2>3, <2>4, <2>5, DeliverType
  <2> QED BY <1>7, <2>6 DEF Onboard, TypeOK
<1>8. ASSUME NEW j \in Wallets, NEW d \in Others("Welcome"), OnboardRefused(j, d)
      PROVE  TypeOK'
  <2>1. groups[d.group] \in GroupState
    BY <1>8 DEF OnboardRefused, MayOnboard, TypeOK
  <2>2. UndoAdd(WithMember(groups[d.group], j), j, j \notin groups[d.group].members)
          \in GroupState
    BY <2>1, RosterTypes
  <2> QED BY <1>8, <2>2 DEF OnboardRefused, TypeOK
<1>9. ASSUME NEW r \in Wallets, NEW d \in Commits, Offboard(r, d) PROVE TypeOK'
  <2> DEFINE s == groups[d.group]
             t == Appended(s, d)
             after == Offboarded(t, r)
             events == OffboardEvents(t, d.group, r)
  <2>1. Sendable(d) /\ s \in GroupState /\ d.group \in Groups
    BY <1>9, CommitsType DEF Offboard, MayOffboard, TypeOK
  <2>2. t \in GroupState
    BY <2>1, AppendedType
  <2>3. after \in GroupState
    BY <2>2, RosterTypes
  <2>4. events \in Seq(AuditEvent)
    BY <2>1, <2>2 DEF OffboardEvents, Event, AuditEvent, AuditTypes, GroupState
  <2>5. Deliver(s, d, after, events)
    BY <1>9 DEF Offboard
  <2> HIDE DEF s, t, after, events
  <2>6. /\ DOMAIN groups' = DOMAIN groups
        /\ \A g \in DOMAIN groups' : groups'[g] \in GroupState
        /\ mailboxes' \in [Wallets -> Seq(Envelope)]
        /\ audit' \in Seq(AuditEvent)
    BY <2>1, <2>3, <2>4, <2>5, DeliverType
  <2> QED BY <1>9, <2>6 DEF Offboard, TypeOK
<1>10. ASSUME NEW r \in Wallets, NEW d \in Commits, OffboardReplay(r, d) PROVE TypeOK'
  <2>1. groups[d.group] \in GroupState /\ d.group \in Groups
    BY <1>10, CommitsType DEF OffboardReplay, MayOffboard, TypeOK
  <2>2. Offboarded(groups[d.group], r) \in GroupState
    BY <2>1, RosterTypes
  <2>3. OffboardEvents(groups[d.group], d.group, r) \in Seq(AuditEvent)
    BY <2>1 DEF OffboardEvents, Event, AuditEvent, AuditTypes, GroupState
  <2>4. audit' \in Seq(AuditEvent)
    BY <1>10, <2>3 DEF OffboardReplay, TypeOK
  <2> QED BY <1>10, <2>2, <2>4 DEF OffboardReplay, TypeOK
<1>11. ASSUME NEW w \in Wallets, NEW g \in Groups, NEW t \in Tokens,
              PublishInvite(w, g, t)
       PROVE  TypeOK'
  BY <1>11 DEF PublishInvite, Put, InviteRecord, TypeOK
<1>12. ASSUME NEW w \in Wallets, NEW t \in Tokens, NEW b \in BOOLEAN,
              RevokeInvite(w, t, b)
       PROVE  TypeOK'
  BY <1>12 DEF RevokeInvite, InviteRecord, TypeOK
<1>13. ASSUME NEW w \in Wallets, NEW g \in Groups, NEW t \in Tokens,
              RedeemInvite(w, g, t)
       PROVE  TypeOK'
  <2>1. invites[t] \in InviteRecord /\ groups[g] \in GroupState
    BY <1>13 DEF RedeemInvite, Redeemable, TypeOK
  <2>2. WithMember(groups[g], w) \in GroupState
    BY <2>1, RosterTypes
  <2>3. referrals' \in Seq(ReferralRecord)
    BY <1>13, <2>1 DEF RedeemInvite, ReferralRecord, InviteRecord, TypeOK
  <2>4. \A u \in DOMAIN invites' : invites'[u] \in InviteRecord
    BY <1>13 DEF RedeemInvite, InviteRecord, TypeOK
  <2> QED BY <1>13, <2>2, <2>3, <2>4 DEF RedeemInvite, TypeOK
<1>14. ASSUME NEW t \in Tokens, ExpireInvite(t) PROVE TypeOK'
  BY <1>14 DEF ExpireInvite, InviteRecord, TypeOK
<1>15. ASSUME NEW i \in Wallets, NEW w \in Wallets, NEW r \in GrantRoles,
              NEW g \in Groups, NEW n \in 0..MaxEpoch, SignGrant(i, w, r, g, n)
       PROVE  TypeOK'
  <2>1. Removals(g, w) \in Nat
    BY RemovalsType
  <2>2. grants' \subseteq RoleAssertion
    BY <1>15, <2>1, BoundsAssumption DEF SignGrant, RoleAssertion, TypeOK
  <2> QED BY <1>15, <2>2 DEF SignGrant, TypeOK
<1>16. ASSUME NEW a \in grants, ExpireGrant(a) PROVE TypeOK'
  BY <1>16 DEF ExpireGrant, TypeOK
<1>17. CASE UNCHANGED vars
  BY <1>17 DEF vars, TypeOK
<1> QED BY <1>1, <1>2, <1>3, <1>4, <1>5, <1>6, <1>7, <1>8, <1>9, <1>10, <1>11,
           <1>12, <1>13, <1>14, <1>15, <1>16, <1>17 DEF Next

(* Every variable of the relay keeps its type, whatever the methods do.    *)
THEOREM TypeCorrect == Spec => []TypeOK
<1>1. Init => TypeOK
  BY NewGroupType, OwnerAssumption DEF Init, TypeOK
<1>2. TypeOK /\ [Next]_vars => TypeOK'
  BY TypeStep
<1> QED BY <1>1, <1>2, PTL DEF Spec
-----------------------------------------------------------------------------
(* What a step can do to the ordered part of the groups.                   *)

(* A joiner on the roster and a new ratchet tree do not touch the order.   *)
LEMMA RosterKeepsOrder ==
    ASSUME NEW s \in GroupState, NEW j \in Wallets, NEW d, Sendable(d)
    PROVE  LET t == WithMember(s, j) IN
           SameOrder(Appended(s, d),
                     [Appended(t, d) EXCEPT !.ratchet_tree = t.current_epoch])
  BY DEF WithMember, Appended, Stamp, SameOrder, GroupState

(* What the methods that touch a registered group do to its order.          *)
LEMMA MethodKinds ==
    ASSUME TypeOK
    PROVE  /\ \A d \in Submissions : Submit(d) => Appends(d)
           /\ \A j \in Wallets, d \in Others("Welcome") : Onboard(j, d) => Appends(d)
           /\ \A r \in Wallets, d \in Commits : Offboard(r, d) => Appends(d)
           /\ \A j \in Wallets, d \in Others("Welcome") : OnboardRefused(j, d) => Quiet
           /\ \A r \in Wallets, d \in Commits : OffboardReplay(r, d) => Quiet
           /\ \A w \in Wallets, g \in Groups, t \in Tokens : RedeemInvite(w, g, t) => Quiet
<1>1. ASSUME NEW d \in Submissions, Submit(d) PROVE Appends(d)
  BY <1>1, SubmissionsType DEF Submit, Deliver, Appends, SameOrder
<1>2. ASSUME NEW j \in Wallets, NEW d \in Others("Welcome"), Onboard(j, d)
      PROVE  Appends(d)
  <2>1. /\ Sendable(d) /\ d.kind = "Welcome"
        /\ d.group \in DOMAIN groups /\ groups[d.group] \in GroupState
    BY OthersType DEF Kinds, TypeOK
  <2>2. OrderOk(groups[d.group], d)
    BY <2>1 DEF OrderOk
  <2>3. SameOrder(Appended(groups[d.group], d), groups'[d.group])
    BY <1>2, <2>1, RosterKeepsOrder DEF Onboard, Deliver
  <2> QED BY <1>2, <2>1, <2>2, <2>3 DEF Appends, Onboard, Deliver
<1>3. ASSUME NEW r \in Wallets, NEW d \in Commits, Offboard(r, d) PROVE Appends(d)
  <2>1. Sendable(d) /\ d.group \in DOMAIN groups /\ groups[d.group] \in GroupState
    BY <1>3, CommitsType DEF Offboard, MayOffboard, TypeOK
  <2>2. Appended(groups[d.group], d) \in GroupState
    BY <2>1, AppendedType
  <2>3. SameOrder(Appended(groups[d.group], d), groups'[d.group])
    BY <1>3, <2>1, <2>2, RosterTypes DEF Offboard, Deliver
  <2> QED BY <1>3, <2>1, <2>3 DEF Appends, Offboard, Deliver
<1>4. ASSUME NEW j \in Wallets, NEW d \in Others("Welcome"), OnboardRefused(j, d)
      PROVE  Quiet
  <2>1. groups[d.group] \in GroupState
    BY <1>4 DEF OnboardRefused, MayOnboard, TypeOK
  <2>2. SameOrder(groups[d.group],
          UndoAdd(WithMember(groups[d.group], j), j, j \notin groups[d.group].members))
    BY <2>1, RosterTypes
  <2> QED BY <1>4, <2>2 DEF OnboardRefused, Quiet, SameOrder
<1>5. ASSUME NEW r \in Wallets, NEW d \in Commits, OffboardReplay(r, d) PROVE Quiet
  <2>1. groups[d.group] \in GroupState
    BY <1>5 DEF OffboardReplay, MayOffboard, TypeOK
  <2>2. SameOrder(groups[d.group], Offboarded(groups[d.group], r))
    BY <2>1, RosterTypes
  <2> QED BY <1>5, <2>2 DEF OffboardReplay, Quiet, SameOrder
<1>6. ASSUME NEW w \in Wallets, NEW g \in Groups, NEW t \in Tokens,
             RedeemInvite(w, g, t)
      PROVE  Quiet
  <2>1. groups[g] \in GroupState
    BY <1>6 DEF RedeemInvite, TypeOK
  <2>2. SameOrder(groups[g], WithMember(groups[g], w))
    BY <2>1, RosterTypes
  <2> QED BY <1>6, <2>2 DEF RedeemInvite, Quiet, SameOrder
<1> QED BY <1>1, <1>2, <1>3, <1>4, <1>5, <1>6

(* Whatever method runs, the groups' order is left alone, one fresh        *)
(* group is registered, or one admissible envelope is appended to one.     *)
LEMMA StepKinds ==
    ASSUME TypeOK, [Next]_vars
    PROVE  \/ Quiet
           \/ \E g \in Groups, w \in Wallets : Registers(g, w)
           \/ \E d : Appends(d)
<1>0. ASSUME groups' = groups PROVE Quiet
  BY <1>0 DEF Quiet, SameOrder
<1>7. ASSUME NEW w \in Wallets, NEW g \in Groups, RegisterGroup(w, g)
      PROVE  Registers(g, w)
  BY <1>7 DEF RegisterGroup, Registers
<1>8. CASE \E w \in Wallets : Authenticate(w) \/ EndSession(w) \/ Fetch(w)
  BY <1>0, <1>8 DEF Authenticate, EndSession, Fetch
<1>9. CASE \E d \in Submissions : SubmitReplay(d)
  BY <1>0, <1>9 DEF SubmitReplay
<1>10. CASE \E w \in Wallets, g \in Groups, t \in Tokens : PublishInvite(w, g, t)
  BY <1>0, <1>10 DEF PublishInvite
<1>11. CASE \E w \in Wallets, t \in Tokens, b \in BOOLEAN : RevokeInvite(w, t, b)
  BY <1>0, <1>11 DEF RevokeInvite
<1>12. CASE \E t \in Tokens : ExpireInvite(t)
  BY <1>0, <1>12 DEF ExpireInvite
<1>13. CASE \E i, w \in Wallets, r \in GrantRoles, g \in Groups, n \in 0..MaxEpoch :
              SignGrant(i, w, r, g, n)
  BY <1>0, <1>13 DEF SignGrant
<1>14. CASE \E a \in grants : ExpireGrant(a)
  BY <1>0, <1>14 DEF ExpireGrant
<1>15. CASE UNCHANGED vars
  BY <1>0, <1>15 DEF vars
<1> QED BY MethodKinds, <1>7, <1>8, <1>9, <1>10, <1>11, <1>12, <1>13, <1>14, <1>15
        DEF Next

-----------------------------------------------------------------------------
(* The total order.                                                        *)

GroupOrdered(s) == SeqOrder(s) /\ CommitsLogged(s) /\ CommitsOrdered(s)

(* TotalOrder is about the ordered part only.                              *)
LEMMA OrderedPart ==
    ASSUME NEW s, NEW t, SameOrder(s, t), GroupOrdered(s)
    PROVE  GroupOrdered(t)
  BY DEF SameOrder, GroupOrdered, SeqOrder, CommitsLogged, CommitsOrdered, CommitPositions

(* register_group's group has the empty order.                             *)
LEMMA NewGroupOrdered ==
    ASSUME NEW w \in Wallets
    PROVE  GroupOrdered(NewGroup(w))
<1>1. 1..0 = {} OBVIOUS
<1> QED BY <1>1 DEF NewGroup, GroupOrdered, SeqOrder, CommitsLogged, CommitsOrdered,
                    CommitPositions

(* Appending an envelope that passed submit's checks keeps the order.      *)
LEMMA AppendedOrdered ==
    ASSUME NEW s \in GroupState, NEW d, Sendable(d), OrderOk(s, d), GroupOrdered(s)
    PROVE  GroupOrdered(Appended(s, d))
<1> DEFINE t == Appended(s, d)
           n == Len(s.log) + 1
<1>1. /\ s.log \in Seq(Envelope) /\ s.next_seq \in Nat /\ s.current_epoch \in Nat
      /\ s.next_seq = Len(s.log)
      /\ d \in Envelope /\ d.epoch \in Nat
  BY DEF GroupState, GroupOrdered, SeqOrder, Sendable, Envelope
<1>2. /\ t.log = Append(s.log, Stamp(s, d))
      /\ t.next_seq = s.next_seq + 1
      /\ t.current_epoch = IF d.kind = "Commit" THEN d.epoch ELSE s.current_epoch
      /\ t.accepted_commit = IF d.kind = "Commit"
                             THEN Put(s.accepted_commit, d.epoch, d.ct)
                             ELSE s.accepted_commit
  BY DEF Appended, GroupState
<1>3. /\ Stamp(s, d).seq = Len(s.log) /\ Stamp(s, d).kind = d.kind
      /\ Stamp(s, d).epoch = d.epoch /\ Stamp(s, d).ct = d.ct
  BY <1>1 DEF Stamp, Envelope
<1>4. /\ DOMAIN s.log = 1..Len(s.log) /\ DOMAIN t.log = 1..n /\ Len(t.log) = n
      /\ Len(s.log) \in Nat
      /\ \A i \in 1..Len(s.log) : t.log[i] = s.log[i]
      /\ t.log[n] = Stamp(s, d)
  BY <1>1, <1>2
<1>5. d.kind = "Commit" => d.epoch = s.current_epoch + 1
  BY DEF OrderOk
<1> HIDE DEF t, n
<1>6. SeqOrder(t)
  BY <1>1, <1>2, <1>3, <1>4 DEF SeqOrder, GroupOrdered, n
<1>7. CommitsLogged(t)
  <2>1. DOMAIN s.accepted_commit = 1..s.current_epoch
    BY DEF GroupOrdered, CommitsLogged
  <2>2. DOMAIN t.accepted_commit = 1..t.current_epoch
    <3>1. CASE d.kind = "Commit"
      <4>1. DOMAIN t.accepted_commit = 1..s.current_epoch \cup {s.current_epoch + 1}
        BY <1>2, <1>5, <2>1, <3>1 DEF Put
      <4>2. t.current_epoch = s.current_epoch + 1
        BY <1>2, <1>5, <3>1
      <4> QED BY <1>1, <4>1, <4>2
    <3>2. CASE d.kind # "Commit"
      BY <1>2, <2>1, <3>2
    <3> QED BY <3>1, <3>2
  <2>3. ASSUME NEW e \in 1..s.current_epoch
        PROVE  /\ t.accepted_commit[e] = s.accepted_commit[e]
               /\ \E i \in CommitPositions(t, e) : t.log[i].ct = s.accepted_commit[e]
    <3>1. PICK i \in CommitPositions(s, e) : s.log[i].ct = s.accepted_commit[e]
      BY DEF GroupOrdered, CommitsLogged
    <3>2. i \in CommitPositions(t, e) /\ t.log[i].ct = s.accepted_commit[e]
      BY <1>4, <3>1 DEF CommitPositions, n
    <3>3. t.accepted_commit[e] = s.accepted_commit[e]
      BY <1>1, <1>2, <1>5, <2>1 DEF Put
    <3> QED BY <3>2, <3>3
  <2>4. CASE d.kind = "Commit"
    <3>1. n \in CommitPositions(t, d.epoch) /\ t.log[n].ct = d.ct
      BY <1>3, <1>4, <2>4 DEF CommitPositions, n
    <3>2. t.accepted_commit[d.epoch] = d.ct
      BY <1>2, <2>4 DEF Put
    <3>3. \A e \in 1..t.current_epoch : e \in 1..s.current_epoch \/ e = d.epoch
      BY <1>1, <1>2, <1>5, <2>4
    <3> QED BY <2>2, <2>3, <3>1, <3>2, <3>3 DEF CommitsLogged
  <2>5. CASE d.kind # "Commit"
    <3>1. t.current_epoch = s.current_epoch
      BY <1>2, <2>5
    <3> QED BY <2>2, <2>3, <3>1 DEF CommitsLogged
  <2> QED BY <2>4, <2>5
<1>8. CommitsOrdered(t)
  <2>1. s.current_epoch <= t.current_epoch /\ t.current_epoch \in Nat
    BY <1>1, <1>2, <1>5
  <2>2. ASSUME NEW i \in 1..Len(s.log), s.log[i].kind = "Commit"
        PROVE  /\ s.log[i].epoch \in 1..s.current_epoch
               /\ \A j \in 1..Len(s.log) :
                    j < i /\ s.log[j].kind = "Commit" => s.log[j].epoch < s.log[i].epoch
    BY <1>4, <2>2 DEF GroupOrdered, CommitsOrdered
  <2>3. ASSUME NEW i \in 1..n, t.log[i].kind = "Commit"
        PROVE  /\ t.log[i].epoch \in 1..t.current_epoch
               /\ \A j \in 1..n :
                    j < i /\ t.log[j].kind = "Commit" => t.log[j].epoch < t.log[i].epoch
    <3>1. CASE i = n
      <4>1. d.kind = "Commit" /\ t.log[i].epoch = s.current_epoch + 1
            /\ t.current_epoch = s.current_epoch + 1
        BY <1>2, <1>3, <1>4, <1>5, <2>3, <3>1
      <4>2. ASSUME NEW j \in 1..n, j < i, t.log[j].kind = "Commit"
            PROVE  t.log[j].epoch < t.log[i].epoch
        <5>1. j \in 1..Len(s.log)
          BY <1>4, <3>1, <4>2 DEF n
        <5>2. t.log[j].epoch \in 1..s.current_epoch
          BY <1>4, <2>2, <4>2, <5>1
        <5> QED BY <1>1, <4>1, <5>2
      <4> QED BY <1>1, <4>1, <4>2
    <3>2. CASE i # n
      <4>1. i \in 1..Len(s.log) /\ t.log[i] = s.log[i]
        BY <1>4, <3>2 DEF n
      <4>2. \A j \in 1..n : j < i => j \in 1..Len(s.log) /\ t.log[j] = s.log[j]
        BY <1>4, <4>1 DEF n
      <4> QED BY <1>1, <2>1, <2>2, <2>3, <4>1, <4>2
    <3> QED BY <3>1, <3>2
  <2> QED BY <1>4, <2>3 DEF CommitsOrdered
<1> QED BY <1>6, <1>7, <1>8 DEF GroupOrdered, t

(* Every step keeps TotalOrder: one case for each kind of step.            *)
LEMMA TotalOrderStep ==
    ASSUME TypeOK, TotalOrder, [Next]_vars
    PROVE  TotalOrder'
<1>1. \A g \in DOMAIN groups : groups[g] \in GroupState /\ GroupOrdered(groups[g])
  BY DEF TypeOK, TotalOrder, GroupOrdered
<1>2. SUFFICES \A g \in DOMAIN groups' : GroupOrdered(groups'[g])
  BY DEF TotalOrder, GroupOrdered, SeqOrder, CommitsLogged, CommitsOrdered, CommitPositions
<1>3. CASE Quiet
  BY <1>1, <1>3, OrderedPart DEF Quiet
<1>4. ASSUME NEW g \in Groups, NEW w \in Wallets, Registers(g, w)
      PROVE  \A h \in DOMAIN groups' : GroupOrdered(groups'[h])
  BY <1>1, <1>4, NewGroupOrdered DEF Registers, Put
<1>5. ASSUME NEW d, Appends(d)
      PROVE  \A h \in DOMAIN groups' : GroupOrdered(groups'[h])
  <2>1. GroupOrdered(Appended(groups[d.group], d))
    BY <1>1, <1>5, AppendedOrdered DEF Appends
  <2>2. GroupOrdered(groups'[d.group])
    BY <1>5, <2>1, OrderedPart DEF Appends
  <2> QED BY <1>1, <1>5, <2>2 DEF Appends
<1> QED BY <1>3, <1>4, <1>5, StepKinds

(* Every group has one total order of envelopes and one chain of Commits,   *)
(* for any number of members and any mixture of submits, replays, onboards, *)
(* offboards and redeemed invites (R1, A003, B014).                         *)
THEOREM TotalOrderHolds == Spec => []TotalOrder
<1>1. Init => TypeOK /\ TotalOrder
  BY NewGroupType, OwnerAssumption DEF Init, TypeOK, TotalOrder
<1>2. TypeOK /\ TotalOrder /\ [Next]_vars => (TypeOK /\ TotalOrder)'
  BY TypeStep, TotalOrderStep
<1> QED BY <1>1, <1>2, PTL DEF Spec
-----------------------------------------------------------------------------
(* The refinement of OrderedLog.                                           *)

(* A fresh group maps to the empty abstract order and no decisions.        *)
LEMMA EmptyOrder ==
    ASSUME NEW w \in Wallets
    PROVE  OrderOf(NewGroup(w)) = <<>> /\ DecidedOf(NewGroup(w)) = <<>>
<1>1. NewGroup(w).log = <<>> /\ NewGroup(w).current_epoch = 0
  BY DEF NewGroup
<1>2. 1..0 = {} /\ DOMAIN <<>> = {}
  OBVIOUS
<1> QED BY <1>1, <1>2 DEF OrderOf, DecidedOf

(* An append maps to an abstract append, of a decision if it is a Commit.  *)
LEMMA AppendedOrder ==
    ASSUME NEW s \in GroupState, NEW d, Sendable(d), OrderOk(s, d), GroupOrdered(s),
           NEW t, SameOrder(Appended(s, d), t)
    PROVE  /\ OrderOf(t) = Append(OrderOf(s), [kind |-> d.kind, ct |-> d.ct])
           /\ DecidedOf(t) = IF d.kind = "Commit" THEN Append(DecidedOf(s), d.ct)
                                                  ELSE DecidedOf(s)
<1>1. /\ s.log \in Seq(Envelope) /\ s.current_epoch \in Nat /\ Len(s.log) \in Nat
      /\ d \in Envelope
  BY DEF GroupState, Sendable
<1>2. /\ t.log = Append(s.log, Stamp(s, d))
      /\ t.current_epoch = IF d.kind = "Commit" THEN d.epoch ELSE s.current_epoch
      /\ t.accepted_commit = IF d.kind = "Commit"
                             THEN Put(s.accepted_commit, d.epoch, d.ct)
                             ELSE s.accepted_commit
  BY DEF Appended, GroupState, SameOrder
<1>3. /\ DOMAIN t.log = 1..(Len(s.log) + 1) /\ DOMAIN s.log = 1..Len(s.log)
      /\ \A i \in 1..Len(s.log) : t.log[i] = s.log[i]
      /\ t.log[Len(s.log) + 1].kind = d.kind /\ t.log[Len(s.log) + 1].ct = d.ct
  BY <1>1, <1>2 DEF Stamp, Envelope
<1>4. OrderOf(t) = Append(OrderOf(s), [kind |-> d.kind, ct |-> d.ct])
  <2> DEFINE M == [kind : Kinds, ct : Ciphertexts]
             n == Len(s.log)
             m == [kind |-> d.kind, ct |-> d.ct]
  <2>1. \A i \in 1..n : [kind |-> s.log[i].kind, ct |-> s.log[i].ct] \in M
    <3>1. \A i \in 1..n : s.log[i] \in Envelope
      BY <1>1
    <3> QED BY <3>1 DEF Envelope
  <2>2. OrderOf(s) = [i \in 1..n |-> [kind |-> s.log[i].kind, ct |-> s.log[i].ct]]
    BY <1>3 DEF OrderOf
  <2>3. m \in M
    BY <1>1 DEF Envelope
  <2> HIDE DEF M
  <2>4. OrderOf(s) \in Seq(M) /\ Len(OrderOf(s)) = n
    BY <1>1, <2>1, <2>2
  <2>5. /\ DOMAIN Append(OrderOf(s), m) = 1..(n + 1)
        /\ \A i \in 1..n : Append(OrderOf(s), m)[i] = OrderOf(s)[i]
        /\ Append(OrderOf(s), m)[n + 1] = m
    BY <1>1, <2>3, <2>4
  <2>6. \A i \in 1..(n + 1) : OrderOf(t)[i] = Append(OrderOf(s), m)[i]
    <3>1. \A i \in 1..n : OrderOf(t)[i] = OrderOf(s)[i]
      BY <1>1, <1>3, <2>2 DEF OrderOf
    <3>2. OrderOf(t)[n + 1] = m
      BY <1>1, <1>3 DEF OrderOf
    <3>3. \A i \in 1..(n + 1) : i \in 1..n \/ i = n + 1
      BY <1>1
    <3> QED BY <2>5, <3>1, <3>2, <3>3
  <2>7. OrderOf(t) = [i \in 1..(n + 1) |-> OrderOf(t)[i]]
    BY <1>3 DEF OrderOf
  <2>8. Append(OrderOf(s), m) = [i \in 1..(n + 1) |-> Append(OrderOf(s), m)[i]]
    BY <2>3, <2>4, <2>5
  <2> QED BY <2>6, <2>7, <2>8
<1>5. DOMAIN s.accepted_commit = 1..s.current_epoch
  BY DEF GroupOrdered, CommitsLogged
<1>6. CASE d.kind # "Commit"
  BY <1>2, <1>4, <1>6 DEF DecidedOf
<1>7. CASE d.kind = "Commit"
  <2>1. d.epoch = s.current_epoch + 1
    BY <1>7 DEF OrderOk
  <2>2. /\ t.current_epoch = s.current_epoch + 1
        /\ t.accepted_commit[s.current_epoch + 1] = d.ct
        /\ \A e \in 1..s.current_epoch : t.accepted_commit[e] = s.accepted_commit[e]
    BY <1>1, <1>2, <1>5, <1>7, <2>1 DEF Put
  <2>3. \A e \in 1..s.current_epoch : s.accepted_commit[e] \in Ciphertexts
    BY <1>5 DEF GroupState, Hashes
  <2>4. DecidedOf(s) \in Seq(Ciphertexts) /\ Len(DecidedOf(s)) = s.current_epoch
    BY <1>1, <2>3 DEF DecidedOf
  <2>5. DecidedOf(t) = Append(DecidedOf(s), d.ct)
    BY <1>1, <2>2, <2>4 DEF DecidedOf, Envelope
  <2> QED BY <1>4, <1>7, <2>5
<1> QED BY <1>6, <1>7

(* Every step maps to Post, to Decide or to a stutter of OrderedLog.       *)
LEMMA RefinementStep ==
    ASSUME TypeOK, TotalOrder, [Next]_vars
    PROVE  [Abstract!Next]_<<OrderBar, DecidedBar>>
<1>1. DOMAIN groups \subseteq Groups
  BY DEF TypeOK
<1>2. CASE Quiet
  <2>1. \A g \in DOMAIN groups : /\ OrderOf(groups'[g]) = OrderOf(groups[g])
                                 /\ DecidedOf(groups'[g]) = DecidedOf(groups[g])
    BY <1>2 DEF Quiet, SameOrder, OrderOf, DecidedOf
  <2>2. OrderBar' = OrderBar /\ DecidedBar' = DecidedBar
    BY <1>2, <2>1 DEF Quiet, OrderBar, DecidedBar
  <2> QED BY <2>2
<1>3. ASSUME NEW g \in Groups, NEW w \in Wallets, Registers(g, w)
      PROVE  OrderBar' = OrderBar /\ DecidedBar' = DecidedBar
  <2>1. /\ DOMAIN groups' = DOMAIN groups \cup {g}
        /\ groups'[g] = NewGroup(w)
        /\ \A h \in DOMAIN groups : groups'[h] = groups[h]
        /\ g \notin DOMAIN groups
    BY <1>3 DEF Registers, Put
  <2> QED BY <2>1, EmptyOrder DEF OrderBar, DecidedBar
<1>4. ASSUME NEW d, Appends(d) PROVE Abstract!Next
  <2> DEFINE s == groups[d.group]
             t == groups'[d.group]
  <2>1. /\ d.group \in DOMAIN groups /\ d.group \in Groups
        /\ d.ct \in Ciphertexts /\ d.kind \in Kinds
        /\ s \in GroupState /\ GroupOrdered(s)
    BY <1>1, <1>4 DEF Appends, Sendable, Envelope, TypeOK, TotalOrder, GroupOrdered
  <2>2. /\ OrderOf(t) = Append(OrderOf(s), [kind |-> d.kind, ct |-> d.ct])
        /\ DecidedOf(t) = IF d.kind = "Commit" THEN Append(DecidedOf(s), d.ct)
                                               ELSE DecidedOf(s)
    BY <1>4, <2>1, AppendedOrder DEF Appends
  <2>3. /\ OrderBar[d.group] = OrderOf(s) /\ DecidedBar[d.group] = DecidedOf(s)
    BY <2>1 DEF OrderBar, DecidedBar
  <2>4. /\ OrderBar' = [OrderBar EXCEPT ![d.group] = OrderOf(t)]
        /\ DecidedBar' = [DecidedBar EXCEPT ![d.group] = DecidedOf(t)]
    BY <1>4, <2>1 DEF Appends, OrderBar, DecidedBar
  <2>5. CASE d.kind = "Commit"
    <3>1. Abstract!Decide(d.group, d.ct)
      BY <2>2, <2>3, <2>4, <2>5 DEF Abstract!Decide
    <3> QED BY <2>1, <3>1 DEF Abstract!Next
  <2>6. CASE d.kind # "Commit"
    <3>1. DecidedBar' = DecidedBar
      BY <2>1, <2>2, <2>3, <2>4, <2>6 DEF DecidedBar
    <3>2. Abstract!Post(d.group, d.kind, d.ct)
      BY <2>2, <2>3, <2>4, <3>1 DEF Abstract!Post
    <3>3. d.kind \in Abstract!Messages
      BY <2>1, <2>6 DEF Kinds, Abstract!Messages
    <3> QED BY <2>1, <3>2, <3>3 DEF Abstract!Next
  <2> QED BY <2>5, <2>6
<1> QED BY <1>2, <1>3, <1>4, StepKinds

(* The relay implements OrderedLog: seen from outside, a group is a log     *)
(* that grows at its end, and every epoch is decided once and in turn.      *)
THEOREM Refinement == Spec => RefinesOrderedLog
<1>1. Init => Abstract!Init
  BY DEF Init, Abstract!Init, OrderBar, DecidedBar
<1>2. TypeOK /\ TotalOrder /\ [Next]_vars => [Abstract!Next]_<<OrderBar, DecidedBar>>
  BY RefinementStep
<1> QED BY <1>1, <1>2, TypeCorrect, TotalOrderHolds, PTL
        DEF Spec, RefinesOrderedLog, Abstract!Spec

-----------------------------------------------------------------------------
(* The audit chain, one event at a time.                                   *)

Removes(e, g, w) == e.type = "MemberRemoved" /\ e.group = g /\ e.who = w
Admits(e, g, w) ==
    e.type \in {"GroupCreated", "MemberAdded"} /\ e.group = g /\ e.who = w

RemovedIn(seq, g, w) == {i \in DOMAIN seq : Removes(seq[i], g, w)}
AdmittedIn(seq, g, w) ==
    \E i \in DOMAIN seq :
        /\ Admits(seq[i], g, w)
        /\ \A j \in DOMAIN seq : j > i => ~Removes(seq[j], g, w)

RemovalsIn(seq, g, w) == Cardinality(RemovedIn(seq, g, w))

(* Positions picked out of a sequence are finite in number.                *)
LEMMA PositionsFinite ==
    ASSUME NEW S, NEW seq \in Seq(S), NEW T \in SUBSET DOMAIN seq
    PROVE  IsFiniteSet(T)
<1>1. DOMAIN seq = 1..Len(seq) /\ Len(seq) \in Nat
  OBVIOUS
<1>2. IsFiniteSet(1..Len(seq))
  BY <1>1, FS_Interval
<1> QED BY <1>1, <1>2, FS_Subset

(* Removals are a number.                                                  *)
LEMMA RemovalsInType ==
    ASSUME NEW seq \in Seq(AuditEvent), NEW g, NEW w
    PROVE  RemovalsIn(seq, g, w) \in Nat
<1>1. IsFiniteSet(RemovedIn(seq, g, w))
  BY PositionsFinite DEF RemovedIn
<1> QED BY <1>1, FS_CardinalityType DEF RemovalsIn

(* One more event is one more removal, or none.                            *)
LEMMA RemovalsAppend ==
    ASSUME NEW seq \in Seq(AuditEvent), NEW e \in AuditEvent, NEW g, NEW w
    PROVE  /\ RemovalsIn(seq, g, w) \in Nat
           /\ RemovalsIn(Append(seq, e), g, w) =
                RemovalsIn(seq, g, w) + (IF Removes(e, g, w) THEN 1 ELSE 0)
<1> DEFINE n == Len(seq)
           R == RemovedIn(seq, g, w)
<1>1. /\ n \in Nat /\ DOMAIN seq = 1..n
      /\ DOMAIN Append(seq, e) = 1..(n + 1)
      /\ \A i \in 1..n : Append(seq, e)[i] = seq[i]
      /\ Append(seq, e)[n + 1] = e
  BY AppendProperties
<1> HIDE DEF n
<1>2. IsFiniteSet(R)
  BY PositionsFinite DEF RemovedIn
<1>3. n + 1 \notin R
  BY <1>1 DEF RemovedIn
<1>4. RemovedIn(Append(seq, e), g, w) = IF Removes(e, g, w) THEN R \cup {n + 1} ELSE R
  BY <1>1 DEF RemovedIn
<1>5. Cardinality(R) \in Nat
  BY <1>2, FS_CardinalityType
<1>6. Cardinality(R \cup {n + 1}) = Cardinality(R) + 1
  BY <1>2, <1>3, FS_AddElement
<1> QED BY <1>4, <1>5, <1>6 DEF RemovalsIn

(* One more event admits, removes, or leaves the last word as it was.      *)
LEMMA AdmittedAppend ==
    ASSUME NEW seq \in Seq(AuditEvent), NEW e \in AuditEvent, NEW g, NEW w
    PROVE  AdmittedIn(Append(seq, e), g, w) <=>
             Admits(e, g, w) \/ (AdmittedIn(seq, g, w) /\ ~Removes(e, g, w))
<1> DEFINE n == Len(seq)
           t == Append(seq, e)
<1>1. /\ n \in Nat /\ DOMAIN seq = 1..n
      /\ DOMAIN t = 1..(n + 1)
      /\ \A i \in 1..n : t[i] = seq[i]
      /\ t[n + 1] = e
  BY AppendProperties
<1> HIDE DEF n, t
<1>2. ASSUME Admits(e, g, w) PROVE AdmittedIn(t, g, w)
  <2>1. n + 1 \in DOMAIN t /\ \A j \in DOMAIN t : ~(j > n + 1)
    BY <1>1
  <2> QED BY <1>1, <1>2, <2>1 DEF AdmittedIn
<1>3. ASSUME AdmittedIn(seq, g, w), ~Removes(e, g, w) PROVE AdmittedIn(t, g, w)
  <2>1. PICK i \in 1..n : /\ Admits(seq[i], g, w)
                          /\ \A j \in 1..n : j > i => ~Removes(seq[j], g, w)
    BY <1>1, <1>3 DEF AdmittedIn
  <2>2. Admits(t[i], g, w) /\ i \in DOMAIN t
    BY <1>1, <2>1
  <2>3. \A j \in DOMAIN t : j > i => ~Removes(t[j], g, w)
    <3>1. \A j \in 1..(n + 1) : j \in 1..n \/ j = n + 1
      BY <1>1
    <3> QED BY <1>1, <1>3, <2>1, <3>1
  <2> QED BY <2>2, <2>3 DEF AdmittedIn
<1>4. ASSUME AdmittedIn(t, g, w), ~Admits(e, g, w)
      PROVE  AdmittedIn(seq, g, w) /\ ~Removes(e, g, w)
  <2>1. PICK i \in 1..(n + 1) : /\ Admits(t[i], g, w)
                                /\ \A j \in 1..(n + 1) : j > i => ~Removes(t[j], g, w)
    BY <1>1, <1>4 DEF AdmittedIn
  <2>2. i \in 1..n /\ Admits(seq[i], g, w)
    <3>1. i # n + 1
      BY <1>1, <1>4, <2>1
    <3> QED BY <1>1, <2>1, <3>1
  <2>3. \A j \in 1..n : j > i => ~Removes(seq[j], g, w)
    BY <1>1, <2>1
  <2>4. ~Removes(e, g, w)
    <3>1. n + 1 \in 1..(n + 1) /\ n + 1 > i
      BY <1>1, <2>2
    <3> QED BY <1>1, <2>1, <3>1
  <2> QED BY <1>1, <2>2, <2>3, <2>4 DEF AdmittedIn
<1> QED BY <1>2, <1>3, <1>4 DEF t

(* The groups a longer chain speaks of.                                    *)
LEMMA EventGroups ==
    ASSUME NEW seq \in Seq(AuditEvent), NEW e \in AuditEvent, NEW G,
           \A i \in DOMAIN seq : seq[i].group \in G, e.group \in G
    PROVE  \A i \in DOMAIN Append(seq, e) : Append(seq, e)[i].group \in G
<1>1. /\ DOMAIN seq = 1..Len(seq) /\ DOMAIN Append(seq, e) = 1..(Len(seq) + 1)
      /\ \A i \in 1..(Len(seq) + 1) : i \in 1..Len(seq) \/ i = Len(seq) + 1
  BY AppendProperties
<1> QED BY <1>1, AppendProperties

(* The operators of Relay, of the chain as it stands.                      *)
LEMMA AuditOperators ==
    ASSUME NEW g, NEW w
    PROVE  /\ Removals(g, w) = RemovalsIn(audit, g, w)
           /\ AdmittedByAudit(g, w) <=> AdmittedIn(audit, g, w)
  BY DEF Removals, RemovalsIn, RemovedIn, Removes, AdmittedByAudit, AdmittedIn, Admits

(* The same in the next state.                                             *)
LEMMA AuditOperatorsNext ==
    ASSUME NEW g, NEW w
    PROVE  /\ Removals(g, w)' = RemovalsIn(audit', g, w)
           /\ AdmittedByAudit(g, w)' <=> AdmittedIn(audit', g, w)
  BY DEF Removals, RemovalsIn, RemovedIn, Removes, AdmittedByAudit, AdmittedIn, Admits

(* The methods append their events one after the other.                    *)
LEMMA EventsAppended ==
    ASSUME NEW seq \in Seq(AuditEvent), NEW a \in AuditEvent, NEW b \in AuditEvent
    PROVE  /\ seq \o <<>> = seq
           /\ seq \o <<a>> = Append(seq, a)
           /\ seq \o <<a, b>> = Append(Append(seq, a), b)
<1>1. seq \o <<a>> = Append(seq, a)
  BY AppendIsConcat
<1>2. Append(seq, a) \o <<b>> = Append(Append(seq, a), b)
  BY AppendIsConcat, AppendProperties
<1>3. (seq \o <<a>>) \o <<b>> = seq \o (<<a>> \o <<b>>)
  BY ConcatAssociative
<1>4. <<a>> \o <<b>> = <<a, b>>
  <2>1. <<a>> \in Seq(AuditEvent) /\ Len(<<a>>) = 1 /\ <<a>>[1] = a
    OBVIOUS
  <2>2. <<a, b>> \in Seq(AuditEvent) /\ Len(<<a, b>>) = 2
        /\ <<a, b>>[1] = a /\ <<a, b>>[2] = b
    OBVIOUS
  <2>3. /\ Append(<<a>>, b) \in Seq(AuditEvent) /\ Len(Append(<<a>>, b)) = 2
        /\ Append(<<a>>, b)[1] = a /\ Append(<<a>>, b)[2] = b
    BY <2>1, AppendProperties
  <2>4. Append(<<a>>, b) = <<a, b>>
    <3>1. \A i \in 1..Len(<<a, b>>) : Append(<<a>>, b)[i] = <<a, b>>[i]
      BY <2>2, <2>3
    <3> QED BY <2>2, <2>3, <3>1, SeqEqual
  <2> QED BY <2>1, <2>4, AppendIsConcat
<1> QED BY <1>1, <1>2, <1>3, <1>4, ConcatEmptySeq

-----------------------------------------------------------------------------
(* What a step can do to the rosters and their paper trail.                *)

SameRoster(s, t) ==
    t.members = s.members /\ t.grant_generations = s.grant_generations

(* The chain as it stands, or with the receipt of one envelope. *)
Receipted ==
    {audit} \cup {Append(audit, e) : e \in {x \in AuditEvent :
                                              /\ x.type = "EnvelopeReceipt"
                                              /\ x.group \in DOMAIN groups}}

(* Only group g's roster changes. *)
OthersSame(g) ==
    /\ g \in DOMAIN groups
    /\ DOMAIN groups' = DOMAIN groups
    /\ \A h \in DOMAIN groups \ {g} : SameRoster(groups[h], groups'[h])

RosterQuiet ==
    /\ DOMAIN groups' = DOMAIN groups
    /\ \A g \in DOMAIN groups : SameRoster(groups[g], groups'[g])
    /\ audit' \in Receipted
    /\ referrals' = referrals

RosterRegisters(g, w) ==
    /\ Registers(g, w)
    /\ audit' = Append(audit, Event("GroupCreated", g, w, 0))
    /\ referrals' = referrals

RosterAdds(g, j) ==
    /\ OthersSame(g)
    /\ groups'[g].members = groups[g].members \cup {j}
    /\ groups'[g].grant_generations = groups[g].grant_generations
    /\ \E base \in Receipted, e \in AuditEvent :
          e.type = "MemberAdded" /\ Admits(e, g, j) /\ audit' = Append(base, e)
    /\ referrals' = referrals

RosterRemoves(g, r) ==
    /\ OthersSame(g)
    /\ groups'[g].members = groups[g].members \ {r}
    /\ groups'[g].grant_generations =
         [groups[g].grant_generations EXCEPT ![r] = groups[g].grant_generations[r] + 1]
    /\ \E base \in Receipted, e, f \in AuditEvent :
          /\ Removes(e, g, r)
          /\ f.type = "RoleRevoked" /\ f.group = g
          /\ audit' = Append(Append(base, e), f)
    /\ referrals' = referrals

RosterRedeems(g, j) ==
    /\ OthersSame(g)
    /\ groups'[g].members = groups[g].members \cup {j}
    /\ groups'[g].grant_generations = groups[g].grant_generations
    /\ audit' = audit
    /\ \E row \in ReferralRecord :
          row.group = g /\ row.joiner = j /\ referrals' = Append(referrals, row)

(* What submit does to a group leaves its roster alone.                     *)
LEMMA AppendedRoster ==
    ASSUME NEW s \in GroupState, NEW d
    PROVE  SameRoster(s, Appended(s, d)) /\ Appended(s, d).ratchet_tree = s.ratchet_tree
  BY DEF Appended, GroupState, SameRoster

(* The audit chain speaks of registered groups only. *)
AuditRegistered == \A i \in DOMAIN audit : audit[i].group \in DOMAIN groups

(* A receipt says nothing about who is a member.                           *)
LEMMA ReceiptedSame ==
    ASSUME TypeOK, NEW base \in Receipted
    PROVE  /\ base \in Seq(AuditEvent)
           /\ \A g, w : /\ RemovalsIn(base, g, w) = RemovalsIn(audit, g, w)
                        /\ AdmittedIn(base, g, w) <=> AdmittedIn(audit, g, w)
           /\ AuditRegistered => \A i \in DOMAIN base : base[i].group \in DOMAIN groups
<1>1. CASE base = audit
  BY <1>1 DEF TypeOK, AuditRegistered
<1>2. CASE base # audit
  <2>1. PICK e \in AuditEvent : /\ e.type = "EnvelopeReceipt"
                                /\ e.group \in DOMAIN groups
                                /\ base = Append(audit, e)
    BY <1>2 DEF Receipted
  <2>2. audit \in Seq(AuditEvent)
    BY DEF TypeOK
  <2>3. ASSUME NEW g, NEW w
        PROVE  /\ RemovalsIn(base, g, w) = RemovalsIn(audit, g, w)
               /\ AdmittedIn(base, g, w) <=> AdmittedIn(audit, g, w)
    <3>1. ~Removes(e, g, w) /\ ~Admits(e, g, w)
      BY <2>1 DEF Removes, Admits
    <3>2. /\ RemovalsIn(audit, g, w) \in Nat
          /\ RemovalsIn(base, g, w) = RemovalsIn(audit, g, w) + 0
      BY <2>1, <2>2, <3>1, RemovalsAppend
    <3> QED BY <2>1, <2>2, <3>1, <3>2, AdmittedAppend
  <2>4. AuditRegistered => \A i \in DOMAIN base : base[i].group \in DOMAIN groups
    BY <2>1, <2>2, EventGroups DEF AuditRegistered
  <2> QED BY <2>1, <2>2, <2>3, <2>4, AppendProperties
<1> QED BY <1>1, <1>2

(* submit on the append path writes its receipt first.                     *)
LEMMA DeliverReceipts ==
    ASSUME TypeOK, NEW s \in GroupState, NEW d, Sendable(d), d.group \in DOMAIN groups,
           NEW after, NEW events, Deliver(s, d, after, events)
    PROVE  \E base \in Receipted : audit' = base \o events
<1> DEFINE r == Receipt(Stamp(s, d))
<1>1. Stamp(s, d) \in Envelope /\ Stamp(s, d).group = d.group
  BY AppendedType DEF Stamp, Sendable, Envelope
<1>2. r \in AuditEvent /\ r.type = "EnvelopeReceipt" /\ r.group = d.group
  BY <1>1 DEF Receipt, Event, AuditEvent, AuditTypes, Envelope
<1>3. audit \o <<r>> = Append(audit, r)
  BY <1>2, EventsAppended DEF TypeOK
<1>4. Append(audit, r) \in Receipted
  BY <1>2 DEF Receipted
<1> QED BY <1>3, <1>4 DEF Deliver

(* Whatever method runs, it does one of these five things to the rosters.  *)
LEMMA RosterKinds ==
    ASSUME TypeOK, [Next]_vars
    PROVE  \/ RosterQuiet
           \/ \E g \in Groups, w \in Wallets : RosterRegisters(g, w)
           \/ \E g \in Groups, w \in Wallets : RosterAdds(g, w)
           \/ \E g \in Groups, w \in Wallets : RosterRemoves(g, w)
           \/ \E g \in Groups, w \in Wallets : RosterRedeems(g, w)
<1>0. ASSUME groups' = groups, audit' = audit, referrals' = referrals PROVE RosterQuiet
  BY <1>0 DEF RosterQuiet, SameRoster, Receipted
<1>1. ASSUME NEW d \in Submissions, Submit(d) PROVE RosterQuiet
  <2> DEFINE s == groups[d.group]
             after == Appended(groups[d.group], d)
  <2>1. Sendable(d) /\ d.group \in DOMAIN groups /\ s \in GroupState
    BY <1>1, SubmissionsType DEF Submit, TypeOK
  <2>2. Deliver(s, d, after, <<>>)
    BY <1>1 DEF Submit
  <2>3. SameRoster(s, after)
    BY <2>1, AppendedRoster
  <2> HIDE DEF s, after
  <2>4. audit' \in Receipted
    <3>1. PICK base \in Receipted : audit' = base \o <<>>
      BY <2>1, <2>2, DeliverReceipts
    <3>2. base \in Seq(AuditEvent)
      BY ReceiptedSame
    <3> QED BY <3>1, <3>2, ConcatEmptySeq
  <2>5. /\ DOMAIN groups' = DOMAIN groups
        /\ \A g \in DOMAIN groups : SameRoster(groups[g], groups'[g])
    BY <2>1, <2>2, <2>3 DEF Deliver, SameRoster, s
  <2> QED BY <1>1, <2>4, <2>5 DEF RosterQuiet, Submit, inviteVars
<1>2. ASSUME NEW j \in Wallets, NEW d \in Others("Welcome"), Onboard(j, d)
      PROVE  \E g \in Groups, w \in Wallets : RosterAdds(g, w)
  <2> DEFINE s == WithMember(groups[d.group], j)
             after == [Appended(s, d) EXCEPT !.ratchet_tree = s.current_epoch]
             e == Event("MemberAdded", d.group, j, s.current_epoch)
  <2>1. /\ Sendable(d) /\ d.group \in DOMAIN groups /\ d.group \in Groups
        /\ groups[d.group] \in GroupState
    BY OthersType DEF Kinds, TypeOK
  <2>2. s \in GroupState /\ s.members = groups[d.group].members \cup {j}
        /\ s.grant_generations = groups[d.group].grant_generations
    BY <2>1, RosterTypes DEF WithMember, GroupState
  <2>3. Deliver(s, d, after, <<e>>)
    BY <1>2 DEF Onboard
  <2>4. SameRoster(s, after)
    <3>1. Appended(s, d) \in GroupState
      BY <2>1, <2>2, AppendedType
    <3> QED BY <3>1, <2>2, AppendedRoster DEF SameRoster, GroupState
  <2>5. e \in AuditEvent /\ e.type = "MemberAdded" /\ Admits(e, d.group, j)
    BY <2>1, <2>2 DEF Event, AuditEvent, AuditTypes, GroupState, Admits
  <2> HIDE DEF s, after, e
  <2>6. PICK base \in Receipted : audit' = base \o <<e>>
    BY <2>1, <2>2, <2>3, DeliverReceipts
  <2>7. audit' = Append(base, e)
    <3>1. base \in Seq(AuditEvent)
      BY ReceiptedSame
    <3> QED BY <2>5, <2>6, <3>1, EventsAppended
  <2>8. /\ OthersSame(d.group)
        /\ groups'[d.group].members = groups[d.group].members \cup {j}
        /\ groups'[d.group].grant_generations = groups[d.group].grant_generations
    BY <2>1, <2>2, <2>3, <2>4 DEF Deliver, SameRoster, OthersSame
  <2>9. RosterAdds(d.group, j)
    BY <1>2, <2>5, <2>7, <2>8 DEF RosterAdds, Onboard, inviteVars
  <2> QED BY <2>1, <2>9
<1>3. ASSUME NEW j \in Wallets, NEW d \in Others("Welcome"), OnboardRefused(j, d)
      PROVE  RosterQuiet
  <2> DEFINE s == groups[d.group]
             after == UndoAdd(WithMember(groups[d.group], j), j,
                              j \notin groups[d.group].members)
  <2>1. d.group \in DOMAIN groups /\ s \in GroupState
    BY <1>3 DEF OnboardRefused, MayOnboard, TypeOK
  <2>2. groups' = [groups EXCEPT ![d.group] = after]
    BY <1>3 DEF OnboardRefused
  <2>3. SameRoster(s, after)
    BY <2>1 DEF UndoAdd, WithMember, GroupState, SameRoster
  <2> HIDE DEF s, after
  <2> QED BY <1>3, <2>1, <2>2, <2>3 DEF OnboardRefused, RosterQuiet, SameRoster,
                                        Receipted, inviteVars, s
<1>4. ASSUME NEW r \in Wallets, NEW d \in Commits, Offboard(r, d)
      PROVE  \E g \in Groups, w \in Wallets : RosterRemoves(g, w)
  <2> DEFINE s == groups[d.group]
             t == Appended(s, d)
             after == Offboarded(t, r)
             e == Event("MemberRemoved", d.group, r, t.current_epoch)
             f == Event("RoleRevoked", d.group, r, 0)
  <2>1. /\ Sendable(d) /\ d.group \in DOMAIN groups /\ d.group \in Groups
        /\ s \in GroupState
    BY <1>4, CommitsType DEF Offboard, MayOffboard, TypeOK
  <2>2. t \in GroupState /\ SameRoster(s, t)
    BY <2>1, AppendedType, AppendedRoster
  <2>3. Deliver(s, d, after, <<e, f>>)
    BY <1>4 DEF Offboard, OffboardEvents
  <2>4. /\ e \in AuditEvent /\ Removes(e, d.group, r)
        /\ f \in AuditEvent /\ f.type = "RoleRevoked" /\ f.group = d.group
    BY <2>1, <2>2 DEF Event, AuditEvent, AuditTypes, GroupState, Removes
  <2>5. /\ after.members = t.members \ {r}
        /\ after.grant_generations =
             [t.grant_generations EXCEPT ![r] = t.grant_generations[r] + 1]
    BY <2>2 DEF Offboarded, end_membership, GroupState
  <2> HIDE DEF s, t, after, e, f
  <2>6. PICK base \in Receipted : audit' = base \o <<e, f>>
    BY <2>1, <2>3, DeliverReceipts
  <2>7. audit' = Append(Append(base, e), f)
    <3>1. base \in Seq(AuditEvent)
      BY ReceiptedSame
    <3> QED BY <2>4, <2>6, <3>1, EventsAppended
  <2>8. /\ OthersSame(d.group)
        /\ groups'[d.group] = after
    BY <2>1, <2>3 DEF Deliver, SameRoster, OthersSame
  <2>9. RosterRemoves(d.group, r)
    BY <1>4, <2>2, <2>4, <2>5, <2>7, <2>8
       DEF RosterRemoves, Offboard, inviteVars, SameRoster, s
  <2> QED BY <2>1, <2>9
<1>5. ASSUME NEW r \in Wallets, NEW d \in Commits, OffboardReplay(r, d)
      PROVE  \E g \in Groups, w \in Wallets : RosterRemoves(g, w)
  <2> DEFINE s == groups[d.group]
             after == Offboarded(s, r)
             e == Event("MemberRemoved", d.group, r, s.current_epoch)
             f == Event("RoleRevoked", d.group, r, 0)
  <2>1. d.group \in DOMAIN groups /\ d.group \in Groups /\ s \in GroupState
    BY <1>5, CommitsType DEF OffboardReplay, MayOffboard, TypeOK
  <2>2. /\ groups' = [groups EXCEPT ![d.group] = after]
        /\ audit' = audit \o <<e, f>>
    BY <1>5 DEF OffboardReplay, OffboardEvents
  <2>3. /\ e \in AuditEvent /\ Removes(e, d.group, r)
        /\ f \in AuditEvent /\ f.type = "RoleRevoked" /\ f.group = d.group
    BY <2>1 DEF Event, AuditEvent, AuditTypes, GroupState, Removes
  <2>4. /\ after.members = s.members \ {r}
        /\ after.grant_generations =
             [s.grant_generations EXCEPT ![r] = s.grant_generations[r] + 1]
    BY <2>1 DEF Offboarded, end_membership, GroupState
  <2> HIDE DEF s, after, e, f
  <2>5. audit' = Append(Append(audit, e), f)
    BY <2>2, <2>3, EventsAppended DEF TypeOK
  <2>6. OthersSame(d.group) /\ groups'[d.group] = after /\ audit \in Receipted
    BY <2>1, <2>2 DEF OthersSame, SameRoster, Receipted
  <2>7. RosterRemoves(d.group, r)
    BY <1>5, <2>3, <2>4, <2>5, <2>6 DEF RosterRemoves, OffboardReplay, inviteVars, s
  <2> QED BY <2>1, <2>7
<1>6. ASSUME NEW w \in Wallets, NEW g \in Groups, NEW t \in Tokens, RedeemInvite(w, g, t)
      PROVE  RosterRedeems(g, w)
  <2> DEFINE row == [inviter |-> invites[t].inviter, joiner |-> w, group |-> g,
                     token |-> t]
  <2>1. /\ g \in DOMAIN groups /\ groups[g] \in GroupState
        /\ invites[t] \in InviteRecord
    BY <1>6 DEF RedeemInvite, Redeemable, TypeOK
  <2>2. row \in ReferralRecord /\ row.group = g /\ row.joiner = w
    BY <2>1 DEF ReferralRecord, InviteRecord
  <2>3. /\ WithMember(groups[g], w).members = groups[g].members \cup {w}
        /\ WithMember(groups[g], w).grant_generations = groups[g].grant_generations
    BY <2>1 DEF WithMember, GroupState
  <2>4. /\ OthersSame(g)
        /\ groups'[g] = WithMember(groups[g], w)
    BY <1>6, <2>1 DEF RedeemInvite, OthersSame, SameRoster
  <2>5. referrals' = Append(referrals, row) /\ audit' = audit
    BY <1>6 DEF RedeemInvite
  <2> QED BY <2>2, <2>3, <2>4, <2>5 DEF RosterRedeems
<1>7. ASSUME NEW w \in Wallets, NEW g \in Groups, RegisterGroup(w, g)
      PROVE  RosterRegisters(g, w)
  BY <1>7 DEF RegisterGroup, Registers, RosterRegisters, inviteVars
<1>8. CASE \E w \in Wallets : Authenticate(w) \/ EndSession(w) \/ Fetch(w)
  BY <1>0, <1>8 DEF Authenticate, EndSession, Fetch, inviteVars
<1>9. CASE \E d \in Submissions : SubmitReplay(d)
  BY <1>0, <1>9 DEF SubmitReplay, inviteVars
<1>10. CASE \E w \in Wallets, g \in Groups, t \in Tokens : PublishInvite(w, g, t)
  BY <1>0, <1>10 DEF PublishInvite
<1>11. CASE \E w \in Wallets, t \in Tokens, b \in BOOLEAN : RevokeInvite(w, t, b)
  BY <1>0, <1>11 DEF RevokeInvite
<1>12. CASE \E t \in Tokens : ExpireInvite(t)
  BY <1>0, <1>12 DEF ExpireInvite
<1>13. CASE \E i, w \in Wallets, r \in GrantRoles, g \in Groups, n \in 0..MaxEpoch :
              SignGrant(i, w, r, g, n)
  BY <1>0, <1>13 DEF SignGrant, inviteVars
<1>14. CASE \E a \in grants : ExpireGrant(a)
  BY <1>0, <1>14 DEF ExpireGrant, inviteVars
<1>15. CASE UNCHANGED vars
  BY <1>0, <1>15 DEF vars
<1> QED BY <1>1, <1>2, <1>3, <1>4, <1>5, <1>6, <1>7, <1>8, <1>9, <1>10, <1>11,
           <1>12, <1>13, <1>14, <1>15 DEF Next

-----------------------------------------------------------------------------
(* Rosters and authority.                                                  *)

(* A wallet's grant generation is the number of its removals on record. *)
GenerationsCount ==
    \A g \in DOMAIN groups, w \in Wallets :
        groups[g].grant_generations[w] = Removals(g, w)

(* The same, and RosterAccounted, of one group in the words of this module. *)
GroupAccounted(s, seq, refs, g) ==
    \A w \in Wallets :
        /\ s.grant_generations[w] = RemovalsIn(seq, g, w)
        /\ AdmittedIn(seq, g, w) => w \in s.members
        /\ w \in s.members =>
             AdmittedIn(seq, g, w) \/ \E i \in DOMAIN refs : refs[i].group = g
                                                          /\ refs[i].joiner = w

(* GroupAccounted of every group is what the two invariants say.           *)
LEMMA AccountedParts ==
    GenerationsCount /\ RosterAccounted <=>
      \A g \in DOMAIN groups : GroupAccounted(groups[g], audit, referrals, g)
<1>1. \A g, w : /\ Removals(g, w) = RemovalsIn(audit, g, w)
                /\ AdmittedByAudit(g, w) <=> AdmittedIn(audit, g, w)
  BY AuditOperators
<1> QED BY <1>1 DEF GenerationsCount, RosterAccounted, GroupAccounted, ReferredInto

(* And in the next state.                                                  *)
LEMMA AccountedPartsNext ==
    (GenerationsCount /\ RosterAccounted)' <=>
      \A g \in DOMAIN groups' : GroupAccounted(groups'[g], audit', referrals', g)
<1>1. \A g, w : /\ Removals(g, w)' = RemovalsIn(audit', g, w)
                /\ AdmittedByAudit(g, w)' <=> AdmittedIn(audit', g, w)
  BY AuditOperatorsNext
<1> QED BY <1>1 DEF GenerationsCount, RosterAccounted, GroupAccounted, ReferredInto

(* A chain says nothing of a group it does not name.                       *)
LEMMA UnknownGroup ==
    ASSUME NEW seq \in Seq(AuditEvent), NEW g, \A i \in DOMAIN seq : seq[i].group # g, NEW w
    PROVE  RemovalsIn(seq, g, w) = 0 /\ ~AdmittedIn(seq, g, w)
<1>1. RemovedIn(seq, g, w) = {}
  BY DEF RemovedIn, Removes
<1> QED BY <1>1, FS_EmptySet DEF RemovalsIn, AdmittedIn, Admits

(* Every step keeps rosters and paper trail in agreement.                  *)
LEMMA RosterStep ==
    ASSUME TypeOK, GenerationsCount, RosterAccounted, AuditRegistered, [Next]_vars
    PROVE  /\ (GenerationsCount /\ RosterAccounted)'
           /\ AuditRegistered'
           /\ DOMAIN groups \subseteq DOMAIN groups'
           /\ \A g \in DOMAIN groups, w \in Wallets :
                RemovalsIn(audit, g, w) <= RemovalsIn(audit', g, w)
<1> DEFINE Acc(g) == GroupAccounted(groups'[g], audit', referrals', g)
           Grows == \A g \in DOMAIN groups, w \in Wallets :
                      RemovalsIn(audit, g, w) <= RemovalsIn(audit', g, w)
           Named == \A i \in DOMAIN audit' : audit'[i].group \in DOMAIN groups'
<1>1. /\ \A g \in DOMAIN groups : GroupAccounted(groups[g], audit, referrals, g)
      /\ audit \in Seq(AuditEvent) /\ referrals \in Seq(ReferralRecord)
      /\ \A g \in DOMAIN groups : groups[g] \in GroupState
      /\ \A g, w : RemovalsIn(audit, g, w) \in Nat
  <2>1. \A g, w : RemovalsIn(audit, g, w) \in Nat
    BY RemovalsType, AuditOperators
  <2> QED BY <2>1, AccountedParts DEF TypeOK
<1>2. SUFFICES /\ \A g \in DOMAIN groups' : Acc(g)
               /\ Named
               /\ DOMAIN groups \subseteq DOMAIN groups'
               /\ Grows
  BY AccountedPartsNext DEF AuditRegistered
<1>3. CASE RosterQuiet
  <2>1. audit' \in Receipted
    BY <1>3 DEF RosterQuiet
  <2>2. \A g, w : /\ RemovalsIn(audit', g, w) = RemovalsIn(audit, g, w)
                  /\ AdmittedIn(audit', g, w) <=> AdmittedIn(audit, g, w)
    BY <2>1, ReceiptedSame
  <2>3. Named
    BY <1>3, <2>1, ReceiptedSame DEF RosterQuiet
  <2> QED BY <1>1, <1>3, <2>2, <2>3 DEF RosterQuiet, SameRoster, GroupAccounted
<1>4. ASSUME NEW g \in Groups, NEW w \in Wallets, RosterRegisters(g, w)
      PROVE  /\ \A h \in DOMAIN groups' : Acc(h)
             /\ Named
             /\ DOMAIN groups \subseteq DOMAIN groups'
             /\ Grows
  <2> DEFINE e == Event("GroupCreated", g, w, 0)
  <2>1. /\ g \notin DOMAIN groups /\ DOMAIN groups' = DOMAIN groups \cup {g}
        /\ groups'[g] = NewGroup(w)
        /\ \A h \in DOMAIN groups : groups'[h] = groups[h]
        /\ audit' = Append(audit, e) /\ referrals' = referrals
    BY <1>4 DEF RosterRegisters, Registers, Put
  <2>2. /\ e \in AuditEvent /\ e.group = g
        /\ \A h, v : ~Removes(e, h, v)
        /\ \A h, v : Admits(e, h, v) <=> h = g /\ v = w
    BY DEF Event, AuditEvent, AuditTypes, Removes, Admits
  <2> HIDE DEF e
  <2>3. \A h, v : RemovalsIn(audit', h, v) = RemovalsIn(audit, h, v)
    BY <1>1, <2>1, <2>2, RemovalsAppend
  <2>4. \A h, v : AdmittedIn(audit', h, v) <=>
                    (h = g /\ v = w) \/ AdmittedIn(audit, h, v)
    BY <1>1, <2>1, <2>2, AdmittedAppend
  <2>5. ASSUME NEW h \in DOMAIN groups PROVE Acc(h)
    BY <1>1, <2>1, <2>3, <2>4, <2>5 DEF GroupAccounted
  <2>6. Acc(g)
    <3>1. \A i \in DOMAIN audit : audit[i].group # g
      BY <2>1 DEF AuditRegistered
    <3>2. \A v : RemovalsIn(audit', g, v) = 0 /\ (AdmittedIn(audit', g, v) <=> v = w)
      BY <1>1, <2>3, <2>4, <3>1, UnknownGroup
    <3>3. groups'[g].members = {w} /\ groups'[g].grant_generations = [v \in Wallets |-> 0]
      BY <2>1 DEF NewGroup
    <3> QED BY <3>2, <3>3 DEF GroupAccounted
  <2>7. Named
    <3>1. \A i \in DOMAIN audit : audit[i].group \in DOMAIN groups'
      BY <2>1 DEF AuditRegistered
    <3>2. e.group \in DOMAIN groups'
      BY <2>1, <2>2
    <3> QED BY <1>1, <2>1, <2>2, <3>1, <3>2, EventGroups
  <2> QED BY <1>1, <2>1, <2>3, <2>5, <2>6, <2>7
<1>5. ASSUME NEW g \in Groups, NEW j \in Wallets, RosterAdds(g, j)
      PROVE  /\ \A h \in DOMAIN groups' : Acc(h)
             /\ Named
             /\ DOMAIN groups \subseteq DOMAIN groups'
             /\ Grows
  <2>1. PICK base \in Receipted, e \in AuditEvent :
               e.type = "MemberAdded" /\ Admits(e, g, j) /\ audit' = Append(base, e)
    BY <1>5 DEF RosterAdds
  <2>2. /\ e.group = g /\ g \in DOMAIN groups /\ DOMAIN groups' = DOMAIN groups
        /\ \A h, v : ~Removes(e, h, v)
        /\ \A h, v : Admits(e, h, v) <=> h = g /\ v = j
    BY <1>5, <2>1 DEF Removes, Admits, RosterAdds, OthersSame
  <2>3. base \in Seq(AuditEvent)
    BY ReceiptedSame
  <2>4. \A h, v : RemovalsIn(audit', h, v) = RemovalsIn(audit, h, v)
    BY <1>1, <2>1, <2>2, <2>3, RemovalsAppend, ReceiptedSame
  <2>5. \A h, v : AdmittedIn(audit', h, v) <=>
                    (h = g /\ v = j) \/ AdmittedIn(audit, h, v)
    BY <2>1, <2>2, <2>3, AdmittedAppend, ReceiptedSame
  <2>6. ASSUME NEW h \in DOMAIN groups PROVE Acc(h)
    BY <1>1, <1>5, <2>4, <2>5 DEF GroupAccounted, RosterAdds, OthersSame, SameRoster
  <2>7. Named
    BY <2>1, <2>2, <2>3, EventGroups, ReceiptedSame
  <2> QED BY <1>1, <2>2, <2>4, <2>6, <2>7
<1>6. ASSUME NEW g \in Groups, NEW r \in Wallets, RosterRemoves(g, r)
      PROVE  /\ \A h \in DOMAIN groups' : Acc(h)
             /\ Named
             /\ DOMAIN groups \subseteq DOMAIN groups'
             /\ Grows
  <2>1. PICK base \in Receipted, e \in AuditEvent, f \in AuditEvent :
               /\ Removes(e, g, r)
               /\ f.type = "RoleRevoked" /\ f.group = g
               /\ audit' = Append(Append(base, e), f)
    BY <1>6 DEF RosterRemoves
  <2>2. /\ e.group = g /\ g \in DOMAIN groups /\ DOMAIN groups' = DOMAIN groups
        /\ \A h, v : Removes(e, h, v) <=> h = g /\ v = r
        /\ \A h, v : ~Admits(e, h, v) /\ ~Admits(f, h, v) /\ ~Removes(f, h, v)
    BY <1>6, <2>1 DEF Removes, Admits, RosterRemoves, OthersSame
  <2>3. base \in Seq(AuditEvent) /\ Append(base, e) \in Seq(AuditEvent)
    BY ReceiptedSame, AppendProperties
  <2>4. \A h, v : RemovalsIn(audit', h, v) =
                     RemovalsIn(audit, h, v) + IF h = g /\ v = r THEN 1 ELSE 0
    <3> TAKE h, v
    <3>1. RemovalsIn(Append(base, e), h, v) =
             RemovalsIn(audit, h, v) + IF h = g /\ v = r THEN 1 ELSE 0
      BY <2>2, <2>3, RemovalsAppend, ReceiptedSame
    <3>2. /\ RemovalsIn(Append(base, e), h, v) \in Nat
          /\ RemovalsIn(audit', h, v) = RemovalsIn(Append(base, e), h, v)
      <4>1. ~Removes(f, h, v)
        BY <2>2
      <4> DEFINE q == Append(base, e)
      <4>2. q \in Seq(AuditEvent) /\ audit' = Append(q, f)
        BY <2>1, <2>3
      <4> HIDE DEF q
      <4>3. /\ RemovalsIn(q, h, v) \in Nat
            /\ RemovalsIn(audit', h, v) = RemovalsIn(q, h, v) + 0
        BY <4>1, <4>2, RemovalsAppend
      <4> QED BY <4>3 DEF q
    <3> QED BY <3>1, <3>2
  <2>5. \A h, v : AdmittedIn(audit', h, v) <=>
                    AdmittedIn(audit, h, v) /\ ~(h = g /\ v = r)
    <3> TAKE h, v
    <3>1. AdmittedIn(Append(base, e), h, v) <=> AdmittedIn(audit, h, v) /\ ~(h = g /\ v = r)
      BY <2>2, <2>3, AdmittedAppend, ReceiptedSame
    <3>2. AdmittedIn(audit', h, v) <=> AdmittedIn(Append(base, e), h, v)
      BY <2>1, <2>2, <2>3, AdmittedAppend
    <3> QED BY <3>1, <3>2
  <2>6. ASSUME NEW h \in DOMAIN groups PROVE Acc(h)
    <3>1. CASE h = g
      <4>1. /\ groups'[g].members = groups[g].members \ {r}
            /\ groups[g].grant_generations \in [Wallets -> Nat]
            /\ \A v \in Wallets : groups'[g].grant_generations[v] =
                 groups[g].grant_generations[v] + IF v = r THEN 1 ELSE 0
        <5>1. groups[g].grant_generations \in [Wallets -> Nat]
          BY <1>1, <2>2 DEF GroupState
        <5>2. groups'[g].grant_generations =
                [groups[g].grant_generations EXCEPT ![r] = groups[g].grant_generations[r] + 1]
          BY <1>6 DEF RosterRemoves
        <5>3. \A v \in Wallets : groups[g].grant_generations[v] \in Nat
          BY <5>1
        <5> QED BY <1>6, <5>1, <5>2, <5>3 DEF RosterRemoves
      <4> QED BY <1>1, <1>6, <2>2, <2>4, <2>5, <3>1, <4>1 DEF GroupAccounted, RosterRemoves
    <3>2. CASE h # g
      BY <1>1, <1>6, <2>4, <2>5, <3>2 DEF GroupAccounted, RosterRemoves, OthersSame, SameRoster
    <3> QED BY <3>1, <3>2
  <2>7. Named
    <3>1. \A i \in DOMAIN Append(base, e) : Append(base, e)[i].group \in DOMAIN groups
      BY <2>2, <2>3, EventGroups, ReceiptedSame
    <3> QED BY <2>1, <2>2, <2>3, <3>1, EventGroups
  <2> QED BY <1>1, <2>2, <2>4, <2>6, <2>7
<1>7. ASSUME NEW g \in Groups, NEW j \in Wallets, RosterRedeems(g, j)
      PROVE  /\ \A h \in DOMAIN groups' : Acc(h)
             /\ Named
             /\ DOMAIN groups \subseteq DOMAIN groups'
             /\ Grows
  <2>1. PICK row \in ReferralRecord :
               row.group = g /\ row.joiner = j /\ referrals' = Append(referrals, row)
    BY <1>7 DEF RosterRedeems
  <2>2. DOMAIN groups' = DOMAIN groups /\ audit' = audit
    BY <1>7 DEF RosterRedeems, OthersSame
  <2>3. /\ \A i \in DOMAIN referrals : i \in DOMAIN referrals' /\ referrals'[i] = referrals[i]
        /\ \E i \in DOMAIN referrals' : referrals'[i].group = g /\ referrals'[i].joiner = j
    BY <1>1, <2>1, AppendProperties
  <2>4. ASSUME NEW h \in DOMAIN groups PROVE Acc(h)
    <3>1. /\ groups'[h].grant_generations = groups[h].grant_generations
          /\ groups'[h].members = groups[h].members \/ (h = g /\ groups'[h].members = groups[h].members \cup {j})
      BY <1>7 DEF RosterRedeems, OthersSame, SameRoster
    <3>2. GroupAccounted(groups[h], audit, referrals, h)
      BY <1>1
    <3>3. ASSUME NEW w \in Wallets, w \in groups[h].members
          PROVE  AdmittedIn(audit, h, w)
                 \/ \E i \in DOMAIN referrals' : referrals'[i].group = h /\ referrals'[i].joiner = w
      BY <2>3, <3>2, <3>3 DEF GroupAccounted
    <3> HIDE <2>3
    <3>4. ASSUME NEW w \in Wallets, w \in groups'[h].members
          PROVE  AdmittedIn(audit, h, w)
                 \/ \E i \in DOMAIN referrals' : referrals'[i].group = h /\ referrals'[i].joiner = w
      BY <2>3, <3>1, <3>3, <3>4
    <3> QED
      BY <2>2, <3>1, <3>2, <3>4 DEF GroupAccounted
  <2> QED BY <1>1, <2>2, <2>4 DEF AuditRegistered
<1> QED BY <1>3, <1>4, <1>5, <1>6, <1>7, RosterKinds

-----------------------------------------------------------------------------
(* Grants.                                                                 *)

(* A grant was signed in a registered group, for a generation no later than *)
(* the removals its subject then had, which are no more than now.           *)
GrantDated(a) ==
    /\ a.scope \in DOMAIN groups
    /\ a.generation <= a.removals
    /\ a.removals <= Removals(a.scope, a.subject)

GrantsDated == \A a \in grants : GrantDated(a)

(* A generation that still counts is the number of removals: nobody was     *)
(* removed since the grant was signed.                                      *)
LEMMA AuthorityFollows ==
    ASSUME TypeOK, GenerationsCount, GrantsDated
    PROVE  AuthorityEndsWithMembership
<1>1. ASSUME NEW g \in DOMAIN groups, NEW a \in grants, GrantAuthorizes(a, a.subject, g)
      PROVE  a.removals = Removals(g, a.subject)
  <2>1. /\ a.scope = g /\ a.subject \in Wallets /\ a.removals \in Nat
        /\ a.generation = groups[g].grant_generations[a.subject]
    BY <1>1 DEF GrantAuthorizes, VerifyGrantForGroup, TypeOK, RoleAssertion
  <2>2. a.generation = Removals(g, a.subject) /\ Removals(g, a.subject) \in Nat
    BY <2>1, RemovalsType DEF GenerationsCount
  <2>3. a.generation <= a.removals /\ a.removals <= Removals(g, a.subject)
    BY <2>1 DEF GrantsDated, GrantDated
  <2> QED BY <2>1, <2>2, <2>3
<1>2. ASSUME NEW g \in DOMAIN groups, NEW w \in Wallets, CreatorAuthorizes(w, g)
      PROVE  Removals(g, w) = 0
  BY <1>2 DEF CreatorAuthorizes, GenerationsCount
<1> QED BY <1>1, <1>2 DEF AuthorityEndsWithMembership

(* Grants come from sign_group_grant only, and removals are never undone.   *)
LEMMA GrantsStep ==
    ASSUME TypeOK, GenerationsCount, RosterAccounted, AuditRegistered, GrantsDated,
           [Next]_vars
    PROVE  GrantsDated'
<1>1. /\ DOMAIN groups \subseteq DOMAIN groups'
      /\ \A g \in DOMAIN groups, w \in Wallets :
           RemovalsIn(audit, g, w) <= RemovalsIn(audit', g, w)
      /\ TypeOK'
  BY RosterStep, TypeStep
<1>2. ASSUME NEW a \in RoleAssertion, GrantDated(a) PROVE GrantDated(a)'
  <2>1. /\ Removals(a.scope, a.subject) = RemovalsIn(audit, a.scope, a.subject)
        /\ Removals(a.scope, a.subject)' = RemovalsIn(audit', a.scope, a.subject)
        /\ Removals(a.scope, a.subject) \in Nat
        /\ Removals(a.scope, a.subject)' \in Nat
    <3>1. audit' \in Seq(AuditEvent)
      BY <1>1 DEF TypeOK
    <3> QED BY <3>1, AuditOperators, AuditOperatorsNext, RemovalsType, RemovalsInType
  <2>2. a.scope \in DOMAIN groups /\ a.subject \in Wallets
        /\ a.generation \in Nat /\ a.removals \in Nat
    BY <1>2 DEF GrantDated, RoleAssertion
  <2>3. Removals(a.scope, a.subject) <= Removals(a.scope, a.subject)'
    BY <1>1, <2>1, <2>2
  <2>4. a.removals <= Removals(a.scope, a.subject)'
    BY <1>2, <2>1, <2>2, <2>3 DEF GrantDated
  <2> QED BY <1>1, <1>2, <2>2, <2>4 DEF GrantDated
<1>3. CASE grants' \subseteq grants
  BY <1>2, <1>3 DEF GrantsDated, TypeOK
<1>4. ASSUME NEW i \in Wallets, NEW w \in Wallets, NEW r \in GrantRoles,
             NEW g \in Groups, NEW n \in 0..MaxEpoch, SignGrant(i, w, r, g, n)
      PROVE  GrantsDated'
  <2> DEFINE a == [issuer |-> i, subject |-> w, role |-> r, scope |-> g,
                   generation |-> n, removals |-> Removals(g, w)]
  <2>1. Removals(g, w) \in Nat
    BY RemovalsType
  <2>2. a \in RoleAssertion
    BY <2>1, BoundsAssumption DEF RoleAssertion
  <2>3. n <= groups[g].grant_generations[w] /\ g \in DOMAIN groups
        /\ grants' = grants \cup {a}
    BY <1>4 DEF SignGrant
  <2>4. n <= Removals(g, w)
    BY <2>3 DEF GenerationsCount
  <2>5. GrantDated(a)
    BY <2>1, <2>3, <2>4 DEF GrantDated
  <2> HIDE DEF a
  <2> QED BY <1>2, <2>2, <2>3, <2>5 DEF GrantsDated, TypeOK
<1>5. CASE \E w \in Wallets : Authenticate(w) \/ EndSession(w) \/ Fetch(w)
  BY <1>3, <1>5 DEF Authenticate, EndSession, Fetch
<1>6. CASE \E w \in Wallets, g \in Groups : RegisterGroup(w, g)
  BY <1>3, <1>6 DEF RegisterGroup
<1>7. CASE \E d \in Submissions : Submit(d) \/ SubmitReplay(d)
  BY <1>3, <1>7 DEF Submit, SubmitReplay
<1>8. CASE \E w \in Wallets, d \in Others("Welcome") : Onboard(w, d) \/ OnboardRefused(w, d)
  BY <1>3, <1>8 DEF Onboard, OnboardRefused
<1>9. CASE \E w \in Wallets, d \in Commits : Offboard(w, d) \/ OffboardReplay(w, d)
  BY <1>3, <1>9 DEF Offboard, OffboardReplay
<1>10. CASE \E w \in Wallets, g \in Groups, t \in Tokens :
               PublishInvite(w, g, t) \/ RedeemInvite(w, g, t)
  BY <1>3, <1>10 DEF PublishInvite, RedeemInvite
<1>11. CASE \E w \in Wallets, t \in Tokens, b \in BOOLEAN : RevokeInvite(w, t, b)
  BY <1>3, <1>11 DEF RevokeInvite
<1>12. CASE \E t \in Tokens : ExpireInvite(t)
  BY <1>3, <1>12 DEF ExpireInvite
<1>13. CASE \E a \in grants : ExpireGrant(a)
  BY <1>3, <1>13 DEF ExpireGrant
<1>14. CASE UNCHANGED vars
  BY <1>3, <1>14 DEF vars
<1> QED BY <1>4, <1>5, <1>6, <1>7, <1>8, <1>9, <1>10, <1>11, <1>12, <1>13, <1>14 DEF Next

-----------------------------------------------------------------------------
(* Invites.                                                                *)

(* A token is redeemed at most as often as it was published, and an invite *)
(* not consumed yet has a redemption to spare.                             *)
InvitesCounted ==
    /\ \A t \in Tokens : Redemptions(t) <= mints[t]
    /\ \A t \in DOMAIN invites : ~invites[t].consumed => Redemptions(t) < mints[t]

(* InviteSingleUse is the part of it a reader asks for.                    *)
LEMMA InviteSingleUseFollows ==
    ASSUME TypeOK, InvitesCounted
    PROVE  InviteSingleUse
  BY DEF InvitesCounted, InviteSingleUse, Redeemable, TypeOK

(* Redemptions are counted on the referral ledger, one row at a time.      *)
LEMMA RedemptionsAppend ==
    ASSUME TypeOK, NEW t
    PROVE  /\ Redemptions(t) \in Nat
           /\ referrals' = referrals => Redemptions(t)' = Redemptions(t)
           /\ \A row \in ReferralRecord : referrals' = Append(referrals, row) =>
                Redemptions(t)' = Redemptions(t) + IF row.token = t THEN 1 ELSE 0
<1> DEFINE R == {i \in DOMAIN referrals : referrals[i].token = t}
           n == Len(referrals)
<1>1. R \subseteq DOMAIN referrals /\ referrals \in Seq(ReferralRecord)
  BY DEF TypeOK
<1>2. IsFiniteSet(R)
  BY <1>1, PositionsFinite
<1>3. Cardinality(R) \in Nat
  BY <1>2, FS_CardinalityType
<1>4. ASSUME NEW row \in ReferralRecord, referrals' = Append(referrals, row)
      PROVE  Redemptions(t)' = Redemptions(t) + IF row.token = t THEN 1 ELSE 0
  <2>1. /\ n \in Nat /\ DOMAIN referrals = 1..n
        /\ DOMAIN referrals' = 1..(n + 1)
        /\ \A i \in 1..n : referrals'[i] = referrals[i]
        /\ referrals'[n + 1] = row
    BY <1>1, <1>4, AppendProperties
  <2> HIDE DEF n
  <2>2. {i \in DOMAIN referrals' : referrals'[i].token = t}
          = IF row.token = t THEN R \cup {n + 1} ELSE R
    BY <2>1
  <2>3. n + 1 \notin R
    BY <2>1
  <2>4. Cardinality(R \cup {n + 1}) = Cardinality(R) + 1
    BY <1>2, <2>3, FS_AddElement
  <2>5. Redemptions(t) = Cardinality(R)
    BY DEF Redemptions
  <2>6. Redemptions(t)' = Cardinality({i \in DOMAIN referrals' : referrals'[i].token = t})
    BY DEF Redemptions
  <2>7. CASE row.token = t
    BY <2>2, <2>4, <2>5, <2>6, <2>7
  <2>8. CASE row.token # t
    <3>1. Redemptions(t)' = Redemptions(t)
      BY <2>2, <2>5, <2>6, <2>8
    <3> QED BY <1>3, <2>5, <2>8, <3>1
  <2> QED BY <2>7, <2>8
<1> QED BY <1>3, <1>4 DEF Redemptions

(* Publishing puts one redemption in hand, redeeming spends it.            *)
LEMMA InvitesStep ==
    ASSUME TypeOK, InvitesCounted, [Next]_vars
    PROVE  InvitesCounted'
<1> USE DEF inviteVars
<1>1. /\ \A t : Redemptions(t) \in Nat
      /\ \A t \in Tokens : mints[t] \in Nat
  BY RedemptionsAppend DEF TypeOK
<1>2. ASSUME referrals' = referrals, mints' = mints,
             \A t \in DOMAIN invites' :
               t \in DOMAIN invites /\ (~invites'[t].consumed => ~invites[t].consumed)
      PROVE  InvitesCounted'
  BY <1>2, RedemptionsAppend DEF InvitesCounted
<1>3. ASSUME referrals' = referrals, mints' = mints, invites' = invites
      PROVE  InvitesCounted'
  BY <1>2, <1>3
<1>4. ASSUME NEW w \in Wallets, NEW g \in Groups, NEW t \in Tokens, PublishInvite(w, g, t)
      PROVE  InvitesCounted'
  <2>1. \A u : Redemptions(u)' = Redemptions(u)
    BY <1>4, RedemptionsAppend DEF PublishInvite
  <2>2. \A u \in Tokens : mints'[u] = mints[u] + IF u = t THEN 1 ELSE 0
    <3>1. mints' = [mints EXCEPT ![t] = mints[t] + 1] /\ mints \in [Tokens -> Nat]
      BY <1>4 DEF PublishInvite, TypeOK
    <3> QED BY <1>1, <3>1
  <2>3. \A u \in DOMAIN invites' : u = t \/ (u \in DOMAIN invites /\ invites'[u] = invites[u])
    BY <1>4 DEF PublishInvite, Put
  <2>4. DOMAIN invites' \subseteq Tokens
    BY <2>3 DEF TypeOK
  <2>5. \A u \in Tokens : Redemptions(u)' <= mints'[u]
    BY <1>1, <2>1, <2>2 DEF InvitesCounted
  <2>6. \A u \in DOMAIN invites' : ~invites'[u].consumed => Redemptions(u)' < mints'[u]
    BY <1>1, <2>1, <2>2, <2>3, <2>4 DEF InvitesCounted
  <2> QED BY <2>5, <2>6 DEF InvitesCounted
<1>5. ASSUME NEW w \in Wallets, NEW g \in Groups, NEW t \in Tokens, RedeemInvite(w, g, t)
      PROVE  InvitesCounted'
  <2> DEFINE row == [inviter |-> invites[t].inviter, joiner |-> w, group |-> g,
                     token |-> t]
  <2>1. /\ t \in DOMAIN invites /\ ~invites[t].consumed /\ invites[t] \in InviteRecord
        /\ referrals' = Append(referrals, row) /\ mints' = mints
        /\ DOMAIN invites' = DOMAIN invites
    BY <1>5 DEF RedeemInvite, Redeemable, TypeOK
  <2>2. invites'[t].consumed /\ \A u \in DOMAIN invites \ {t} : invites'[u] = invites[u]
    BY <1>5, <2>1 DEF RedeemInvite, InviteRecord
  <2>3. row \in ReferralRecord /\ row.token = t
    BY <2>1 DEF ReferralRecord, InviteRecord
  <2> HIDE DEF row
  <2>4. \A u : Redemptions(u)' = Redemptions(u) + IF u = t THEN 1 ELSE 0
    BY <2>1, <2>3, RedemptionsAppend
  <2>5. Redemptions(t) < mints[t]
    BY <2>1 DEF InvitesCounted
  <2>6. \A u \in Tokens : Redemptions(u)' <= mints'[u]
    BY <1>1, <2>1, <2>4, <2>5 DEF InvitesCounted
  <2>7. \A u \in DOMAIN invites' : ~invites'[u].consumed => Redemptions(u)' < mints'[u]
    <3> SUFFICES ASSUME NEW u \in DOMAIN invites', ~invites'[u].consumed
                 PROVE  Redemptions(u)' < mints'[u]
      OBVIOUS
    <3>1. u \in DOMAIN invites \ {t} /\ ~invites[u].consumed
      BY <2>1, <2>2
    <3>2. Redemptions(u)' = Redemptions(u)
      BY <1>1, <2>4, <3>1
    <3> QED BY <2>1, <3>1, <3>2 DEF InvitesCounted
  <2> QED BY <2>6, <2>7 DEF InvitesCounted
<1>6. ASSUME NEW w \in Wallets, NEW t \in Tokens, NEW b \in BOOLEAN, RevokeInvite(w, t, b)
      PROVE  InvitesCounted'
  BY <1>2, <1>6 DEF RevokeInvite, InviteRecord, TypeOK
<1>7. ASSUME NEW t \in Tokens, ExpireInvite(t) PROVE InvitesCounted'
  BY <1>2, <1>7 DEF ExpireInvite, InviteRecord, TypeOK
<1>8. CASE \E w \in Wallets : Authenticate(w) \/ EndSession(w) \/ Fetch(w)
  BY <1>3, <1>8 DEF Authenticate, EndSession, Fetch
<1>9. CASE \E w \in Wallets, g \in Groups : RegisterGroup(w, g)
  BY <1>3, <1>9 DEF RegisterGroup
<1>10. CASE \E d \in Submissions : Submit(d) \/ SubmitReplay(d)
  BY <1>3, <1>10 DEF Submit, SubmitReplay
<1>11. CASE \E w \in Wallets, d \in Others("Welcome") : Onboard(w, d) \/ OnboardRefused(w, d)
  BY <1>3, <1>11 DEF Onboard, OnboardRefused
<1>12. CASE \E w \in Wallets, d \in Commits : Offboard(w, d) \/ OffboardReplay(w, d)
  BY <1>3, <1>12 DEF Offboard, OffboardReplay
<1>13. CASE \E i, w \in Wallets, r \in GrantRoles, g \in Groups, n \in 0..MaxEpoch :
               SignGrant(i, w, r, g, n)
  BY <1>3, <1>13 DEF SignGrant
<1>14. CASE \E a \in grants : ExpireGrant(a)
  BY <1>3, <1>14 DEF ExpireGrant
<1>15. CASE UNCHANGED vars
  BY <1>3, <1>15 DEF vars
<1> QED BY <1>4, <1>5, <1>6, <1>7, <1>8, <1>9, <1>10, <1>11, <1>12, <1>13, <1>14, <1>15
        DEF Next

-----------------------------------------------------------------------------
(* The inductive invariant of membership. *)
MembershipInv ==
    /\ TypeOK
    /\ GenerationsCount /\ RosterAccounted /\ AuditRegistered
    /\ GrantsDated
    /\ InvitesCounted

(* Who is on a roster, who may change it and who was let in agree, for any  *)
(* number of wallets, groups, grants and invites and any order of onboards, *)
(* refused onboards, offboards, replays and redemptions: a removal ends     *)
(* every grant given before it, an offboarded creator stays without         *)
(* authority, a refused Welcome leaves nobody behind, and a token lets in   *)
(* one wallet for each time it was published.                               *)
THEOREM MembershipHolds == Spec => []MembershipAccounted
<1>1. Init => MembershipInv
  <2> SUFFICES ASSUME Init PROVE MembershipInv
    OBVIOUS
  <2>1. TypeOK
    BY NewGroupType, OwnerAssumption DEF Init, TypeOK
  <2>2. DOMAIN groups = {} /\ audit = <<>> /\ grants = {} /\ DOMAIN invites = {}
    BY DEF Init
  <2>3. GenerationsCount /\ RosterAccounted /\ AuditRegistered /\ GrantsDated
    BY <2>2 DEF GenerationsCount, RosterAccounted, AuditRegistered, GrantsDated
  <2>4. \A t : Redemptions(t) = 0
    <3>1. referrals = <<>>
      BY DEF Init
    <3>2. \A t : {i \in DOMAIN referrals : referrals[i].token = t} = {}
      BY <3>1
    <3> QED BY <3>2, FS_EmptySet DEF Redemptions
  <2>5. InvitesCounted
    BY <2>2, <2>4 DEF InvitesCounted, Init
  <2> QED BY <2>1, <2>3, <2>5 DEF MembershipInv
<1>2. MembershipInv /\ [Next]_vars => MembershipInv'
  BY TypeStep, RosterStep, GrantsStep, InvitesStep DEF MembershipInv
<1>3. MembershipInv => MembershipAccounted
  BY AuthorityFollows, InviteSingleUseFollows DEF MembershipInv, MembershipAccounted
<1> QED BY <1>1, <1>2, <1>3, PTL DEF Spec

-----------------------------------------------------------------------------
(* What each wallet is shown of a group's order.                           *)

(* D is, as far as group g goes, the envelopes of log that name w, in order, *)
(* each as often as it names w.                                             *)
InOrder(D, log, w, g) ==
    LET OfGroup == {i \in DOMAIN D : D[i].group = g}
    IN /\ \A i \in OfGroup : D[i].seq + 1 \in DOMAIN log /\ log[D[i].seq + 1] = D[i]
       /\ \A i, j \in OfGroup : i < j => D[i].seq <= D[j].seq
       /\ \A k \in DOMAIN log :
            Cardinality({i \in OfGroup : D[i].seq = k - 1}) = Copies(log[k], w)

(* DeliveredInOrder is InOrder of every wallet and group.                  *)
LEMMA DeliveredParts ==
    DeliveredInOrder <=>
      \A w \in Wallets, g \in DOMAIN groups : InOrder(Drained(w), groups[g].log, w, g)
  BY DEF DeliveredInOrder, InOrder

(* And in the next state.                                                  *)
LEMMA DeliveredPartsNext ==
    DeliveredInOrder' <=>
      \A w \in Wallets, g \in DOMAIN groups' :
         InOrder(Drained(w)', groups'[g].log, w, g)
  BY DEF DeliveredInOrder, InOrder

(* Log and mailboxes grow together.                                        *)
LEMMA InOrderGrows ==
    ASSUME NEW D \in Seq(Envelope), NEW log \in Seq(Envelope), NEW w, NEW g,
           InOrder(D, log, w, g), NEW e \in Envelope, NEW c \in Nat
    PROVE  /\ e.group = g /\ e.seq = Len(log) /\ c = Copies(e, w)
                => InOrder(D \o [i \in 1..c |-> e], Append(log, e), w, g)
           /\ e.group # g => InOrder(D \o [i \in 1..c |-> e], log, w, g)
<1> DEFINE m == Len(D)
           n == Len(log)
           F == [i \in 1..c |-> e]
           E == D \o F
           l == Append(log, e)
           At(S, k) == {i \in {j \in DOMAIN S : S[j].group = g} : S[i].seq = k - 1}
<1>1. /\ m \in Nat /\ DOMAIN D = 1..m /\ DOMAIN E = 1..(m + c)
      /\ \A i \in 1..m : E[i] = D[i]
      /\ \A i \in (m + 1)..(m + c) : E[i] = e
  <2>1. F \in Seq(Envelope) /\ Len(F) = c /\ \A i \in 1..c : F[i] = e
    BY CopiesSeq
  <2>2. m \in Nat /\ DOMAIN D = 1..m
    OBVIOUS
  <2> HIDE DEF F
  <2>3. E \in Seq(Envelope) /\ Len(E) = m + c
    BY <2>1, ConcatProperties
  <2>4. \A i \in 1..(m + c) : E[i] = IF i <= m THEN D[i] ELSE F[i - m]
    BY <2>1, ConcatProperties
  <2> HIDE DEF E, m
  <2>5. \A i \in (m + 1)..(m + c) : i \in 1..(m + c) /\ ~(i <= m) /\ i - m \in 1..c
    BY <2>2
  <2>6. \A i \in 1..m : i \in 1..(m + c) /\ i <= m
    BY <2>2
  <2> QED BY <2>1, <2>2, <2>3, <2>4, <2>5, <2>6
<1>2. /\ n \in Nat /\ DOMAIN log = 1..n /\ DOMAIN l = 1..(n + 1)
      /\ \A i \in 1..n : l[i] = log[i]
      /\ l[n + 1] = e
  BY AppendProperties
<1>3. /\ \A i \in 1..m : D[i].group = g =>
            /\ D[i].seq \in Nat /\ D[i].seq + 1 \in 1..n
            /\ log[D[i].seq + 1] = D[i]
      /\ \A i, j \in 1..m :
            D[i].group = g /\ D[j].group = g /\ i < j => D[i].seq <= D[j].seq
      /\ \A k \in 1..n : Cardinality(At(D, k)) = Copies(log[k], w)
  <2>1. \A i \in 1..m : D[i].seq \in Nat
    <3>1. \A i \in 1..m : D[i] \in Envelope
      BY <1>1
    <3> QED BY <3>1 DEF Envelope
  <2> HIDE DEF m, n
  <2> QED BY <1>1, <1>2, <2>1 DEF InOrder
<1>4. /\ \A i \in 1..(m + c) : i \in 1..m \/ i \in (m + 1)..(m + c)
      /\ \A i \in 1..m, j \in (m + 1)..(m + c) : i < j /\ ~(j < i) /\ i # j
      /\ \A i \in 1..m : i \in 1..(m + c)
      /\ \A i \in (m + 1)..(m + c) : i \in 1..(m + c)
      /\ \A i \in 1..(n + 1) : i \in 1..n \/ i = n + 1
      /\ \A i \in 1..n : i \in 1..(n + 1) /\ i - 1 # n
      /\ n + 1 \in 1..(n + 1) /\ n <= n /\ (n + 1) - 1 = n
      /\ \A x \in Nat : x + 1 \in 1..n => x <= n /\ x # n
  <2>1. m \in Nat /\ n \in Nat
    BY <1>1, <1>2
  <2> HIDE DEF m, n
  <2>2. /\ \A i \in 1..(m + c) : i \in 1..m \/ i \in (m + 1)..(m + c)
        /\ \A i \in 1..m, j \in (m + 1)..(m + c) : i < j /\ ~(j < i) /\ i # j
        /\ \A i \in 1..m : i \in 1..(m + c)
        /\ \A i \in (m + 1)..(m + c) : i \in 1..(m + c)
    BY <2>1
  <2> QED BY <2>1, <2>2
<1> HIDE DEF m, n, E, F, l
<1>5. ASSUME e.group = g, e.seq = n, c = Copies(e, w) PROVE InOrder(E, l, w, g)
  <2>1. ASSUME NEW i \in 1..(m + c), E[i].group = g
        PROVE  E[i].seq + 1 \in 1..(n + 1) /\ l[E[i].seq + 1] = E[i]
    <3>1. CASE i \in 1..m
      BY <1>1, <1>2, <1>3, <1>4, <2>1, <3>1
    <3>2. CASE i \in (m + 1)..(m + c)
      BY <1>1, <1>2, <1>4, <1>5, <3>2
    <3> QED BY <1>4, <3>1, <3>2
  <2>2. ASSUME NEW i \in 1..(m + c), NEW j \in 1..(m + c),
               E[i].group = g, E[j].group = g, i < j
        PROVE  E[i].seq <= E[j].seq
    <3>1. CASE i \in 1..m /\ j \in 1..m
      BY <1>1, <1>3, <2>2, <3>1
    <3>2. CASE i \in 1..m /\ j \in (m + 1)..(m + c)
      BY <1>1, <1>3, <1>4, <1>5, <2>2, <3>2
    <3>3. CASE i \in (m + 1)..(m + c) /\ j \in (m + 1)..(m + c)
      BY <1>1, <1>4, <1>5, <3>3
    <3> QED BY <1>4, <2>2, <3>1, <3>2, <3>3
  <2>3. ASSUME NEW k \in 1..n PROVE Cardinality(At(E, k)) = Copies(l[k], w)
    <3>1. At(E, k) = At(D, k)
      BY <1>1, <1>4, <1>5
    <3> QED BY <1>2, <1>3, <3>1
  <2>4. Cardinality(At(E, n + 1)) = Copies(l[n + 1], w)
    <3>1. ASSUME NEW i \in 1..m, D[i].group = g PROVE D[i].seq # n
      BY <1>3, <1>4, <3>1
    <3>2. At(E, n + 1) = (m + 1)..(m + c)
      BY <1>1, <1>4, <1>5, <3>1
    <3>3. Cardinality((m + 1)..(m + c)) = c
      <4>1. m + 1 \in Int /\ m + c \in Int
        BY <1>1
      <4>2. Cardinality((m + 1)..(m + c)) =
              IF m + 1 > m + c THEN 0 ELSE (m + c) - (m + 1) + 1
        BY <4>1, FS_Interval
      <4> QED BY <1>1, <4>2
    <3> QED BY <1>2, <1>5, <3>2, <3>3
  <2>5. \A k \in 1..(n + 1) : Cardinality(At(E, k)) = Copies(l[k], w)
    BY <1>4, <2>3, <2>4
  <2> QED BY <1>1, <1>2, <2>1, <2>2, <2>5 DEF InOrder
<1>6. ASSUME e.group # g PROVE InOrder(E, log, w, g)
  <2>1. \A i \in 1..(m + c) : E[i].group = g => i \in 1..m /\ E[i] = D[i]
    BY <1>1, <1>4, <1>6
  <2>2. ASSUME NEW k \in 1..n PROVE Cardinality(At(E, k)) = Copies(log[k], w)
    <3>1. At(E, k) = At(D, k)
      BY <1>1, <1>4, <2>1
    <3> QED BY <1>3, <3>1
  <2> QED BY <1>1, <1>2, <1>3, <2>1, <2>2 DEF InOrder
<1> QED BY <1>5, <1>6 DEF n, E, F, l

-----------------------------------------------------------------------------
(* What a step can do to what wallets are shown and told.                  *)

SameDrained == \A w \in Wallets : Drained(w)' = Drained(w)

(* A Commit the epoch has accepted, sent again. *)
Replays(d) ==
    /\ d.group \in DOMAIN groups
    /\ IsReplay(groups[d.group], d)
    /\ acks' = acks \cup {Ack(d, PriorSeq(groups[d.group], d))}

Still == Quiet /\ SameDrained /\ (acks' = acks \/ \E d \in Commits \cup Submissions : Replays(d))

Founds(g, w) == Registers(g, w) /\ SameDrained /\ acks' = acks

Posts(d) ==
    /\ Appends(d)
    /\ \A w \in Wallets : Drained(w)' =
          Drained(w) \o [i \in 1..Copies(d, w) |-> Stamp(groups[d.group], d)]
    /\ acks' = acks \cup {Ack(d, groups[d.group].next_seq)}

(* submit's fan-out adds the stamped envelope at the end of each named      *)
(* wallet's stream, once per mention, and its answer is the seq it was      *)
(* stamped with.                                                            *)
LEMMA DeliverPosts ==
    ASSUME TypeOK, NEW d, Appends(d), NEW s \in GroupState,
           s.next_seq = groups[d.group].next_seq,
           NEW after, NEW events, Deliver(s, d, after, events), fetched' = fetched
    PROVE  Posts(d)
<1> DEFINE e == Stamp(groups[d.group], d)
<1>1. /\ Stamp(s, d) = e /\ e \in Envelope /\ e.recipients = d.recipients
      /\ groups[d.group] \in GroupState
  <2>1. groups[d.group] \in GroupState /\ Sendable(d)
    BY DEF Appends, TypeOK
  <2> QED BY <2>1, AppendedType DEF Stamp, Sendable, Envelope
<1> HIDE DEF e
<1>2. ASSUME NEW w \in Wallets
      PROVE  Drained(w)' = Drained(w) \o [i \in 1..Copies(d, w) |-> e]
  <2> DEFINE f == fetched[w]
             m == mailboxes[w]
             l == [i \in 1..Copies(d, w) |-> e]
  <2>1. f \in Seq(Envelope) /\ m \in Seq(Envelope)
    BY DEF TypeOK
  <2>2. Copies(d, w) = Copies(e, w) /\ Copies(e, w) \in Nat
    BY <1>1, CopiesType DEF Copies
  <2>3. l \in Seq(Envelope)
    BY <1>1, <2>2, CopiesSeq
  <2>4. mailboxes'[w] = m \o l
    BY <1>1, <2>2 DEF Deliver, FanOut
  <2>5. Drained(w) = f \o m /\ Drained(w)' = f \o mailboxes'[w]
    BY DEF Drained
  <2> HIDE DEF f, m, l
  <2>6. f \o (m \o l) = (f \o m) \o l
    BY <2>1, <2>3, ConcatAssociative
  <2> QED BY <2>4, <2>5, <2>6 DEF l
<1>4. acks' = acks \cup {Ack(d, groups[d.group].next_seq)}
  BY DEF Deliver
<1> QED BY <1>2, <1>4 DEF Posts, e

(* Whatever method runs, it does one of these three things.                *)
LEMMA DeliveryKinds ==
    ASSUME TypeOK, [Next]_vars
    PROVE  \/ Still
           \/ \E g \in Groups, w \in Wallets : Founds(g, w)
           \/ \E d : Posts(d)
<1>0. ASSUME groups' = groups PROVE Quiet
  BY <1>0 DEF Quiet, SameOrder
<1>1. ASSUME fetched' = fetched, mailboxes' = mailboxes PROVE SameDrained
  BY <1>1 DEF SameDrained, Drained
<1>2. ASSUME NEW d \in Submissions, Submit(d) PROVE Posts(d)
  <2>1. Appends(d) /\ groups[d.group] \in GroupState
    BY <1>2, MethodKinds DEF Appends, TypeOK
  <2>2. /\ Deliver(groups[d.group], d, Appended(groups[d.group], d), <<>>)
        /\ fetched' = fetched
    BY <1>2 DEF Submit
  <2> QED BY <2>1, <2>2, DeliverPosts
<1>3. ASSUME NEW j \in Wallets, NEW d \in Others("Welcome"), Onboard(j, d) PROVE Posts(d)
  <2> DEFINE s == WithMember(groups[d.group], j)
             after == [Appended(s, d) EXCEPT !.ratchet_tree = s.current_epoch]
             events == <<Event("MemberAdded", d.group, j, s.current_epoch)>>
  <2>1. Appends(d) /\ groups[d.group] \in GroupState
    BY <1>3, MethodKinds DEF Appends, TypeOK
  <2>2. s \in GroupState /\ s.next_seq = groups[d.group].next_seq
    BY <2>1, RosterTypes DEF SameOrder
  <2>3. Deliver(s, d, after, events) /\ fetched' = fetched
    BY <1>3 DEF Onboard
  <2> HIDE DEF s, after, events
  <2> QED BY <2>1, <2>2, <2>3, DeliverPosts
<1>4. ASSUME NEW r \in Wallets, NEW d \in Commits, Offboard(r, d) PROVE Posts(d)
  <2> DEFINE s == groups[d.group]
             t == Appended(s, d)
  <2>1. Appends(d) /\ s \in GroupState
    BY <1>4, MethodKinds DEF Appends, TypeOK
  <2>2. /\ Deliver(s, d, Offboarded(t, r), OffboardEvents(t, d.group, r))
        /\ fetched' = fetched
    BY <1>4 DEF Offboard
  <2> HIDE DEF t
  <2> QED BY <2>1, <2>2, DeliverPosts
<1>5. ASSUME NEW d \in Submissions, SubmitReplay(d) PROVE Still
  BY <1>0, <1>1, <1>5 DEF SubmitReplay, Still, Replays
<1>6. ASSUME NEW r \in Wallets, NEW d \in Commits, OffboardReplay(r, d) PROVE Still
  <2>1. Quiet
    BY <1>6, MethodKinds
  <2> QED BY <1>1, <1>6, <2>1 DEF OffboardReplay, MayOffboard, Still, Replays
<1>7. ASSUME NEW j \in Wallets, NEW d \in Others("Welcome"), OnboardRefused(j, d)
      PROVE  Still
  <2>1. Quiet
    BY <1>7, MethodKinds
  <2> QED BY <1>1, <1>7, <2>1 DEF OnboardRefused, Still
<1>8. ASSUME NEW w \in Wallets, NEW g \in Groups, NEW t \in Tokens, RedeemInvite(w, g, t)
      PROVE  Still
  <2>1. Quiet
    BY <1>8, MethodKinds
  <2> QED BY <1>1, <1>8, <2>1 DEF RedeemInvite, Still
<1>9. ASSUME NEW w \in Wallets, NEW g \in Groups, RegisterGroup(w, g)
      PROVE  Founds(g, w)
  BY <1>1, <1>9 DEF RegisterGroup, Registers, Founds
<1>10. ASSUME NEW w \in Wallets, Fetch(w) PROVE Still
  <2>1. ASSUME NEW v \in Wallets PROVE Drained(v)' = Drained(v)
    <3>1. fetched[v] \in Seq(Envelope) /\ mailboxes[v] \in Seq(Envelope)
      BY DEF TypeOK
    <3>2. CASE v = w
      <4>1. fetched'[w] = fetched[w] \o mailboxes[w] /\ mailboxes'[w] = <<>>
        BY <1>10 DEF Fetch, TypeOK
      <4>2. (fetched[w] \o mailboxes[w]) \o <<>> = fetched[w] \o mailboxes[w]
        BY <3>1, <3>2, ConcatEmptySeq, ConcatProperties
      <4> QED BY <3>2, <4>1, <4>2 DEF Drained
    <3>3. CASE v # w
      BY <1>10, <3>3 DEF Fetch, TypeOK, Drained
    <3> QED BY <3>2, <3>3
  <2> QED BY <1>0, <1>10, <2>1 DEF Fetch, Still, SameDrained
<1>11. ASSUME groups' = groups, fetched' = fetched, mailboxes' = mailboxes, acks' = acks
       PROVE  Still
  BY <1>0, <1>1, <1>11 DEF Still
<1>12. CASE \E w \in Wallets : Authenticate(w) \/ EndSession(w)
  BY <1>11, <1>12 DEF Authenticate, EndSession
<1>13. CASE \E w \in Wallets, g \in Groups, t \in Tokens : PublishInvite(w, g, t)
  BY <1>11, <1>13 DEF PublishInvite
<1>14. CASE \E w \in Wallets, t \in Tokens, b \in BOOLEAN : RevokeInvite(w, t, b)
  BY <1>11, <1>14 DEF RevokeInvite
<1>15. CASE \E t \in Tokens : ExpireInvite(t)
  BY <1>11, <1>15 DEF ExpireInvite
<1>16. CASE \E i, w \in Wallets, r \in GrantRoles, g \in Groups, n \in 0..MaxEpoch :
              SignGrant(i, w, r, g, n)
  BY <1>11, <1>16 DEF SignGrant
<1>17. CASE \E a \in grants : ExpireGrant(a)
  BY <1>11, <1>17 DEF ExpireGrant
<1>18. CASE UNCHANGED vars
  BY <1>11, <1>18 DEF vars
<1> QED BY <1>2, <1>3, <1>4, <1>5, <1>6, <1>7, <1>8, <1>9, <1>10, <1>12, <1>13, <1>14,
           <1>15, <1>16, <1>17, <1>18 DEF Next

-----------------------------------------------------------------------------
(* The logs hold their own group's envelopes; streams and answers are about *)
(* registered groups.                                                       *)
LogsOwn ==
    \A g \in DOMAIN groups : \A i \in DOMAIN groups[g].log : groups[g].log[i].group = g
DrainedRegistered ==
    \A w \in Wallets : \A i \in DOMAIN Drained(w) : Drained(w)[i].group \in DOMAIN groups
AcksRegistered == \A a \in acks : a.group \in DOMAIN groups

(* The inductive invariant of delivery. *)
DeliveryInv ==
    /\ TypeOK /\ TotalOrder
    /\ LogsOwn /\ DrainedRegistered /\ AcksRegistered
    /\ AcksName /\ DeliveredInOrder

(* What an append does to the log it is appended to.                       *)
LEMMA PostedLog ==
    ASSUME TypeOK, TotalOrder, NEW d, Appends(d)
    PROVE  LET log == groups[d.group].log
               e   == Stamp(groups[d.group], d)
           IN /\ d.group \in DOMAIN groups /\ log \in Seq(Envelope) /\ e \in Envelope
              /\ e.seq = Len(log) /\ e.group = d.group /\ e.recipients = d.recipients
              /\ e.kind = d.kind /\ e.epoch = d.epoch /\ e.ct = d.ct
              /\ groups[d.group].next_seq = Len(log)
              /\ groups'[d.group].log = Append(log, e)
<1>1. groups[d.group] \in GroupState /\ Sendable(d) /\ d.group \in DOMAIN groups
  BY DEF Appends, TypeOK
<1>2. groups[d.group].next_seq = Len(groups[d.group].log)
  BY <1>1 DEF TotalOrder, SeqOrder
<1>3. groups'[d.group].log = Append(groups[d.group].log, Stamp(groups[d.group], d))
  BY <1>1 DEF Appends, SameOrder, Appended, GroupState
<1> QED BY <1>1, <1>2, <1>3, AppendedType DEF Stamp, Sendable, Envelope, GroupState

(* Every log only grows.                                                   *)
LEMMA LogsGrow ==
    ASSUME TypeOK, TotalOrder, [Next]_vars
    PROVE  /\ DOMAIN groups \subseteq DOMAIN groups'
           /\ \A g \in DOMAIN groups : \A i \in DOMAIN groups[g].log :
                i \in DOMAIN groups'[g].log /\ groups'[g].log[i] = groups[g].log[i]
<1>1. CASE Quiet
  BY <1>1 DEF Quiet, SameOrder
<1>2. ASSUME NEW g \in Groups, NEW w \in Wallets, Registers(g, w)
      PROVE  /\ DOMAIN groups \subseteq DOMAIN groups'
             /\ \A h \in DOMAIN groups : groups'[h] = groups[h]
  BY <1>2 DEF Registers, Put
<1>3. ASSUME NEW d, Appends(d)
      PROVE  /\ DOMAIN groups \subseteq DOMAIN groups'
             /\ \A g \in DOMAIN groups : \A i \in DOMAIN groups[g].log :
                  i \in DOMAIN groups'[g].log /\ groups'[g].log[i] = groups[g].log[i]
  <2>1. \A i \in DOMAIN groups[d.group].log :
           /\ i \in DOMAIN groups'[d.group].log
           /\ groups'[d.group].log[i] = groups[d.group].log[i]
    BY <1>3, PostedLog, AppendProperties
  <2>2. /\ DOMAIN groups' = DOMAIN groups
        /\ \A g \in DOMAIN groups \ {d.group} : groups'[g] = groups[g]
    BY <1>3 DEF Appends
  <2> QED BY <2>1, <2>2
<1> QED BY <1>1, <1>2, <1>3, StepKinds

(* A replay is answered with the place of the Commit it repeats: the epoch  *)
(* has one Commit in the log, the accepted one.                             *)
LEMMA ReplayAnswer ==
    ASSUME TypeOK, TotalOrder, LogsOwn, NEW d \in Commits \cup Submissions, Replays(d)
    PROVE  LET log == groups[d.group].log
               q   == PriorSeq(groups[d.group], d)
           IN q + 1 \in DOMAIN log /\ Ack(log[q + 1], q) = Ack(d, q)
<1> DEFINE s == groups[d.group]
           P == CommitPositions(s, d.epoch)
<1>1. /\ d.group \in DOMAIN groups /\ s \in GroupState /\ d.kind = "Commit"
      /\ d.epoch \in DOMAIN s.accepted_commit /\ s.accepted_commit[d.epoch] = d.ct
      /\ SeqOrder(s) /\ CommitsLogged(s) /\ CommitsOrdered(s)
  BY DEF Replays, IsReplay, TypeOK, TotalOrder
<1>2. /\ s.log \in Seq(Envelope) /\ DOMAIN s.log = 1..Len(s.log) /\ Len(s.log) \in Nat
  BY <1>1 DEF GroupState
<1>3. PICK k \in P : s.log[k].ct = d.ct
  BY <1>1 DEF CommitsLogged
<1>4. k \in DOMAIN s.log /\ s.log[k].kind = "Commit" /\ s.log[k].epoch = d.epoch
  BY <1>3 DEF CommitPositions
<1>5. \A j \in P : j = k
  <2> SUFFICES ASSUME NEW j \in P, j # k PROVE FALSE
    OBVIOUS
  <2>1. j \in DOMAIN s.log /\ s.log[j].kind = "Commit" /\ s.log[j].epoch = d.epoch
    BY DEF CommitPositions
  <2>2. s.log[k].epoch \in Nat
    <3>1. s.log[k] \in Envelope
      BY <1>2, <1>4
    <3> QED BY <3>1 DEF Envelope
  <2>3. j < k \/ k < j
    BY <1>2, <1>4, <2>1
  <2> QED BY <1>1, <1>4, <2>1, <2>2, <2>3 DEF CommitsOrdered
<1>6. (CHOOSE i \in P : \A j \in P : i <= j) = k
  <2>1. k \in P /\ \A j \in P : k <= j
    BY <1>2, <1>4, <1>5
  <2> HIDE DEF P
  <2> QED BY <1>5, <2>1
<1>7. PriorSeq(s, d) = k - 1
  BY <1>1, <1>4, <1>6 DEF PriorSeq, SeqOrder
<1>8. s.log[k].group = d.group
  BY <1>1, <1>4 DEF LogsOwn
<1>9. (k - 1) + 1 = k
  BY <1>2, <1>4
<1> QED BY <1>1, <1>3, <1>4, <1>7, <1>8, <1>9 DEF Ack

(* The answers stay true, and new ones are.                                *)
LEMMA AcksStep ==
    ASSUME DeliveryInv, [Next]_vars
    PROVE  AcksRegistered' /\ AcksName'
<1> DEFINE True(a) ==
             /\ a.group \in DOMAIN groups'
             /\ a.seq + 1 \in DOMAIN groups'[a.group].log
             /\ Ack(groups'[a.group].log[a.seq + 1], a.seq) = a
<1>1. SUFFICES \A a \in acks' : True(a)
  BY DEF AcksRegistered, AcksName
<1>2. TypeOK /\ TotalOrder /\ LogsOwn
  BY DEF DeliveryInv
<1>3. \A a \in acks : True(a)
  BY <1>2, LogsGrow DEF DeliveryInv, AcksRegistered, AcksName
<1>4. ASSUME NEW d \in Commits \cup Submissions, Replays(d) PROVE \A a \in acks' : True(a)
  <2> DEFINE q == PriorSeq(groups[d.group], d)
  <2>1. /\ d.group \in DOMAIN groups
        /\ q + 1 \in DOMAIN groups[d.group].log
        /\ Ack(groups[d.group].log[q + 1], q) = Ack(d, q)
        /\ acks' = acks \cup {Ack(d, q)}
    BY <1>2, <1>4, ReplayAnswer DEF Replays
  <2> HIDE DEF q
  <2>2. Ack(d, q).group = d.group /\ Ack(d, q).seq = q
    BY DEF Ack
  <2>3. True(Ack(d, q))
    BY <1>2, <2>1, <2>2, LogsGrow
  <2> QED BY <1>3, <2>1, <2>3
<1>5. ASSUME NEW d, Posts(d) PROVE \A a \in acks' : True(a)
  <2> DEFINE log == groups[d.group].log
             e == Stamp(groups[d.group], d)
             n == groups[d.group].next_seq
             a == Ack(d, n)
  <2>1. Appends(d) /\ acks' = acks \cup {a}
    BY <1>5 DEF Posts
  <2>2. /\ d.group \in DOMAIN groups /\ log \in Seq(Envelope) /\ e \in Envelope
        /\ e.group = d.group /\ e.kind = d.kind /\ e.epoch = d.epoch /\ e.ct = d.ct
        /\ n = Len(log) /\ groups'[d.group].log = Append(log, e)
    BY <1>2, <2>1, PostedLog
  <2>3. DOMAIN groups' = DOMAIN groups
    BY <2>1 DEF Appends
  <2>4. a.group = d.group /\ a.seq = n /\ Ack(e, n) = a
    BY <2>2 DEF Ack
  <2> HIDE DEF log, e, n, a
  <2>5. n + 1 \in DOMAIN Append(log, e) /\ Append(log, e)[n + 1] = e
    BY <2>2, AppendProperties
  <2>6. True(a)
    BY <2>2, <2>3, <2>4, <2>5
  <2> QED BY <1>3, <2>1, <2>6
<1>6. CASE acks' = acks
  BY <1>3, <1>6
<1> HIDE DEF True
<1> QED BY <1>2, <1>4, <1>5, <1>6, DeliveryKinds DEF Still, Founds

(* Streams and logs stay in step.                                          *)
LEMMA StreamsStep ==
    ASSUME DeliveryInv, [Next]_vars
    PROVE  LogsOwn' /\ DrainedRegistered' /\ DeliveredInOrder'
<1>1. /\ TypeOK /\ TotalOrder /\ LogsOwn /\ DrainedRegistered
      /\ \A w \in Wallets, g \in DOMAIN groups : InOrder(Drained(w), groups[g].log, w, g)
      /\ \A w \in Wallets : Drained(w) \in Seq(Envelope)
  BY DeliveredParts, ConcatProperties DEF DeliveryInv, Drained, TypeOK
<1>2. SUFFICES /\ LogsOwn' /\ DrainedRegistered'
               /\ \A w \in Wallets, g \in DOMAIN groups' :
                     InOrder(Drained(w)', groups'[g].log, w, g)
  BY DeliveredPartsNext
<1>3. CASE Still
  <2>1. /\ DOMAIN groups' = DOMAIN groups
        /\ \A g \in DOMAIN groups : groups'[g].log = groups[g].log
        /\ \A w \in Wallets : Drained(w)' = Drained(w)
    BY <1>3 DEF Still, Quiet, SameOrder, SameDrained
  <2> QED BY <1>1, <2>1 DEF LogsOwn, DrainedRegistered
<1>4. ASSUME NEW g \in Groups, NEW v \in Wallets, Founds(g, v)
      PROVE  /\ LogsOwn' /\ DrainedRegistered'
             /\ \A w \in Wallets, h \in DOMAIN groups' :
                   InOrder(Drained(w)', groups'[h].log, w, h)
  <2>1. /\ DOMAIN groups' = DOMAIN groups \cup {g} /\ g \notin DOMAIN groups
        /\ \A h \in DOMAIN groups : groups'[h] = groups[h]
        /\ groups'[g].log = <<>>
        /\ \A w \in Wallets : Drained(w)' = Drained(w)
    BY <1>4 DEF Founds, Registers, Put, NewGroup, SameDrained
  <2>2. \A w \in Wallets : InOrder(Drained(w), <<>>, w, g)
    <3>1. \A w \in Wallets : \A i \in DOMAIN Drained(w) : Drained(w)[i].group # g
      BY <1>1, <2>1 DEF DrainedRegistered
    <3> QED BY <3>1 DEF InOrder
  <2> QED BY <1>1, <2>1, <2>2 DEF LogsOwn, DrainedRegistered
<1>5. ASSUME NEW d, Posts(d)
      PROVE  /\ LogsOwn' /\ DrainedRegistered'
             /\ \A w \in Wallets, h \in DOMAIN groups' :
                   InOrder(Drained(w)', groups'[h].log, w, h)
  <2> DEFINE log == groups[d.group].log
             e == Stamp(groups[d.group], d)
  <2>1. /\ d.group \in DOMAIN groups /\ log \in Seq(Envelope) /\ e \in Envelope
        /\ e.group = d.group /\ e.seq = Len(log) /\ e.recipients = d.recipients
        /\ groups'[d.group].log = Append(log, e)
    BY <1>1, <1>5, PostedLog DEF Posts
  <2>2. /\ DOMAIN groups' = DOMAIN groups
        /\ \A h \in DOMAIN groups \ {d.group} : groups'[h] = groups[h]
        /\ \A w \in Wallets : /\ Copies(e, w) \in Nat
                                /\ Drained(w)' = Drained(w) \o [i \in 1..Copies(e, w) |-> e]
    <3>1. \A w \in Wallets : Copies(d, w) = Copies(e, w) /\ Copies(e, w) \in Nat
      BY <2>1, CopiesType DEF Copies
    <3> QED BY <1>5, <3>1 DEF Posts, Appends
  <2> HIDE DEF log, e
  <2>3. LogsOwn'
    <3>1. \A i \in DOMAIN Append(log, e) : Append(log, e)[i].group = d.group
      <4>1. /\ DOMAIN log = 1..Len(log) /\ DOMAIN Append(log, e) = 1..(Len(log) + 1)
            /\ \A i \in 1..(Len(log) + 1) : i \in 1..Len(log) \/ i = Len(log) + 1
        BY <2>1, AppendProperties
      <4>2. \A i \in DOMAIN log : log[i].group = d.group
        BY <1>1, <2>1 DEF LogsOwn, log
      <4> QED BY <2>1, <4>1, <4>2, AppendProperties
    <3> QED BY <1>1, <2>1, <2>2, <3>1 DEF LogsOwn
  <2>4. ASSUME NEW w \in Wallets
        PROVE  \A i \in DOMAIN Drained(w)' : Drained(w)'[i].group \in DOMAIN groups'
    <3> DEFINE D == Drained(w)
               F == [i \in 1..Copies(e, w) |-> e]
    <3>1. D \in Seq(Envelope) /\ F \in Seq(Envelope) /\ \A i \in DOMAIN F : F[i] = e
      BY <1>1, <2>1, <2>2, CopiesSeq
    <3>2. Drained(w)' = D \o F /\ \A i \in DOMAIN D : D[i].group \in DOMAIN groups'
      BY <1>1, <2>2 DEF DrainedRegistered
    <3> HIDE DEF D, F
    <3>3. /\ DOMAIN (D \o F) = 1..(Len(D) + Len(F))
          /\ \A i \in 1..(Len(D) + Len(F)) :
               (D \o F)[i] = IF i <= Len(D) THEN D[i] ELSE F[i - Len(D)]
      BY <3>1, ConcatProperties
    <3>4. /\ \A i \in 1..(Len(D) + Len(F)) :
               IF i <= Len(D) THEN i \in DOMAIN D ELSE i - Len(D) \in DOMAIN F
      BY <3>1
    <3>5. \A i \in DOMAIN (D \o F) : (D \o F)[i].group \in DOMAIN groups'
      BY <2>1, <2>2, <3>1, <3>2, <3>3, <3>4
    <3> QED BY <3>2, <3>5
  <2>5. ASSUME NEW w \in Wallets, NEW h \in DOMAIN groups
        PROVE  InOrder(Drained(w)', groups'[h].log, w, h)
    <3>1. InOrder(Drained(w), groups[h].log, w, h) /\ Drained(w) \in Seq(Envelope)
          /\ groups[h].log \in Seq(Envelope)
      BY <1>1 DEF TypeOK, GroupState
    <3>2. CASE h = d.group
      <4>1. InOrder(Drained(w), log, w, h)
        BY <3>1, <3>2 DEF log
      <4>2. InOrder(Drained(w) \o [i \in 1..Copies(e, w) |-> e], Append(log, e), w, h)
        BY <2>1, <2>2, <3>1, <3>2, <4>1, InOrderGrows
      <4> QED BY <2>1, <2>2, <3>2, <4>2
    <3>3. CASE h # d.group
      <4>1. InOrder(Drained(w) \o [i \in 1..Copies(e, w) |-> e], groups[h].log, w, h)
        BY <2>1, <2>2, <3>1, <3>3, InOrderGrows
      <4> QED BY <2>2, <3>1, <3>3, <4>1
    <3> QED BY <3>2, <3>3
  <2> QED BY <2>2, <2>3, <2>4, <2>5 DEF DrainedRegistered
<1> QED BY <1>1, <1>3, <1>4, <1>5, DeliveryKinds

(* Acknowledgements and mailboxes show every wallet the group's one order,  *)
(* for any number of wallets and groups: each Ok(seq), replays included,    *)
(* stays the place of that envelope in the log, and what a wallet drains is *)
(* the part of the log that names it, in log order and each envelope as     *)
(* often as it names the wallet, across fetches, offboards and              *)
(* re-admissions.                                                           *)
THEOREM DeliveryHolds == Spec => []DeliveredAsOrdered
<1>1. Init => DeliveryInv
  <2> SUFFICES ASSUME Init PROVE DeliveryInv
    OBVIOUS
  <2>1. TypeOK
    BY NewGroupType, OwnerAssumption DEF Init, TypeOK
  <2>2. DOMAIN groups = {} /\ acks = {}
    BY DEF Init
  <2>3. \A w \in Wallets : Drained(w) = <<>>
    <3>1. \A w \in Wallets : fetched[w] = <<>> /\ mailboxes[w] = <<>>
      BY DEF Init
    <3>2. <<>> \o <<>> = <<>>
      BY ConcatEmptySeq, EmptySeq
    <3> QED BY <3>1, <3>2 DEF Drained
  <2> QED BY <2>1, <2>2, <2>3 DEF DeliveryInv, TotalOrder, LogsOwn, DrainedRegistered,
                                  AcksRegistered, AcksName, DeliveredInOrder
<1>2. DeliveryInv /\ [Next]_vars => DeliveryInv'
  <2> SUFFICES ASSUME DeliveryInv, [Next]_vars PROVE DeliveryInv'
    OBVIOUS
  <2>1. TypeOK' /\ TotalOrder'
    BY TypeStep, TotalOrderStep DEF DeliveryInv
  <2> QED BY <2>1, AcksStep, StreamsStep DEF DeliveryInv
<1>3. DeliveryInv => DeliveredAsOrdered
  BY DEF DeliveryInv, DeliveredAsOrdered
<1> QED BY <1>1, <1>2, <1>3, PTL DEF Spec
=============================================================================

---------------------------- MODULE WebappProofs ----------------------------
(***************************************************************************)
(* Proofs about parts of the web application that share no state: the      *)
(* roster and invites of a workspace (membership), the cookies and tokens  *)
(* of a session (signing in), approved findings and recalls (memory), the  *)
(* audit chain, mail and unsubscribing, the forms of a record's page, and  *)
(* who reads documents.  Each part has an inductive invariant of its own:  *)
(* WsInv, SignInv with CrossInv, FindingInv with FloorInv, IssuedInv with  *)
(* LinkedInv, MailInv, FormInv, DocInv.                                    *)
(***************************************************************************)
EXTENDS Workspace, SignIn, Memory, AuditChain, Mail, RecordForm, Documents,
        FiniteSetTheorems, WellFoundedInduction, SequenceTheorems, TLAPS

-----------------------------------------------------------------------------
(* Workspace: the rows and the requests, as the routes make them.          *)

RoleChange == [pc : {"role", "assert"}, target : Subs, role : Asked]
Offboarding == [pc : {"status", "revoke", "invites"}, target : Subs]
Inviting == [pc : {"invite"}, by : Subs, emails : SUBSET Emails, role : Asked,
             scope : {"none", Lobby, Dm}]
Accepting == [pc : {"check", "commit"}, sub : Subs, token : Nat,
              known : {"none", "active", "offboarded"}, raced : BOOLEAN]

MemberRows == [role : Roles \cup Asked, status : {"none", "active", "offboarded"}]

InviteRows == [role : Asked, by : Subs, scope : {"none", Lobby, Dm}, email : Emails,
               state : {"pending", "accepted", "expired"}]

RequestRows == {Free} \cup RoleChange \cup Offboarding \cup Inviting \cup Accepting

WsType ==
    /\ members \in [Subs -> MemberRows]
    /\ invites \in Seq(InviteRows)
    /\ requests \in [Requests -> RequestRows]
    /\ \A r \in Requests : requests[r].pc \in {"check", "commit"} =>
                              requests[r].token \in DOMAIN invites

(* What the check of an accept found still holds when it commits, unless a *)
(* write to the issuer's row marked the request.                           *)
EntitledInv ==
    /\ AdmittedByEntitled
    /\ \A r \in Requests : requests[r].pc = "commit" =>
          requests[r].raced \/ inviterStillEntitled(invites[requests[r].token])

At(s, phases) == \E r \in Requests : requests[r].pc \in phases /\ requests[r].target = s

(* Each statement of an offboarding, once run, has left nothing behind it. *)
CleanInv ==
    \A s \in Subs \ strayed : members[s].status = "offboarded" =>
        /\ ~At(s, {"revoke"}) => \A a \in assertions : a[1] # s
        /\ ~At(s, {"revoke", "invites"}) =>
              \A t \in DOMAIN invites : invites[t].by = s => invites[t].state # "pending"

WsInv == WsType /\ EntitledInv /\ CleanInv

(* An invite that exists has the shape of a row.                           *)
LEMMA InviteTyped == ASSUME WsType, NEW t \in DOMAIN invites PROVE invites[t] \in InviteRows
BY DEF WsType

(* A request's phase tells what kind of request it is. *)
LEMMA RequestKinds ==
    ASSUME NEW q \in RequestRows
    PROVE  /\ q.pc \in {"role", "assert"} => q \in RoleChange
           /\ q.pc \in {"status", "revoke", "invites"} => q \in Offboarding
           /\ q.pc = "invite" => q \in Inviting
           /\ q.pc \in {"check", "commit"} => q \in Accepting
           /\ q.pc = "free" => q = Free
BY DEF RequestRows, Free, RoleChange, Offboarding, Inviting, Accepting

(* How a step may change the invites: their issuer, role and address stay, *)
(* and none is pending again.                                              *)
InvitesKept ==
    /\ DOMAIN invites \subseteq DOMAIN invites'
    /\ \A t \in DOMAIN invites :
          /\ invites'[t].by = invites[t].by /\ invites'[t].role = invites[t].role
          /\ invites'[t].state = "pending" => invites[t].state = "pending"

(* A new request that does not touch an invite, or one that has claimed it. *)
LEMMA BeginStep ==
    ASSUME WsType, NEW r \in Requests, NEW q \in RequestRows, Begin(r, q),
           q.pc \in {"check", "commit"} => q.token \in DOMAIN invites
    PROVE  WsType'
BY DEF WsType, Begin

(* Marking the accepts whose issuer's row is written changes nothing else  *)
(* about the requests, and leaves unmarked only accepts of other issuers.  *)
LEMMA StandingKept ==
    ASSUME WsType, NEW s, NEW q \in Requests
    PROVE  /\ Standing(s)[q] \in RequestRows
           /\ Standing(s)[q].pc = requests[q].pc
           /\ requests[q].pc \in {"check", "commit"} => Standing(s)[q].token = requests[q].token
           /\ requests[q].pc # "commit" => Standing(s)[q] = requests[q]
           /\ requests[q].pc = "commit" =>
                 \/ Standing(s)[q].raced
                 \/ Standing(s)[q].raced = requests[q].raced /\ invites[requests[q].token].by # s
<1>1. requests[q] \in RequestRows
  BY DEF WsType
<1>2. CASE requests[q].pc = "commit"
  <2>1. requests[q] \in Accepting
    BY <1>1, <1>2, RequestKinds
  <2>2. CASE invites[requests[q].token].by = s
    <3>1. Standing(s)[q] = [requests[q] EXCEPT !.raced = TRUE]
      BY <1>2, <2>2 DEF Standing
    <3> QED
      BY <1>2, <2>1, <3>1 DEF Accepting, RequestRows
  <2>3. CASE invites[requests[q].token].by # s
    BY <1>1, <1>2, <2>3 DEF Standing
  <2> QED
    BY <2>2, <2>3
<1>3. CASE requests[q].pc # "commit"
  BY <1>1, <1>3 DEF Standing
<1> QED
  BY <1>2, <1>3

(* How a step may change the accepts that are committing. *)
CommitsKept ==
    \A r \in Requests : requests'[r].pc = "commit" =>
        /\ requests'[r].token = requests[r].token
        /\ \/ /\ requests[r].pc = "check"
              /\ inviterStillEntitled(invites[requests[r].token])
              /\ UNCHANGED <<members, invites>>
           \/ /\ requests[r].pc = "commit"
              /\ \/ requests'[r].raced
                 \/ /\ requests'[r].raced = requests[r].raced
                    /\ LET s == invites[requests[r].token].by IN members'[s] = members[s]

WsEffect == WsType' /\ InvitesKept /\ CommitsKept

(* A request enters before any of its statements has run.                  *)
LEMMA BeginEffect ==
    ASSUME WsType, NEW r \in Requests, NEW q \in RequestRows, Begin(r, q), q.pc # "commit",
           q.pc = "check" => q.token \in DOMAIN invites
    PROVE  WsEffect
<1>1. WsType'
  BY BeginStep
<1> QED
  BY <1>1 DEF WsEffect, InvitesKept, CommitsKept, Begin, WsType

(* A role change begins.                                                   *)
LEMMA PatchMemberEffect ==
    ASSUME WsType, NEW r \in Requests, NEW a \in Subs, NEW t \in Subs, NEW role \in Asked,
           PatchMember(r, a, t, role)
    PROVE  WsEffect
<1> DEFINE q == [pc |-> "role", target |-> t, role |-> role]
<1>1. q \in RequestRows /\ q.pc = "role" /\ Begin(r, q)
  BY DEF PatchMember, RequestRows, RoleChange
<1> HIDE DEF q
<1> QED
  BY <1>1, BeginEffect

(* An offboarding begins.                                                  *)
LEMMA DeleteMemberEffect ==
    ASSUME WsType, NEW r \in Requests, NEW a \in Subs, NEW t \in Subs, DeleteMember(r, a, t)
    PROVE  WsEffect
<1> DEFINE q == [pc |-> "status", target |-> t]
<1>1. q \in RequestRows /\ q.pc = "status" /\ Begin(r, q)
  BY DEF DeleteMember, RequestRows, Offboarding
<1> HIDE DEF q
<1> QED
  BY <1>1, BeginEffect

(* A batch of invites begins.                                              *)
LEMMA PostInvitesEffect ==
    ASSUME WsType, NEW r \in Requests, NEW a \in Subs, NEW es \in SUBSET Emails, NEW role \in Asked,
           NEW scope \in {"none", Lobby, Dm}, PostInvites(r, a, es, role, scope)
    PROVE  WsEffect
<1> DEFINE q == [pc |-> "invite", by |-> a, emails |-> es, role |-> role, scope |-> scope]
<1>1. q \in RequestRows /\ q.pc = "invite" /\ Begin(r, q)
  BY DEF PostInvites, RequestRows, Inviting
<1> HIDE DEF q
<1> QED
  BY <1>1, BeginEffect

(* An accept begins: the invite was found by its token.                    *)
LEMMA AcceptClaimEffect ==
    ASSUME WsType, NEW r \in Requests, NEW s \in Subs, NEW t \in DOMAIN invites, AcceptClaim(r, s, t)
    PROVE  WsEffect
<1> DEFINE q == [pc |-> "check", sub |-> s, token |-> t, known |-> "none", raced |-> FALSE]
<1>1. t \in Nat
  BY DEF WsType
<1>2. q \in RequestRows /\ q.pc = "check" /\ q.token = t /\ Begin(r, q)
  BY <1>1 DEF AcceptClaim, RequestRows, Accepting
<1> HIDE DEF q
<1> QED
  BY <1>2, BeginEffect

(* A write to a member's row, marked in the accepts it overtakes. *)
LEMMA MemberWriteEffect ==
    ASSUME WsType, NEW r \in Requests, NEW s \in Subs, NEW q \in RequestRows,
           q.pc \notin {"check", "commit"},
           requests' = [Standing(s) EXCEPT ![r] = q],
           members' \in [Subs -> MemberRows], \A x \in Subs \ {s} : members'[x] = members[x],
           UNCHANGED invites
    PROVE  WsEffect
<1>1. DOMAIN Standing(s) = Requests
  BY DEF Standing
<1>2. /\ requests'[r] = q
      /\ \A p \in Requests \ {r} : requests'[p] = Standing(s)[p]
      /\ DOMAIN requests' = Requests
  BY <1>1
<1>3. requests' \in [Requests -> RequestRows]
  <2>1. \A p \in Requests : requests'[p] \in RequestRows
    BY <1>2, StandingKept
  <2>2. requests' = [p \in Requests |-> requests'[p]]
    BY <1>1
  <2> QED
    BY <2>1, <2>2
<1>4. ASSUME NEW p \in Requests, requests'[p].pc \in {"check", "commit"}
      PROVE  /\ p # r /\ requests[p].pc = requests'[p].pc
             /\ requests'[p].token = requests[p].token /\ requests[p].token \in DOMAIN invites
             /\ requests'[p] = Standing(s)[p]
  BY <1>2, <1>4, StandingKept DEF WsType
<1>5. WsType'
  BY <1>3, <1>4 DEF WsType
<1>6. ASSUME NEW p \in Requests, requests'[p].pc = "commit"
      PROVE  \/ requests'[p].raced
             \/ /\ requests'[p].raced = requests[p].raced
                /\ invites[requests[p].token].by \in Subs \ {s}
  <2>1. requests[p].pc = "commit" /\ requests[p].token \in DOMAIN invites
    BY <1>4, <1>6
  <2>2. invites[requests[p].token].by \in Subs
    BY <2>1, InviteTyped DEF InviteRows
  <2>3. requests'[p] = Standing(s)[p]
    BY <1>4, <1>6
  <2> QED
    BY <2>1, <2>2, <2>3, StandingKept
<1> QED
  BY <1>4, <1>5, <1>6 DEF WsEffect, InvitesKept, CommitsKept

(* The role is written, or the last owner or a missing row refuses it.     *)
LEMMA ChangeRoleEffect ==
    ASSUME WsType, NEW r \in Requests, changeRole(r)
    PROVE  WsEffect
<1> DEFINE s == requests[r].target
           q == [requests[r] EXCEPT !.pc = "assert"]
<1>1. requests[r] \in RoleChange
  BY RequestKinds DEF WsType, changeRole
<1>2. s \in Subs /\ q \in RequestRows /\ q.pc = "assert"
  BY <1>1 DEF RequestRows, RoleChange
<1>3. requests' = [Standing(s) EXCEPT ![r] = q]
  <2>1. Standing(s)[r] = requests[r]
    BY StandingKept DEF changeRole
  <2>2. requests' = [Standing(s) EXCEPT ![r] = [@ EXCEPT !.pc = "assert"]]
    BY DEF changeRole
  <2> QED
    BY <2>1, <2>2
<1>4. members' = [members EXCEPT ![s] = [@ EXCEPT !.role = requests[r].role]]
  BY DEF changeRole
<1>5. [members[s] EXCEPT !.role = requests[r].role] \in MemberRows
  BY <1>1, <1>2 DEF WsType, MemberRows, RoleChange
<1>6. members' \in [Subs -> MemberRows] /\ \A x \in Subs \ {s} : members'[x] = members[x]
  BY <1>4, <1>5 DEF WsType
<1>7. UNCHANGED invites
  BY DEF changeRole
<1> HIDE DEF s, q
<1> QED
  BY <1>2, <1>3, <1>6, <1>7, MemberWriteEffect

(* The status is written, or the request ends there.                       *)
LEMMA OffboardEffect ==
    ASSUME WsType, NEW r \in Requests, offboard(r)
    PROVE  WsEffect
<1> DEFINE s == requests[r].target
           q == [requests[r] EXCEPT !.pc = "revoke"]
<1>1. requests[r] \in Offboarding
  BY RequestKinds DEF WsType, offboard
<1>2. s \in Subs /\ q \in RequestRows /\ q.pc = "revoke"
  BY <1>1 DEF RequestRows, Offboarding
<1>3. requests' = [Standing(s) EXCEPT ![r] = q]
  <2>1. Standing(s)[r] = requests[r]
    BY StandingKept DEF offboard
  <2>2. requests' = [Standing(s) EXCEPT ![r] = [@ EXCEPT !.pc = "revoke"]]
    BY DEF offboard
  <2> QED
    BY <2>1, <2>2
<1>4. members' = [members EXCEPT ![s] = [@ EXCEPT !.status = "offboarded"]]
  BY DEF offboard
<1>5. [members[s] EXCEPT !.status = "offboarded"] \in MemberRows
  BY <1>1, <1>2 DEF WsType, MemberRows
<1>6. members' \in [Subs -> MemberRows] /\ \A x \in Subs \ {s} : members'[x] = members[x]
  BY <1>4, <1>5 DEF WsType
<1>7. UNCHANGED invites
  BY DEF offboard
<1> HIDE DEF s, q
<1> QED
  BY <1>2, <1>3, <1>6, <1>7, MemberWriteEffect

(* A request that moves on, or is done, without a write to a row. *)
LEMMA MovesOnEffect ==
    ASSUME WsType, NEW r \in Requests, NEW q \in RequestRows, q.pc \notin {"check", "commit"},
           requests' = [requests EXCEPT ![r] = q], UNCHANGED members,
           invites' \in Seq(InviteRows), InvitesKept
    PROVE  WsEffect
BY DEF WsType, WsEffect, CommitsKept, InvitesKept

(* The signed assertion of a role change follows its write.                *)
LEMMA AssertRoleEffect ==
    ASSUME WsType, NEW r \in Requests, AssertRole(r)
    PROVE  WsEffect
<1>1. Free \in RequestRows /\ Free.pc = "free" /\ requests' = [requests EXCEPT ![r] = Free]
  BY DEF AssertRole, Goes, RequestRows, Free
<1> QED
  BY <1>1, MovesOnEffect DEF AssertRole, InvitesKept, WsType

(* An offboarding's second statement.                                      *)
LEMMA RevokeAssertionsEffect ==
    ASSUME WsType, NEW r \in Requests, RevokeAssertions(r)
    PROVE  WsEffect
<1> DEFINE q == [requests[r] EXCEPT !.pc = "invites"]
<1>1. requests[r] \in Offboarding
  BY RequestKinds DEF WsType, RevokeAssertions
<1>2. q \in RequestRows /\ q.pc = "invites"
  BY <1>1 DEF RequestRows, Offboarding
<1>3. requests' = [requests EXCEPT ![r] = q]
  BY DEF RevokeAssertions, Goes
<1> HIDE DEF q
<1> QED
  BY <1>2, <1>3, MovesOnEffect DEF RevokeAssertions, InvitesKept, WsType

(* Invites whose states change, and nothing else of them. *)
LEMMA StatesChange ==
    ASSUME WsType, DOMAIN invites' = DOMAIN invites,
           invites' = [t \in DOMAIN invites |-> invites'[t]],
           \A t \in DOMAIN invites :
              \/ invites'[t] = invites[t]
              \/ \E st \in {"accepted", "expired"} : invites'[t] = [invites[t] EXCEPT !.state = st]
    PROVE  invites' \in Seq(InviteRows) /\ InvitesKept
<1>1. ASSUME NEW t \in DOMAIN invites
      PROVE  /\ invites'[t] \in InviteRows
             /\ invites'[t].by = invites[t].by /\ invites'[t].role = invites[t].role
             /\ invites'[t].state = "pending" => invites[t].state = "pending"
  <2>1. invites[t] \in InviteRows
    BY DEF WsType
  <2> QED
    BY <2>1 DEF InviteRows
<1>2. DOMAIN invites = 1..Len(invites) /\ Len(invites) \in Nat
  BY DEF WsType
<1>3. invites' \in [1..Len(invites) -> InviteRows]
  BY <1>1, <1>2
<1>4. invites' \in Seq(InviteRows)
  BY <1>2, <1>3, SeqDef
<1> QED
  BY <1>1, <1>4 DEF InvitesKept

(* An offboarding's last statement: none of the target's invites is pending *)
(* after it.                                                               *)
LEMMA RevokeInvitesEffect ==
    ASSUME WsType, NEW r \in Requests, revokePendingInvitesBy(r)
    PROVE  /\ WsEffect
           /\ \A t \in DOMAIN invites' : invites'[t].by = requests[r].target => invites'[t].state # "pending"
<1>1. Free \in RequestRows /\ Free.pc = "free" /\ requests' = [requests EXCEPT ![r] = Free]
  BY DEF revokePendingInvitesBy, Goes, RequestRows, Free
<1> DEFINE theirs == {t \in DOMAIN invites : invites[t].by = requests[r].target /\ invites[t].state = "pending"}
<1>2. invites' = [t \in DOMAIN invites |->
                     IF t \in theirs THEN [invites[t] EXCEPT !.state = "expired"] ELSE invites[t]]
  BY DEF revokePendingInvitesBy
<1>3. ASSUME NEW t \in DOMAIN invites
      PROVE  /\ \/ invites'[t] = invites[t]
                \/ \E st \in {"accepted", "expired"} : invites'[t] = [invites[t] EXCEPT !.state = st]
             /\ invites'[t].by = requests[r].target => invites'[t].state # "pending"
  <2>1. invites[t] \in InviteRows
    BY InviteTyped
  <2>2. CASE t \in theirs
    BY <1>2, <2>1, <2>2 DEF InviteRows
  <2>3. CASE t \notin theirs
    <3>1. invites'[t] = invites[t]
      BY <1>2, <2>3
    <3> QED
      BY <2>1, <2>3, <3>1
  <2> QED
    BY <2>2, <2>3
<1>4. DOMAIN invites' = DOMAIN invites /\ invites' = [t \in DOMAIN invites |-> invites'[t]]
  BY <1>2
<1>5. invites' \in Seq(InviteRows) /\ InvitesKept
  BY <1>3, <1>4, StatesChange
<1>6. UNCHANGED members
  BY DEF revokePendingInvitesBy
<1> QED
  BY <1>1, <1>3, <1>4, <1>5, <1>6, MovesOnEffect

(* One invite of the batch: the rows there were stay, and a row whose      *)
(* issuer is offboarded by now is a strayed one.                           *)
LEMMA CreateInviteEffect ==
    ASSUME WsType, NEW r \in Requests, createInvite(r)
    PROVE  /\ WsEffect
           /\ \A t \in DOMAIN invites' :
                 \/ t \in DOMAIN invites /\ invites'[t] = invites[t]
                 \/ members[invites'[t].by].status = "offboarded" => invites'[t].by \in strayed'
<1>1. requests[r] \in Inviting
  BY RequestKinds DEF WsType, createInvite
<1>2. PICK e \in requests[r].emails :
         LET left == requests[r].emails \ {e}
         IN  /\ \/ /\ invites' = Append(invites, [role |-> requests[r].role, by |-> requests[r].by,
                                                  scope |-> requests[r].scope, email |-> e,
                                                  state |-> "pending"])
                   /\ strayed' = IF members[requests[r].by].status = "offboarded"
                                 THEN strayed \union {requests[r].by} ELSE strayed
                \/ UNCHANGED <<invites, strayed>>
             /\ requests' = [requests EXCEPT ![r] = IF left = {} THEN Free ELSE [@ EXCEPT !.emails = left]]
  BY DEF createInvite
<1> DEFINE left == requests[r].emails \ {e}
           q == IF left = {} THEN Free ELSE [requests[r] EXCEPT !.emails = left]
           new == [role |-> requests[r].role, by |-> requests[r].by, scope |-> requests[r].scope,
                   email |-> e, state |-> "pending"]
<1>3. q \in RequestRows /\ q.pc \notin {"check", "commit"}
  <2>1. CASE left = {}
    BY <2>1 DEF RequestRows, Free
  <2>2. CASE left # {}
    <3>1. [requests[r] EXCEPT !.emails = left] \in Inviting
      BY <1>1 DEF Inviting
    <3> QED
      BY <2>2, <3>1 DEF RequestRows, Inviting
  <2> QED
    BY <2>1, <2>2
<1>4. requests' = [requests EXCEPT ![r] = q]
  BY <1>2
<1>5. new \in InviteRows
  BY <1>1 DEF Inviting, InviteRows
<1>6. /\ invites' \in Seq(InviteRows) /\ InvitesKept
      /\ \A t \in DOMAIN invites' :
            \/ t \in DOMAIN invites /\ invites'[t] = invites[t]
            \/ members[invites'[t].by].status = "offboarded" => invites'[t].by \in strayed'
  <2>1. CASE UNCHANGED <<invites, strayed>>
    BY <2>1 DEF WsType, InvitesKept
  <2>2. CASE /\ invites' = Append(invites, new)
             /\ strayed' = IF members[requests[r].by].status = "offboarded"
                           THEN strayed \union {requests[r].by} ELSE strayed
    <3>1. new.by = requests[r].by
      OBVIOUS
    <3> HIDE DEF new
    <3>2. invites \in Seq(InviteRows)
      BY DEF WsType
    <3>3. invites' \in Seq(InviteRows) /\ Len(invites') = Len(invites) + 1 /\ Len(invites) \in Nat
      BY <1>5, <2>2, <3>2
    <3>4. \A t \in DOMAIN invites : t \in DOMAIN invites' /\ invites'[t] = invites[t]
      BY <1>5, <2>2, <3>2
    <3>5. \A t \in DOMAIN invites' : t \in DOMAIN invites \/ invites'[t] = new
      BY <1>5, <2>2, <3>2
    <3> QED
      BY <2>2, <3>1, <3>3, <3>4, <3>5 DEF InvitesKept
  <2> QED
    BY <1>2, <2>1, <2>2
<1>7. UNCHANGED members
  BY DEF createInvite
<1> HIDE DEF q
<1> QED
  BY <1>3, <1>4, <1>6, <1>7, MovesOnEffect

(* A pending invite passes its date.                                       *)
LEMMA ExpireEffect ==
    ASSUME WsType, NEW t \in DOMAIN invites, Expire(t)
    PROVE  WsEffect
<1>1. invites' = [invites EXCEPT ![t] = [@ EXCEPT !.state = "expired"]]
  BY DEF Expire
<1>2. /\ DOMAIN invites' = DOMAIN invites /\ invites' = [x \in DOMAIN invites |-> invites'[x]]
      /\ \A x \in DOMAIN invites :
            \/ invites'[x] = invites[x]
            \/ \E st \in {"accepted", "expired"} : invites'[x] = [invites[x] EXCEPT !.state = st]
  BY <1>1
<1>3. invites' \in Seq(InviteRows) /\ InvitesKept
  BY <1>2, StatesChange
<1>4. UNCHANGED <<members, requests>>
  BY DEF Expire
<1> QED
  BY <1>2, <1>3, <1>4 DEF WsType, WsEffect, CommitsKept

(* The check of an accept: what it finds holds when the commit begins.     *)
LEMMA AcceptCheckEffect ==
    ASSUME WsType, NEW r \in Requests, AcceptCheck(r)
    PROVE  WsEffect
<1> DEFINE t == requests[r].token
<1>1. requests[r] \in Accepting /\ t \in DOMAIN invites
  BY RequestKinds DEF WsType, AcceptCheck
<1>2. CASE inviterStillEntitled(invites[t])
  <2> DEFINE q == [requests[r] EXCEPT !.pc = "commit", !.known = members[requests[r].sub].status]
  <2>1. requests' = [requests EXCEPT ![r] = q] /\ UNCHANGED <<members, invites>>
    BY <1>2 DEF AcceptCheck
  <2>2. members[requests[r].sub].status \in {"none", "active", "offboarded"}
    BY <1>1 DEF Accepting, WsType, MemberRows
  <2>3. q \in Accepting /\ q.pc = "commit" /\ q.token = t
    BY <1>1, <2>2 DEF Accepting
  <2>4. q \in RequestRows
    BY <2>3 DEF RequestRows
  <2>5. requests[r].pc = "check"
    BY DEF AcceptCheck
  <2> HIDE DEF q
  <2>6. WsType'
    BY <1>1, <2>1, <2>3, <2>4 DEF WsType
  <2>7. CommitsKept
    BY <1>2, <2>1, <2>3, <2>5 DEF CommitsKept, WsType
  <2> QED
    BY <2>1, <2>6, <2>7 DEF WsEffect, InvitesKept
<1>3. CASE ~inviterStillEntitled(invites[t])
  <2>1. /\ requests' = [requests EXCEPT ![r] = Free] /\ UNCHANGED members
        /\ invites' = [invites EXCEPT ![t] = [@ EXCEPT !.state = "accepted"]]
    BY <1>3 DEF AcceptCheck, Goes
  <2>2. /\ DOMAIN invites' = DOMAIN invites /\ invites' = [x \in DOMAIN invites |-> invites'[x]]
        /\ \A x \in DOMAIN invites :
              \/ invites'[x] = invites[x]
              \/ \E st \in {"accepted", "expired"} : invites'[x] = [invites[x] EXCEPT !.state = st]
    BY <2>1
  <2>3. invites' \in Seq(InviteRows) /\ InvitesKept
    BY <2>2, StatesChange
  <2>4. Free \in RequestRows /\ Free.pc = "free"
    BY DEF RequestRows, Free
  <2> QED
    BY <2>1, <2>3, <2>4, MovesOnEffect
<1> QED
  BY <1>2, <1>3

(* The commit of an accept: it offboards nobody, and what it records of an *)
(* admission is whether the issuer still was entitled.                     *)
LEMMA AcceptInviteEffect ==
    ASSUME WsType, NEW r \in Requests, acceptInvite(r)
    PROVE  /\ WsEffect
           /\ \A s \in Subs : members'[s].status = "offboarded" => members[s].status = "offboarded"
           /\ \A a \in admitted' : \/ a \in admitted
                                   \/ a.fit = (requests[r].raced \/ inviterStillEntitled(invites[requests[r].token]))
<1> DEFINE s == requests[r].sub
           t == requests[r].token
           row == [role |-> invites[t].role, status |-> "active"]
<1>1. requests[r] \in Accepting /\ t \in DOMAIN invites /\ requests[r].pc = "commit"
  BY RequestKinds DEF WsType, acceptInvite
<1>2. s \in Subs
  BY <1>1 DEF Accepting
<1>3. Free \in RequestRows /\ Free.pc = "free" /\ requests' = [Standing(s) EXCEPT ![r] = Free]
  BY DEF acceptInvite, RequestRows, Free
<1>4. row \in MemberRows /\ row.status = "active"
  BY <1>1, InviteTyped DEF InviteRows, MemberRows
<1>5. \/ UNCHANGED <<members, seats, invites, admitted>>
      \/ /\ invites' = [invites EXCEPT ![t] = [@ EXCEPT !.state = "accepted"]]
         /\ members' = members \/ members' = [members EXCEPT ![s] = row]
         /\ admitted' = admitted \union
                {[token |-> t, sub |-> s, fit |-> requests[r].raced \/ inviterStillEntitled(invites[t])]}
  BY DEF acceptInvite
<1> HIDE DEF row
<1>6. /\ members' \in [Subs -> MemberRows] /\ \A x \in Subs \ {s} : members'[x] = members[x]
      /\ members' = members \/ members'[s].status = "active"
  BY <1>2, <1>4, <1>5 DEF WsType
<1>7. /\ invites' \in Seq(InviteRows) /\ InvitesKept
      /\ DOMAIN invites' = DOMAIN invites
  <2>1. CASE UNCHANGED invites
    BY <2>1 DEF WsType, InvitesKept
  <2>2. CASE invites' = [invites EXCEPT ![t] = [@ EXCEPT !.state = "accepted"]]
    <3>1. /\ DOMAIN invites' = DOMAIN invites /\ invites' = [x \in DOMAIN invites |-> invites'[x]]
          /\ \A x \in DOMAIN invites :
                \/ invites'[x] = invites[x]
                \/ \E st \in {"accepted", "expired"} : invites'[x] = [invites[x] EXCEPT !.state = st]
      BY <2>2
    <3> QED
      BY <3>1, StatesChange
  <2> QED
    BY <1>5, <2>1, <2>2
<1>8. /\ requests'[r] = Free
      /\ \A p \in Requests \ {r} : requests'[p] = Standing(s)[p]
      /\ requests' \in [Requests -> RequestRows]
  <2>1. DOMAIN Standing(s) = Requests
    BY DEF Standing
  <2>2. \A p \in Requests : requests'[p] \in RequestRows
    BY <1>3, <2>1, StandingKept
  <2>3. requests' = [p \in Requests |-> requests'[p]]
    BY <1>3, <2>1
  <2> QED
    BY <1>3, <2>1, <2>2, <2>3
<1>9. ASSUME NEW p \in Requests, requests'[p].pc \in {"check", "commit"}
      PROVE  /\ p # r /\ requests[p].pc = requests'[p].pc
             /\ requests'[p].token = requests[p].token /\ requests[p].token \in DOMAIN invites
             /\ requests'[p] = Standing(s)[p]
  BY <1>3, <1>8, <1>9, StandingKept DEF WsType
<1>10. WsType'
  BY <1>6, <1>7, <1>8, <1>9 DEF WsType
<1>11. ASSUME NEW p \in Requests, requests'[p].pc = "commit"
       PROVE  \/ requests'[p].raced
              \/ /\ requests'[p].raced = requests[p].raced
                 /\ invites[requests[p].token].by \in Subs \ {s}
  <2>1. requests[p].pc = "commit" /\ requests[p].token \in DOMAIN invites
    BY <1>9, <1>11
  <2>2. invites[requests[p].token].by \in Subs
    BY <2>1, InviteTyped DEF InviteRows
  <2>3. requests'[p] = Standing(s)[p]
    BY <1>9, <1>11
  <2> QED
    BY <2>1, <2>2, <2>3, StandingKept
<1>12. WsEffect
  BY <1>6, <1>7, <1>9, <1>10, <1>11 DEF WsEffect, CommitsKept
<1>13. \A x \in Subs : members'[x].status = "offboarded" => members[x].status = "offboarded"
  BY <1>2, <1>6
<1>14. \A a \in admitted' : \/ a \in admitted
                            \/ a.fit = (requests[r].raced \/ inviterStillEntitled(invites[t]))
  BY <1>5
<1> QED
  BY <1>12, <1>13, <1>14

(* A step that touches neither rows nor requests.                          *)
LEMMA NoEffect ==
    ASSUME WsType, UNCHANGED <<members, invites, requests>>
    PROVE  WsEffect
BY DEF WsType, WsEffect, InvitesKept, CommitsKept

(* A fact about steps may be shown operation by operation.                 *)
LEMMA WsCases ==
    ASSUME [WsNext]_wsVars, NEW ACTION P,
           \A r \in Requests, a, t \in Subs, role \in Asked : PatchMember(r, a, t, role) => P,
           \A r \in Requests, a, t \in Subs : DeleteMember(r, a, t) => P,
           \A r \in Requests, a \in Subs, es \in SUBSET Emails, role \in Asked,
              scope \in {"none", Lobby, Dm} : PostInvites(r, a, es, role, scope) => P,
           \A r \in Requests, s \in Subs, t \in DOMAIN invites : AcceptClaim(r, s, t) => P,
           \A r \in Requests : (changeRole(r) \/ AssertRole(r)) => P,
           \A r \in Requests : (offboard(r) \/ RevokeAssertions(r)) => P,
           \A r \in Requests : (revokePendingInvitesBy(r) \/ createInvite(r)) => P,
           \A r \in Requests : (AcceptCheck(r) \/ acceptInvite(r)) => P,
           \A t \in DOMAIN invites : Expire(t) => P,
           \A a, t \in Subs, c \in {Lobby, Dm} : AddChannelMember(a, t, c) => P,
           UNCHANGED wsVars => P
    PROVE  P
<1>1. ASSUME NEW r \in Requests, NEW a \in Subs, NEW e \in Emails, NEW role \in Asked,
             NEW scope \in {"none", Lobby, Dm}, PostInvite(r, a, e, role, scope)
      PROVE  P
  BY <1>1 DEF PostInvite
<1>2. ASSUME NEW r \in Requests, NEW a \in Subs, NEW es \in (SUBSET Emails) \ {{}}, NEW role \in Asked,
             NEW scope \in {"none", Lobby, Dm}, PostInvites(r, a, es, role, scope)
      PROVE  P
  BY <1>2
<1> QED
  BY <1>1, <1>2 DEF WsNext

(* Every step keeps the shapes, the invites and the checks made.           *)
LEMMA WsEffectStep == WsType /\ [WsNext]_wsVars => WsEffect
<1> SUFFICES ASSUME WsType, [WsNext]_wsVars PROVE WsEffect
  OBVIOUS
<1> DEFINE P == WsEffect
<1>1. \A r \in Requests, a, t \in Subs, role \in Asked : PatchMember(r, a, t, role) => P
  BY PatchMemberEffect
<1>2. \A r \in Requests, a, t \in Subs : DeleteMember(r, a, t) => P
  BY DeleteMemberEffect
<1>3. \A r \in Requests, a \in Subs, es \in SUBSET Emails, role \in Asked,
         scope \in {"none", Lobby, Dm} : PostInvites(r, a, es, role, scope) => P
  BY PostInvitesEffect
<1>4. \A r \in Requests, s \in Subs, t \in DOMAIN invites : AcceptClaim(r, s, t) => P
  BY AcceptClaimEffect
<1>5. \A r \in Requests : (changeRole(r) \/ AssertRole(r)) => P
  BY ChangeRoleEffect, AssertRoleEffect
<1>6. \A r \in Requests : (offboard(r) \/ RevokeAssertions(r)) => P
  BY OffboardEffect, RevokeAssertionsEffect
<1>7. \A r \in Requests : (revokePendingInvitesBy(r) \/ createInvite(r)) => P
  BY RevokeInvitesEffect, CreateInviteEffect
<1>8. \A r \in Requests : (AcceptCheck(r) \/ acceptInvite(r)) => P
  BY AcceptCheckEffect, AcceptInviteEffect
<1>9. \A t \in DOMAIN invites : Expire(t) => P
  BY ExpireEffect
<1>10. \A a, t \in Subs, c \in {Lobby, Dm} : AddChannelMember(a, t, c) => P
  BY NoEffect DEF AddChannelMember
<1>11. UNCHANGED wsVars => P
  BY NoEffect DEF wsVars
<1> HIDE DEF P
<1>12. P
  BY <1>1, <1>2, <1>3, <1>4, <1>5, <1>6, <1>7, <1>8, <1>9, <1>10, <1>11, WsCases
<1> QED
  BY <1>12 DEF P

(* Only the commit of an accept admits anybody. *)
LEMMA AdmittedStep ==
    WsType /\ EntitledInv /\ [WsNext]_wsVars => \A a \in admitted' : a \in admitted \/ a.fit
<1> SUFFICES ASSUME WsType, EntitledInv, [WsNext]_wsVars
             PROVE  \A a \in admitted' : a \in admitted \/ a.fit
  OBVIOUS
<1> DEFINE P == \A a \in admitted' : a \in admitted \/ a.fit
<1>1. \A r \in Requests, a, t \in Subs, role \in Asked : PatchMember(r, a, t, role) => P
  BY DEF PatchMember, Begin
<1>2. \A r \in Requests, a, t \in Subs : DeleteMember(r, a, t) => P
  BY DEF DeleteMember, Begin
<1>3. \A r \in Requests, a \in Subs, es \in SUBSET Emails, role \in Asked,
         scope \in {"none", Lobby, Dm} : PostInvites(r, a, es, role, scope) => P
  BY DEF PostInvites, Begin
<1>4. \A r \in Requests, s \in Subs, t \in DOMAIN invites : AcceptClaim(r, s, t) => P
  BY DEF AcceptClaim, Begin
<1>5. \A r \in Requests : (changeRole(r) \/ AssertRole(r)) => P
  BY DEF changeRole, AssertRole
<1>6. \A r \in Requests : (offboard(r) \/ RevokeAssertions(r)) => P
  BY DEF offboard, RevokeAssertions
<1>7. \A r \in Requests : (revokePendingInvitesBy(r) \/ createInvite(r)) => P
  BY DEF revokePendingInvitesBy, createInvite
<1>8. \A r \in Requests : (AcceptCheck(r) \/ acceptInvite(r)) => P
  <2>1. ASSUME NEW r \in Requests, acceptInvite(r) PROVE P
    <3>1. requests[r].raced \/ inviterStillEntitled(invites[requests[r].token])
      BY <2>1 DEF acceptInvite, EntitledInv
    <3> QED
      BY <2>1, <3>1, AcceptInviteEffect
  <2> QED
    BY <2>1 DEF AcceptCheck
<1>9. \A t \in DOMAIN invites : Expire(t) => P
  BY DEF Expire
<1>10. \A a, t \in Subs, c \in {Lobby, Dm} : AddChannelMember(a, t, c) => P
  BY DEF AddChannelMember
<1>11. UNCHANGED wsVars => P
  BY DEF wsVars
<1> HIDE DEF P
<1>12. P
  BY <1>1, <1>2, <1>3, <1>4, <1>5, <1>6, <1>7, <1>8, <1>9, <1>10, <1>11, WsCases
<1> QED
  BY <1>12 DEF P

(* Every step keeps what a check found, or has marked the accept.          *)
LEMMA EntitledStep == WsType /\ EntitledInv /\ [WsNext]_wsVars => EntitledInv'
<1> SUFFICES ASSUME WsType, EntitledInv, [WsNext]_wsVars PROVE EntitledInv'
  OBVIOUS
<1>1. WsType' /\ InvitesKept /\ CommitsKept
  BY WsEffectStep DEF WsEffect
<1>2. AdmittedByEntitled'
  BY AdmittedStep DEF EntitledInv, AdmittedByEntitled
<1>3. ASSUME NEW r \in Requests, requests'[r].pc = "commit"
      PROVE  requests'[r].raced \/ inviterStillEntitled(invites[requests[r].token])'
  <2> DEFINE t == requests[r].token
  <2>1. requests'[r].token = t
    BY <1>1, <1>3 DEF CommitsKept
  <2>2. CASE inviterStillEntitled(invites[t]) /\ UNCHANGED <<members, invites>> /\ requests[r].pc = "check"
    BY <2>1, <2>2 DEF inviterStillEntitled, requireCapability, requireMembership
  <2>3. CASE requests[r].pc = "commit" /\ requests'[r].raced = requests[r].raced
             /\ members'[invites[t].by] = members[invites[t].by]
    <3>1. t \in DOMAIN invites
      BY <2>3 DEF WsType
    <3>2. invites'[t].by = invites[t].by /\ invites'[t].role = invites[t].role
      BY <1>1, <3>1 DEF InvitesKept
    <3>3. requests[r].raced \/ inviterStillEntitled(invites[t])
      BY <2>3 DEF EntitledInv
    <3> QED
      BY <2>1, <2>3, <3>2, <3>3 DEF inviterStillEntitled, requireCapability, requireMembership
  <2> QED
    BY <1>1, <1>3, <2>2, <2>3 DEF CommitsKept
<1>4. \A r \in Requests : requests'[r].pc = "commit" => requests'[r].token = requests[r].token
  BY <1>1 DEF CommitsKept
<1> QED
  BY <1>2, <1>3, <1>4 DEF EntitledInv

(* The offboardings that are under way stay where they are. *)
OffboardingsKept ==
    \A p \in Requests : requests[p].pc \in {"revoke", "invites"} => requests'[p] = requests[p]

NobodyOffboarded == \A s \in Subs : members'[s].status = "offboarded" => members[s].status = "offboarded"

NoNewInvite == DOMAIN invites' = DOMAIN invites

(* A step that offboards nobody, ends no offboarding and adds neither an   *)
(* invite nor an assertion keeps what the offboardings have done.          *)
LEMMA QuietStep ==
    ASSUME WsType, CleanInv, WsEffect, OffboardingsKept, NobodyOffboarded, NoNewInvite,
           assertions' \subseteq assertions, strayed \subseteq strayed'
    PROVE  CleanInv'
<1> SUFFICES ASSUME NEW s \in Subs \ strayed', members'[s].status = "offboarded"
             PROVE  /\ ~At(s, {"revoke"})' => \A a \in assertions' : a[1] # s
                    /\ ~At(s, {"revoke", "invites"})' =>
                          \A t \in DOMAIN invites' : invites'[t].by = s => invites'[t].state # "pending"
  BY DEF CleanInv
<1>1. s \in Subs \ strayed /\ members[s].status = "offboarded"
  BY DEF NobodyOffboarded
<1>2. /\ At(s, {"revoke"}) => At(s, {"revoke"})'
      /\ At(s, {"revoke", "invites"}) => At(s, {"revoke", "invites"})'
  BY DEF At, OffboardingsKept
<1> QED
  BY <1>1, <1>2 DEF CleanInv, WsEffect, InvitesKept, NoNewInvite

(* A request that begins has done nothing yet.                             *)
LEMMA BeginQuiet ==
    ASSUME WsType, NEW r \in Requests, NEW q, Begin(r, q)
    PROVE  /\ OffboardingsKept /\ NobodyOffboarded /\ NoNewInvite
           /\ assertions' \subseteq assertions /\ strayed \subseteq strayed'
<1>1. requests[r].pc = "free"
  BY DEF Begin, Free
<1> QED
  BY <1>1 DEF Begin, OffboardingsKept, NobodyOffboarded, NoNewInvite, WsType

(* A request that begins keeps what the offboardings have done.            *)
LEMMA BeginClean ==
    ASSUME WsType, CleanInv, WsEffect, NEW r \in Requests, NEW q, Begin(r, q)
    PROVE  CleanInv'
BY BeginQuiet, QuietStep

(* A write to a member's row moves no offboarding but its own. *)
LEMMA StandingQuiet ==
    ASSUME WsType, NEW r \in Requests, NEW s, NEW q, requests' = [Standing(s) EXCEPT ![r] = q]
    PROVE  \A p \in Requests \ {r} : requests[p].pc \in {"revoke", "invites"} => requests'[p] = requests[p]
<1>1. DOMAIN Standing(s) = Requests
  BY DEF Standing
<1> QED
  BY <1>1, StandingKept

(* A role change offboards nobody.                                         *)
LEMMA ChangeRoleClean ==
    ASSUME WsType, CleanInv, WsEffect, NEW r \in Requests, changeRole(r)
    PROVE  CleanInv'
<1> DEFINE s == requests[r].target
           q == [Standing(s)[r] EXCEPT !.pc = "assert"]
<1>1. requests' = [Standing(s) EXCEPT ![r] = q] /\ requests[r].pc = "role"
  BY DEF changeRole
<1> HIDE DEF q
<1>2. OffboardingsKept
  BY <1>1, StandingQuiet DEF OffboardingsKept
<1>3. members' = [members EXCEPT ![s] = [@ EXCEPT !.role = requests[r].role]]
  BY DEF changeRole
<1>4. s \in Subs
  BY RequestKinds DEF WsType, changeRole, RoleChange
<1>5. members[s] \in MemberRows
  BY <1>4 DEF WsType
<1>6. [members[s] EXCEPT !.role = requests[r].role].status = members[s].status
  BY <1>5 DEF MemberRows
<1>7. NobodyOffboarded
  BY <1>3, <1>4, <1>6 DEF NobodyOffboarded, WsType
<1> QED
  BY <1>2, <1>7, QuietStep DEF changeRole, NoNewInvite

(* An offboarding that writes the status is under way from then on.        *)
LEMMA OffboardClean ==
    ASSUME WsType, CleanInv, WsEffect, NEW r \in Requests, offboard(r),
           NEW s, s = requests[r].target
    PROVE  CleanInv'
<1> DEFINE q == [Standing(s)[r] EXCEPT !.pc = "revoke"]
<1>1. requests' = [Standing(s) EXCEPT ![r] = q] /\ requests[r].pc = "status"
  BY DEF offboard
<1>2. requests[r] \in Offboarding /\ Standing(s)[r] = requests[r]
  BY RequestKinds, StandingKept DEF WsType, offboard
<1>3. q.pc = "revoke" /\ q.target = s /\ s \in Subs
  BY <1>2 DEF Offboarding
<1> HIDE DEF q
<1>4. requests'[r] = q
  BY <1>1 DEF Standing
<1>5. OffboardingsKept
  BY <1>1, StandingQuiet DEF OffboardingsKept
<1>6. members' = [members EXCEPT ![s] = [@ EXCEPT !.status = "offboarded"]]
  BY DEF offboard
<1>7. ASSUME NEW x \in Subs \ {s}
      PROVE  /\ At(x, {"revoke"}) => At(x, {"revoke"})'
             /\ At(x, {"revoke", "invites"}) => At(x, {"revoke", "invites"})'
             /\ members'[x] = members[x]
  BY <1>5, <1>6 DEF At, OffboardingsKept, WsType
<1>8. At(s, {"revoke"})' /\ At(s, {"revoke", "invites"})'
  BY <1>3, <1>4 DEF At
<1>9. UNCHANGED <<assertions, invites, strayed>>
  BY DEF offboard
<1>10. ASSUME NEW x \in Subs \ strayed', members'[x].status = "offboarded"
       PROVE  /\ ~At(x, {"revoke"})' => \A a \in assertions' : a[1] # x
              /\ ~At(x, {"revoke", "invites"})' =>
                    \A t \in DOMAIN invites' : invites'[t].by = x => invites'[t].state # "pending"
  <2>1. CASE x = s
    BY <2>1, <1>8
  <2>2. CASE x # s
    BY <2>2, <1>7, <1>9, <1>10 DEF CleanInv
  <2> QED
    BY <2>1, <2>2
<1> QED
  BY <1>10 DEF CleanInv

(* An offboarding leaves its second statement with no assertion left.      *)
LEMMA RevokeAssertionsClean ==
    ASSUME WsType, CleanInv, WsEffect, NEW r \in Requests, RevokeAssertions(r),
           NEW s, s = requests[r].target
    PROVE  CleanInv'
<1> DEFINE q == [requests[r] EXCEPT !.pc = "invites"]
<1>1. requests' = [requests EXCEPT ![r] = q] /\ requests[r].pc = "revoke"
  BY DEF RevokeAssertions, Goes
<1>2. requests[r] \in Offboarding
  BY RequestKinds DEF WsType, RevokeAssertions
<1>3. q.pc = "invites" /\ q.target = s /\ s \in Subs
  BY <1>2 DEF Offboarding
<1> HIDE DEF q
<1>4. requests'[r] = q /\ \A p \in Requests \ {r} : requests'[p] = requests[p]
  BY <1>1 DEF WsType
<1>5. /\ UNCHANGED <<members, invites, strayed>>
      /\ assertions' = {a \in assertions : a[1] # s}
  BY DEF RevokeAssertions
<1>6. At(s, {"revoke", "invites"})' /\ \A a \in assertions' : a[1] # s
  BY <1>3, <1>4, <1>5 DEF At
<1>7. ASSUME NEW x \in Subs \ {s}
      PROVE  /\ At(x, {"revoke"}) => At(x, {"revoke"})'
             /\ At(x, {"revoke", "invites"}) => At(x, {"revoke", "invites"})'
  BY <1>4 DEF At
<1>8. ASSUME NEW x \in Subs \ strayed', members'[x].status = "offboarded"
      PROVE  /\ ~At(x, {"revoke"})' => \A a \in assertions' : a[1] # x
             /\ ~At(x, {"revoke", "invites"})' =>
                   \A t \in DOMAIN invites' : invites'[t].by = x => invites'[t].state # "pending"
  <2>1. CASE x = s
    BY <2>1, <1>6
  <2>2. CASE x # s
    BY <2>2, <1>5, <1>7, <1>8 DEF CleanInv
  <2> QED
    BY <2>1, <2>2
<1> QED
  BY <1>8 DEF CleanInv

(* An offboarding leaves its last statement with no invite pending.        *)
LEMMA RevokeInvitesClean ==
    ASSUME WsType, CleanInv, WsEffect, NEW r \in Requests, revokePendingInvitesBy(r),
           NEW s, s = requests[r].target
    PROVE  CleanInv'
<1>1. requests' = [requests EXCEPT ![r] = Free] /\ requests[r].pc = "invites"
  BY DEF revokePendingInvitesBy, Goes
<1>2. requests'[r] = Free /\ \A p \in Requests \ {r} : requests'[p] = requests[p]
  BY <1>1 DEF WsType
<1>3. UNCHANGED <<members, assertions, strayed>> /\ DOMAIN invites' = DOMAIN invites
  BY DEF revokePendingInvitesBy
<1>4. \A t \in DOMAIN invites' : invites'[t].by = s => invites'[t].state # "pending"
  BY RevokeInvitesEffect
<1>5. ASSUME NEW x \in Subs
      PROVE  /\ At(x, {"revoke"}) => At(x, {"revoke"})'
             /\ x # s => (At(x, {"revoke", "invites"}) => At(x, {"revoke", "invites"})')
  BY <1>1, <1>2 DEF At
<1>6. ASSUME NEW x \in Subs \ strayed', members'[x].status = "offboarded"
      PROVE  /\ ~At(x, {"revoke"})' => \A a \in assertions' : a[1] # x
             /\ ~At(x, {"revoke", "invites"})' =>
                   \A t \in DOMAIN invites' : invites'[t].by = x => invites'[t].state # "pending"
  <2>1. ~At(x, {"revoke"})' => \A a \in assertions' : a[1] # x
    BY <1>3, <1>5, <1>6 DEF CleanInv
  <2>2. CASE x = s
    BY <1>4, <2>1, <2>2
  <2>3. CASE x # s
    BY <2>1, <2>3, <1>3, <1>5, <1>6 DEF CleanInv, WsEffect, InvitesKept
  <2> QED
    BY <2>2, <2>3
<1> QED
  BY <1>6 DEF CleanInv

(* An assertion for somebody offboarded meanwhile is a strayed one.        *)
LEMMA AssertRoleClean ==
    ASSUME WsType, CleanInv, WsEffect, NEW r \in Requests, AssertRole(r),
           NEW s, s = requests[r].target
    PROVE  CleanInv'
<1>1. requests' = [requests EXCEPT ![r] = Free] /\ requests[r].pc = "assert"
  BY DEF AssertRole, Goes
<1>2. /\ UNCHANGED <<members, invites>> /\ strayed \subseteq strayed'
      /\ members[s].status = "offboarded" => s \in strayed'
      /\ assertions' = assertions \union {<<s, requests[r].role>>}
  BY DEF AssertRole
<1>3. ASSUME NEW x \in Subs
      PROVE  /\ At(x, {"revoke"}) => At(x, {"revoke"})'
             /\ At(x, {"revoke", "invites"}) => At(x, {"revoke", "invites"})'
  BY <1>1 DEF At, WsType
<1>4. ASSUME NEW x \in Subs \ strayed', members'[x].status = "offboarded"
      PROVE  /\ ~At(x, {"revoke"})' => \A a \in assertions' : a[1] # x
             /\ ~At(x, {"revoke", "invites"})' =>
                   \A t \in DOMAIN invites' : invites'[t].by = x => invites'[t].state # "pending"
  <2>1. x # s /\ x \notin strayed /\ members[x].status = "offboarded"
    BY <1>2, <1>4
  <2>2. \A a \in assertions' : a \in assertions \/ a[1] = s
    BY <1>2
  <2> QED
    BY <1>2, <1>3, <2>1, <2>2 DEF CleanInv
<1> QED
  BY <1>4 DEF CleanInv

(* An invite of somebody offboarded meanwhile is a strayed one.            *)
LEMMA CreateInviteClean ==
    ASSUME WsType, CleanInv, WsEffect, NEW r \in Requests, createInvite(r)
    PROVE  CleanInv'
<1>1. requests[r].pc = "invite" /\ \A p \in Requests \ {r} : requests'[p] = requests[p]
  BY DEF createInvite, WsType
<1>2. UNCHANGED <<members, assertions>> /\ strayed \subseteq strayed'
  BY DEF createInvite
<1>3. ASSUME NEW x \in Subs
      PROVE  /\ At(x, {"revoke"}) => At(x, {"revoke"})'
             /\ At(x, {"revoke", "invites"}) => At(x, {"revoke", "invites"})'
  BY <1>1 DEF At
<1>4. ASSUME NEW x \in Subs \ strayed', members'[x].status = "offboarded"
      PROVE  /\ ~At(x, {"revoke"})' => \A a \in assertions' : a[1] # x
             /\ ~At(x, {"revoke", "invites"})' =>
                   \A t \in DOMAIN invites' : invites'[t].by = x => invites'[t].state # "pending"
  <2>1. \A t \in DOMAIN invites' : invites'[t].by = x => t \in DOMAIN invites /\ invites'[t] = invites[t]
    BY <1>2, <1>4, CreateInviteEffect
  <2> QED
    BY <1>2, <1>3, <1>4, <2>1 DEF CleanInv
<1> QED
  BY <1>4 DEF CleanInv

(* An accept restores a member and adds neither invite nor assertion.      *)
LEMMA AcceptClean ==
    ASSUME WsType, CleanInv, WsEffect, NEW r \in Requests, AcceptCheck(r) \/ acceptInvite(r)
    PROVE  CleanInv'
<1>1. CASE AcceptCheck(r)
  <2>1. OffboardingsKept
    BY <1>1 DEF AcceptCheck, Goes, OffboardingsKept, WsType
  <2> QED
    BY <1>1, <2>1, QuietStep DEF AcceptCheck, NobodyOffboarded, NoNewInvite
<1>2. CASE acceptInvite(r)
  <2>1. requests' = [Standing(requests[r].sub) EXCEPT ![r] = Free] /\ requests[r].pc = "commit"
    BY <1>2 DEF acceptInvite
  <2>2. OffboardingsKept
    BY <2>1, StandingQuiet DEF OffboardingsKept
  <2>3. NobodyOffboarded
    BY <1>2, AcceptInviteEffect DEF NobodyOffboarded
  <2>4. NoNewInvite /\ UNCHANGED <<assertions, strayed>>
    BY <1>2 DEF acceptInvite, NoNewInvite
  <2> QED
    BY <2>2, <2>3, <2>4, QuietStep
<1> QED
  BY <1>1, <1>2

(* Every step keeps what the offboardings have done.                       *)
LEMMA CleanStep == WsType /\ CleanInv /\ [WsNext]_wsVars => CleanInv'
<1> SUFFICES ASSUME WsType, CleanInv, [WsNext]_wsVars PROVE CleanInv'
  OBVIOUS
<1> DEFINE P == CleanInv'
<1>0. WsEffect
  BY WsEffectStep
<1>1. \A r \in Requests, a, t \in Subs, role \in Asked : PatchMember(r, a, t, role) => P
  BY <1>0, BeginClean DEF PatchMember
<1>2. \A r \in Requests, a, t \in Subs : DeleteMember(r, a, t) => P
  BY <1>0, BeginClean DEF DeleteMember
<1>3. \A r \in Requests, a \in Subs, es \in SUBSET Emails, role \in Asked,
         scope \in {"none", Lobby, Dm} : PostInvites(r, a, es, role, scope) => P
  BY <1>0, BeginClean DEF PostInvites
<1>4. \A r \in Requests, s \in Subs, t \in DOMAIN invites : AcceptClaim(r, s, t) => P
  BY <1>0, BeginClean DEF AcceptClaim
<1>5. \A r \in Requests : (changeRole(r) \/ AssertRole(r)) => P
  BY <1>0, ChangeRoleClean, AssertRoleClean
<1>6. \A r \in Requests : (offboard(r) \/ RevokeAssertions(r)) => P
  BY <1>0, OffboardClean, RevokeAssertionsClean
<1>7. \A r \in Requests : (revokePendingInvitesBy(r) \/ createInvite(r)) => P
  BY <1>0, RevokeInvitesClean, CreateInviteClean
<1>8. \A r \in Requests : (AcceptCheck(r) \/ acceptInvite(r)) => P
  BY <1>0, AcceptClean
<1>9. \A t \in DOMAIN invites : Expire(t) => P
  BY <1>0, QuietStep DEF Expire, OffboardingsKept, NobodyOffboarded, NoNewInvite
<1>10. \A a, t \in Subs, c \in {Lobby, Dm} : AddChannelMember(a, t, c) => P
  BY <1>0, QuietStep DEF AddChannelMember, OffboardingsKept, NobodyOffboarded, NoNewInvite
<1>11. UNCHANGED wsVars => P
  BY <1>0, QuietStep DEF wsVars, OffboardingsKept, NobodyOffboarded, NoNewInvite
<1> HIDE DEF P
<1>12. P
  BY <1>1, <1>2, <1>3, <1>4, <1>5, <1>6, <1>7, <1>8, <1>9, <1>10, <1>11, WsCases
<1> QED
  BY <1>12 DEF P

(* The founding roster, without invites or requests.                       *)
LEMMA WsInitial == WsInit => WsInv
<1> SUFFICES ASSUME WsInit PROVE WsInv
  OBVIOUS
<1>1. members \in [Subs -> MemberRows] /\ \A s \in Subs : members[s].status # "offboarded"
  BY DEF WsInit, createWorkspace, MemberRows, Roles
<1>2. invites \in Seq(InviteRows) /\ admitted = {}
  BY DEF WsInit
<1>3. /\ requests \in [Requests -> RequestRows]
      /\ \A r \in Requests : requests[r].pc = "free"
  BY DEF WsInit, Free, RequestRows
<1> QED
  BY <1>1, <1>2, <1>3 DEF WsInv, WsType, EntitledInv, AdmittedByEntitled, CleanInv

(* With no offboarding under way, what each has done is all of it.         *)
LEMMA CleanImplies == CleanInv => OffboardedHasNothing
<1> SUFFICES ASSUME CleanInv, NEW s \in Subs \ strayed, members[s].status = "offboarded",
                    \A r \in Requests : requests[r].pc \notin {"revoke", "invites"} \/ requests[r].target # s
             PROVE  /\ \A a \in assertions : a[1] # s
                    /\ \A t \in DOMAIN invites : invites[t].by = s => invites[t].state # "pending"
  BY DEF OffboardedHasNothing
<1>1. ~At(s, {"revoke"}) /\ ~At(s, {"revoke", "invites"})
  BY DEF At
<1> QED
  BY <1>1 DEF CleanInv

(* For any members, roles, invites and requests in flight: nobody enters by *)
(* an invite whose issuer was not entitled when it was accepted, and an    *)
(* offboarding that has ended left nothing behind, except what the listed  *)
(* requests that overlapped it added (acceptInvite, offboard).             *)
THEOREM MembershipSoundHolds == WsSpec => []MembershipSound
<1>1. WsInv /\ [WsNext]_wsVars => WsInv'
  BY WsEffectStep, EntitledStep, CleanStep DEF WsInv, WsEffect
<1>2. WsInv => MembershipSound
  BY CleanImplies DEF WsInv, EntitledInv, MembershipSound
<1> QED
  BY <1>1, <1>2, WsInitial, PTL DEF WsSpec

-----------------------------------------------------------------------------
(* Signing in: the tokens under way.                                       *)

(* An answer in flight that hands over a refresh token. *)
Given(f) == flights[f].pc = "answer" /\ "refresh" \in DOMAIN flights[f].set
Token(f) == flights[f].set.refresh

Phases == {"free", "answer", "cleared", "callback", "proxy", "logout"}

Cookies == {"id", "refresh", "flow"}

(* An answer that hands over a refresh token sets the id token with it. *)
AnswerShape(set) ==
    /\ DOMAIN set \subseteq Cookies
    /\ "refresh" \in DOMAIN set => "id" \in DOMAIN set /\ set.refresh \in 1..issued

SignType ==
    /\ issued \in Nat /\ live \subseteq 1..issued
    /\ jar = [c \in Cookies |-> jar[c]] /\ jar.refresh \in 0..issued
    /\ flights = [f \in Flights |-> flights[f]]
    /\ \A f \in Flights :
          /\ flights[f].pc \in Phases
          /\ flights[f].pc = "free" => flights[f] = Landed
          /\ flights[f].pc = "proxy" => flights[f].refresh \in 0..issued
          /\ flights[f].pc = "answer" => AnswerShape(flights[f].set)
          /\ flights[f].pc = "cleared" => flights[f].set = Cleared

OutInv ==
    out /\ ~raced =>
        /\ jar.id = "none" /\ jar.refresh = 0
        /\ \A f \in Flights :
              /\ flights[f].pc = "proxy" => flights[f].refresh = 0
              /\ flights[f].pc = "answer" /\ "id" \in DOMAIN flights[f].set =>
                   "flow" \in DOMAIN flights[f].set

HandedOver ==
    \A f \in Flights : Given(f) =>
        /\ Token(f) \in live /\ Token(f) # jar.refresh
        /\ \A g \in Flights : flights[g].pc = "proxy" => flights[g].refresh # Token(f)
        /\ \A g \in Flights \ {f} : Given(g) => Token(g) # Token(f)

Spoilt == hurt \/ reused

TokensInv ==
    ~Spoilt =>
        /\ \A f \in Flights : flights[f].pc \notin {"logout", "cleared"}
        /\ HandedOver
        /\ jar.refresh # 0 => jar.refresh \in live \/ \E f \in Flights : Given(f)

SignInv == SignType /\ OutInv /\ TokensInv

(* Slot f holds a request that is to refresh. *)
Needs(f) == flights[f].pc = "proxy" /\ needsRefresh(flights[f])

(* One refresh at a time, with a good token. *)
CrossInv ==
    /\ ~crossed => \A f, g \in Flights : f # g => ~(Needs(f) /\ Needs(g))
    /\ ~Spoilt /\ ~crossed => \A f \in Flights : Needs(f) => flights[f].refresh \in live
    /\ reused /\ ~hurt => crossed

(* What the answers a request may get set.                                 *)
LEMMA FlightForms ==
    ASSUME NEW x, NEW y, NEW n
    PROVE  /\ DOMAIN Keep = {} /\ DOMAIN [flow |-> x] = {"flow"}
           /\ DOMAIN Rotated(n) = {"id", "refresh"} /\ Rotated(n).refresh = n /\ Rotated(n).id = "fresh"
           /\ DOMAIN Cleared = {"id", "refresh"} /\ Cleared.refresh = 0 /\ Cleared.id = "none"
           /\ DOMAIN [id |-> "fresh", refresh |-> n, flow |-> 0] = Cookies
           /\ [id |-> "fresh", refresh |-> n, flow |-> 0].refresh = n
           /\ DOMAIN [id |-> "fresh", flow |-> 0] = {"id", "flow"} /\ DOMAIN [id |-> "fresh"] = {"id"}
BY DEF Keep, Rotated, Cleared, Cookies

(* A request is sent, or answered without a refresh token, or lost. *)
LEMMA FlightStep ==
    ASSUME SignInv, NEW f \in Flights, NEW q, flights' = [flights EXCEPT ![f] = q],
           UNCHANGED <<jar, issued, out, raced>>, live' \subseteq live,
           q.pc \in Phases, q.pc = "free" => q = Landed,
           q.pc = "proxy" => q.refresh = jar.refresh,
           q.pc = "answer" => DOMAIN q.set \subseteq {"id", "flow"},
           q.pc = "answer" /\ out /\ ~raced /\ "id" \in DOMAIN q.set => "flow" \in DOMAIN q.set,
           q.pc = "cleared" => q.set = Cleared,
           Spoilt' \/ (Spoilt' = Spoilt /\ live' = live /\ q.pc \notin {"logout", "cleared"} /\ ~Given(f))
    PROVE  SignInv'
<1>1. /\ flights'[f] = q /\ \A g \in Flights \ {f} : flights'[g] = flights[g]
      /\ flights' = [g \in Flights |-> flights'[g]]
  BY DEF SignInv, SignType
<1>2. SignType'
  BY <1>1 DEF SignInv, SignType, AnswerShape, Cookies
<1>3. ~Given(f)' /\ \A g \in Flights \ {f} : Given(g)' = Given(g)
  BY <1>1 DEF Given
<1>4. OutInv'
  BY <1>1, <1>3 DEF SignInv, OutInv
<1>5. ASSUME ~Spoilt' PROVE TokensInv'
  BY <1>1, <1>3, <1>5 DEF SignInv, TokensInv, HandedOver, Token
<1> QED
  BY <1>2, <1>4, <1>5 DEF SignInv, TokensInv

(* The sign-in begins.                                                     *)
LEMMA StartStep == ASSUME SignInv, NEW f \in Flights, Start(f) PROVE SignInv'
<1> DEFINE set == [flow |-> trips + 1]
           q == [pc |-> "answer", set |-> set]
<1>1. DOMAIN set = {"flow"} /\ q.pc = "answer" /\ q.set = set
  OBVIOUS
<1> HIDE DEF set
<1>2. /\ flights' = [flights EXCEPT ![f] = q] /\ flights[f].pc = "free"
      /\ UNCHANGED <<jar, issued, live, out, raced, hurt, reused>>
  BY DEF Start, Send, set, Landed, tokens
<1> HIDE DEF q
<1> QED
  BY <1>1, <1>2, FlightStep DEF Phases, Given, Spoilt

(* The provider's answer arrives with its state.                           *)
LEMMA CallbackStep ==
    ASSUME SignInv, NEW f \in Flights, NEW state, Callback(f, state)
    PROVE  SignInv'
<1> DEFINE q == [pc |-> "callback", flow |-> jar.flow, state |-> state]
<1>1. q.pc = "callback"
  OBVIOUS
<1>2. /\ flights' = [flights EXCEPT ![f] = q] /\ flights[f].pc = "free"
      /\ UNCHANGED <<jar, issued, live, out, raced, hurt, reused>>
  BY DEF Callback, Send, Landed, tokens
<1> HIDE DEF q
<1> QED
  BY <1>1, <1>2, FlightStep DEF Phases, Given, Spoilt

(* The state differs: no token is asked for.                               *)
LEMMA CallbackRefusedStep ==
    ASSUME SignInv, NEW f \in Flights, CallbackRefused(f)
    PROVE  SignInv'
<1> DEFINE set == [flow |-> 0]
           q == [pc |-> "answer", set |-> set]
<1>1. DOMAIN set = {"flow"} /\ q.pc = "answer" /\ q.set = set
  OBVIOUS
<1>2. /\ flights' = [flights EXCEPT ![f] = q] /\ flights[f].pc = "callback"
      /\ UNCHANGED <<jar, issued, live, out, raced, hurt, reused>>
  BY DEF CallbackRefused, Answer, tokens
<1> HIDE DEF set, q
<1> QED
  BY <1>1, <1>2, FlightStep DEF Phases, Given, Spoilt

(* The browser sends its cookies.                                          *)
LEMMA RequestStep == ASSUME SignInv, NEW f \in Flights, Request(f) PROVE SignInv'
<1> DEFINE q == [pc |-> "proxy", id |-> jar.id, refresh |-> jar.refresh]
<1>1. q.pc = "proxy" /\ q.refresh = jar.refresh
  OBVIOUS
<1>2. /\ flights' = [flights EXCEPT ![f] = q] /\ flights[f].pc = "free"
      /\ UNCHANGED <<jar, issued, live, out, raced, hurt, reused>>
  BY DEF Request, Send, Landed, tokens
<1> HIDE DEF q
<1> QED
  BY <1>1, <1>2, FlightStep DEF Phases, Given, Spoilt

(* The id token is good, or there is nothing to refresh with.              *)
LEMMA ProxyPassesStep == ASSUME SignInv, NEW f \in Flights, ProxyPasses(f) PROVE SignInv'
<1> DEFINE q == [pc |-> "answer", set |-> Keep]
<1>1. q.pc = "answer" /\ q.set = Keep /\ DOMAIN Keep = {}
  BY FlightForms
<1>2. /\ flights' = [flights EXCEPT ![f] = q] /\ flights[f].pc = "proxy"
      /\ UNCHANGED <<jar, issued, live, out, raced, hurt, reused>>
  BY DEF ProxyPasses, Answer, tokens
<1> HIDE DEF q
<1> QED
  BY <1>1, <1>2, FlightStep DEF Phases, Given, Spoilt

(* A spent token is refused, and its grant revoked.                        *)
LEMMA ProxyReusesStep == ASSUME SignInv, NEW f \in Flights, ProxyReuses(f) PROVE SignInv'
<1> DEFINE q == [pc |-> "answer", set |-> Keep]
<1>1. q.pc = "answer" /\ q.set = Keep /\ DOMAIN Keep = {}
  BY FlightForms
<1>2. /\ flights' = [flights EXCEPT ![f] = q] /\ live' \subseteq live /\ Spoilt'
      /\ UNCHANGED <<jar, issued, out, raced>>
  BY DEF ProxyReuses, Answer, Spoilt
<1> HIDE DEF q
<1> QED
  BY <1>1, <1>2, FlightStep DEF Phases

(* The logout reads the cookie.                                            *)
LEMMA LogoutStep == ASSUME SignInv, NEW f \in Flights, Logout(f) PROVE SignInv'
<1> DEFINE q == [pc |-> "logout", refresh |-> jar.refresh]
<1>1. q.pc = "logout"
  OBVIOUS
<1>2. /\ flights' = [flights EXCEPT ![f] = q] /\ Spoilt'
      /\ UNCHANGED <<jar, issued, live, out, raced>>
  BY DEF Logout, Send, tokens, Spoilt
<1> HIDE DEF q
<1> QED
  BY <1>1, <1>2, FlightStep DEF Phases

(* The token is revoked at the provider and the answer clears the cookies. *)
LEMMA RevokeTokenStep ==
    ASSUME SignInv, NEW f \in Flights, revokeRefreshToken(f)
    PROVE  SignInv'
<1> DEFINE q == [pc |-> "cleared", set |-> Cleared]
<1>1. q.pc = "cleared" /\ q.set = Cleared
  OBVIOUS
<1>2. /\ flights' = [flights EXCEPT ![f] = q] /\ flights[f].pc = "logout"
      /\ UNCHANGED <<jar, issued, out, raced, hurt, reused>> /\ live' \subseteq live
  BY DEF revokeRefreshToken
<1>3. Spoilt'
  BY <1>2 DEF SignInv, TokensInv, Spoilt
<1> HIDE DEF q
<1> QED
  BY <1>1, <1>2, <1>3, FlightStep DEF Phases

(* A message is lost.                                                      *)
LEMMA LoseStep == ASSUME SignInv, NEW f \in Flights, Lose(f) PROVE SignInv'
<1>1. Landed.pc = "free"
  BY DEF Landed
<1> QED
  BY <1>1, FlightStep DEF Lose, Phases, tokens, Spoilt

(* The authority issues a token: an answer hands it to the browser, or the *)
(* answer of the authority never came back.                                *)
LEMMA IssueStep ==
    ASSUME SignInv, NEW f \in Flights, NEW set, NEW spent,
           flights' = [flights EXCEPT ![f] = [pc |-> "answer", set |-> set]],
           issued' = issued + 1, live' = (live \ {spent}) \union {issued'},
           UNCHANGED <<jar, out, raced, hurt, reused>>,
           flights[f].pc \in {"callback", "proxy"},
           DOMAIN set \subseteq Cookies, {"id", "refresh"} \subseteq DOMAIN set, set.refresh = issued',
           out /\ ~raced => "flow" \in DOMAIN set,
           spent # 0 => flights[f].pc = "proxy" /\ spent = flights[f].refresh
    PROVE  SignInv'
<1> DEFINE q == [pc |-> "answer", set |-> set]
<1>1. q.pc = "answer" /\ q.set = set
  OBVIOUS
<1> HIDE DEF q
<1>2. flights' = [flights EXCEPT ![f] = q]
  BY DEF q
<1>3. /\ flights'[f] = q /\ \A g \in Flights \ {f} : flights'[g] = flights[g]
      /\ flights' = [g \in Flights |-> flights'[g]]
  BY <1>2 DEF SignInv, SignType
<1>4. issued \in Nat /\ issued' \in Nat /\ issued' \in 1..issued' /\ live' \subseteq 1..issued'
  BY DEF SignInv, SignType
<1>5. SignType'
  BY <1>1, <1>3, <1>4 DEF SignInv, SignType, AnswerShape, Phases
<1>6. Given(f)' /\ ~Given(f) /\ \A g \in Flights \ {f} : Given(g)' = Given(g)
  BY <1>1, <1>3 DEF Given
<1>7. OutInv'
  BY <1>1, <1>3 DEF SignInv, OutInv
<1>8. ASSUME ~Spoilt PROVE TokensInv'
  <2>1. HandedOver /\ \A g \in Flights : flights[g].pc \notin {"logout", "cleared"}
    BY <1>8 DEF SignInv, TokensInv
  <2>2. ASSUME NEW g \in Flights, Given(g) PROVE Token(g) \in 1..issued /\ Token(g) # spent
    BY <2>1, <2>2 DEF HandedOver, SignInv, SignType, AnswerShape, Given, Token
  <2>3. /\ \A g \in Flights : flights[g].pc = "proxy" => flights[g].refresh \in 0..issued
        /\ jar.refresh \in 0..issued
    BY DEF SignInv, SignType
  <2>4. Token(f)' = issued' /\ issued' > issued
    BY <1>1, <1>3, <1>4 DEF Token
  <2>5. \A g \in Flights \ {f} : Token(g)' = Token(g)
    BY <1>3 DEF Token
  <2>6. HandedOver'
    <3>1. ASSUME NEW g \in Flights, Given(g)'
          PROVE  /\ Token(g)' \in live' /\ Token(g)' # jar'.refresh
                 /\ \A h \in Flights : flights'[h].pc = "proxy" => flights'[h].refresh # Token(g)'
                 /\ \A h \in Flights \ {g} : Given(h)' => Token(h)' # Token(g)'
      <4>1. \A h \in Flights : flights'[h].pc = "proxy" => h # f /\ flights[h].pc = "proxy"
                                                           /\ flights'[h].refresh = flights[h].refresh
        BY <1>1, <1>3
      <4>2. CASE g = f
        BY <4>1, <4>2, <1>6, <2>2, <2>3, <2>4, <2>5, <1>4
      <4>3. CASE g # f
        BY <4>1, <4>3, <3>1, <1>4, <1>6, <2>1, <2>2, <2>4, <2>5 DEF HandedOver
      <4> QED
        BY <4>2, <4>3
    <3> QED
      BY <3>1 DEF HandedOver
  <2> QED
    BY <1>1, <1>3, <1>6, <2>1, <2>6 DEF TokensInv
<1> QED
  BY <1>5, <1>7, <1>8 DEF SignInv, TokensInv, Spoilt

(* The code is exchanged for tokens.                                       *)
LEMMA ExchangedStep ==
    ASSUME SignInv, NEW f \in Flights, CallbackExchanged(f)
    PROVE  SignInv'
<1>1. flights[f].pc = "callback" /\ UNCHANGED <<jar, out, raced, hurt, reused>>
  BY DEF CallbackExchanged
<1>2. CASE /\ issued' = issued + 1 /\ live' = live \union {issued'}
           /\ Answer(f, [id |-> "fresh", refresh |-> issued', flow |-> 0])
  <2> DEFINE set == [id |-> "fresh", refresh |-> issued', flow |-> 0]
  <2>1. DOMAIN set = Cookies /\ set.refresh = issued'
    BY FlightForms
  <2>2. flights' = [flights EXCEPT ![f] = [pc |-> "answer", set |-> set]]
    BY <1>2 DEF Answer
  <2>3. live' = (live \ {0}) \union {issued'}
    BY <1>2 DEF SignInv, SignType
  <2> HIDE DEF set
  <2> QED
    BY <1>1, <1>2, <2>1, <2>2, <2>3, IssueStep DEF Cookies
<1>3. CASE Answer(f, [id |-> "fresh", flow |-> 0]) /\ UNCHANGED <<issued, live>>
  <2> DEFINE q == [pc |-> "answer", set |-> [id |-> "fresh", flow |-> 0]]
  <2>1. q.pc = "answer" /\ DOMAIN q.set = {"id", "flow"}
    BY FlightForms
  <2>2. flights' = [flights EXCEPT ![f] = q]
    BY <1>3 DEF Answer
  <2> HIDE DEF q
  <2> QED
    BY <1>1, <1>3, <2>1, <2>2, FlightStep DEF Phases, Given, Spoilt
<1> QED
  BY <1>2, <1>3 DEF CallbackExchanged, Issue, tokens

(* The proxy refreshes: the token it was sent is spent, or stays.           *)
LEMMA RefreshesStep ==
    ASSUME SignInv, NEW f \in Flights, ProxyRefreshes(f)
    PROVE  SignInv'
<1> DEFINE set == Rotated(issued')
           spent == flights[f].refresh
           Rotates == issued' = issued + 1 /\ live' = (live \ {spent}) \union {issued'}
<1>1. /\ flights[f].pc = "proxy" /\ spent # 0 /\ ~(out /\ ~raced)
      /\ UNCHANGED <<jar, out, raced, reused>>
  BY DEF ProxyRefreshes, needsRefresh, SignInv, OutInv
<1>2. CASE Rotates /\ Answer(f, set) /\ hurt' = hurt
  <2>1. DOMAIN set = {"id", "refresh"} /\ set.refresh = issued'
    BY FlightForms
  <2>2. flights' = [flights EXCEPT ![f] = [pc |-> "answer", set |-> set]]
    BY <1>2 DEF Answer
  <2> HIDE DEF set, spent
  <2>3. /\ DOMAIN set \subseteq Cookies /\ {"id", "refresh"} \subseteq DOMAIN set
        /\ flights[f].pc \in {"callback", "proxy"}
        /\ spent # 0 => flights[f].pc = "proxy" /\ spent = flights[f].refresh
    BY <1>1, <2>1 DEF Cookies, spent
  <2> QED
    BY <1>1, <1>2, <2>1, <2>2, <2>3, IssueStep
<1>3. CASE Rotates /\ Answer(f, Keep) /\ hurt' = TRUE
  <2> DEFINE q == [pc |-> "answer", set |-> Keep]
  <2>1. q.pc = "answer" /\ q.set = Keep /\ DOMAIN Keep = {}
    BY FlightForms
  <2>2. flights' = [flights EXCEPT ![f] = q]
    BY <1>3 DEF Answer
  <2> HIDE DEF q
  <2>3. /\ flights'[f] = q /\ \A g \in Flights \ {f} : flights'[g] = flights[g]
        /\ flights' = [g \in Flights |-> flights'[g]]
    BY <2>2 DEF SignInv, SignType
  <2>4. issued \in Nat /\ issued' = issued + 1 /\ issued' \in Nat /\ live' \subseteq 1..issued'
    BY <1>3 DEF SignInv, SignType
  <2>5. SignType'
    BY <1>1, <2>1, <2>3, <2>4 DEF SignInv, SignType, AnswerShape, Phases
  <2> QED
    BY <1>1, <1>3, <2>5 DEF SignInv, OutInv, TokensInv, Spoilt
<1>4. CASE Answer(f, [id |-> "fresh"]) /\ UNCHANGED <<issued, live, hurt>>
  <2> DEFINE q == [pc |-> "answer", set |-> [id |-> "fresh"]]
  <2>1. q.pc = "answer" /\ DOMAIN q.set = {"id"}
    BY FlightForms
  <2>2. flights' = [flights EXCEPT ![f] = q]
    BY <1>4 DEF Answer
  <2> HIDE DEF q
  <2> QED
    BY <1>1, <1>4, <2>1, <2>2, FlightStep DEF Phases, Given, Spoilt
<1> QED
  BY <1>2, <1>3, <1>4 DEF ProxyRefreshes, Issue, tokens

(* An answer's cookies are set in the browser.                             *)
LEMMA ArriveStep == ASSUME SignInv, NEW f \in Flights, Arrive(f) PROVE SignInv'
<1> DEFINE set == flights[f].set
<1>1. /\ jar' = [c \in Cookies |-> IF c \in DOMAIN set THEN set[c] ELSE jar[c]]
      /\ flights' = [flights EXCEPT ![f] = Landed]
      /\ UNCHANGED <<issued, live, hurt, reused>> /\ flights[f].pc \in {"answer", "cleared"}
  BY DEF Arrive, SignInv, SignType, tokens
<1>2. /\ flights'[f] = Landed /\ \A g \in Flights \ {f} : flights'[g] = flights[g]
      /\ flights' = [g \in Flights |-> flights'[g]]
  BY <1>1 DEF SignInv, SignType
<1>3. Landed.pc = "free"
  BY DEF Landed
<1>4. /\ jar' = [c \in Cookies |-> jar'[c]]
      /\ jar'.refresh = (IF "refresh" \in DOMAIN set THEN set.refresh ELSE jar.refresh)
      /\ jar'.id = (IF "id" \in DOMAIN set THEN set.id ELSE jar.id)
  BY <1>1 DEF Cookies
<1>5. flights[f].pc = "cleared" => DOMAIN set = {"id", "refresh"} /\ set.refresh = 0 /\ set.id = "none"
  BY FlightForms DEF SignInv, SignType
<1>6. flights[f].pc = "answer" => AnswerShape(set)
  BY DEF SignInv, SignType
<1>7. SignType'
  <2>1. jar'.refresh \in 0..issued
    BY <1>1, <1>4, <1>5, <1>6 DEF SignInv, SignType, AnswerShape
  <2> QED
    BY <1>1, <1>2, <1>3, <1>4, <2>1 DEF SignInv, SignType, AnswerShape, Phases
<1>8. ~Given(f)' /\ \A g \in Flights \ {f} : Given(g)' = Given(g) /\ Token(g)' = Token(g)
  BY <1>2, <1>3 DEF Given, Token
<1>9. OutInv'
  <2> SUFFICES ASSUME out', ~raced'
               PROVE  /\ jar'.id = "none" /\ jar'.refresh = 0
                      /\ \A g \in Flights :
                            /\ flights'[g].pc = "proxy" => flights'[g].refresh = 0
                            /\ flights'[g].pc = "answer" /\ "id" \in DOMAIN flights'[g].set =>
                                 "flow" \in DOMAIN flights'[g].set
    BY DEF OutInv
  <2>1. CASE flights[f].pc = "cleared"
    <3>1. \A g \in Flights \ {f} : flights[g] = Landed
      BY <2>1 DEF Arrive
    <3>2. \A g \in Flights : flights'[g] = Landed
      BY <1>2, <3>1
    <3> QED
      BY <1>3, <1>4, <1>5, <2>1, <3>2
  <2>2. CASE flights[f].pc = "answer"
    <3>1. out /\ ~raced /\ ~({"id", "flow"} \subseteq DOMAIN set)
      BY <2>2 DEF Arrive
    <3>2. "refresh" \notin DOMAIN set /\ "id" \notin DOMAIN set
      BY <1>6, <2>2, <3>1 DEF SignInv, OutInv, AnswerShape
    <3> QED
      BY <1>2, <1>3, <1>4, <3>1, <3>2 DEF SignInv, OutInv
  <2> QED
    BY <1>1, <2>1, <2>2
<1>10. ASSUME ~Spoilt PROVE TokensInv'
  <2>1. HandedOver /\ flights[f].pc = "answer"
        /\ \A g \in Flights : flights'[g].pc \notin {"logout", "cleared"}
    BY <1>1, <1>2, <1>3, <1>10 DEF SignInv, TokensInv
  <2>2. CASE Given(f)
    <3>1. jar'.refresh = Token(f) /\ Token(f) \in live
      BY <1>4, <2>1, <2>2 DEF Given, Token, HandedOver
    <3>2. HandedOver'
      BY <1>1, <1>2, <1>3, <1>8, <2>1, <2>2, <3>1 DEF HandedOver
    <3> QED
      BY <1>1, <2>1, <3>1, <3>2 DEF TokensInv
  <2>3. CASE ~Given(f)
    <3>1. jar'.refresh = jar.refresh
      BY <1>4, <2>1, <2>3 DEF Given
    <3>2. HandedOver'
      BY <1>1, <1>2, <1>3, <1>8, <2>1, <3>1 DEF HandedOver
    <3> QED
      BY <1>1, <1>8, <1>10, <2>1, <2>3, <3>1, <3>2 DEF TokensInv, SignInv
  <2> QED
    BY <2>2, <2>3
<1> QED
  BY <1>1, <1>7, <1>9, <1>10 DEF SignInv, TokensInv, Spoilt

(* The id token passes its date.                                           *)
LEMMA IdExpiresStep == ASSUME SignInv, IdExpires PROVE SignInv'
<1>1. /\ jar' = [c \in Cookies |-> jar'[c]] /\ jar'.refresh = jar.refresh /\ jar.id = "fresh"
      /\ UNCHANGED <<flights, issued, live, out, raced, hurt, reused>>
  <2>1. jar = [c \in Cookies |-> jar[c]]
    BY DEF SignInv, SignType
  <2> QED
    BY <2>1 DEF IdExpires, Cookies, tokens
<1>2. SignType'
  BY <1>1 DEF SignInv, SignType, AnswerShape
<1>3. OutInv'
  BY <1>1 DEF SignInv, OutInv
<1>4. TokensInv'
  BY <1>1 DEF SignInv, TokensInv, HandedOver, Given, Token, Spoilt
<1> QED
  BY <1>2, <1>3, <1>4 DEF SignInv

(* Every step keeps the tokens where they are.                             *)
LEMMA SignStep == SignInv /\ [SignNext]_signVars => SignInv'
<1> SUFFICES ASSUME SignInv, [SignNext]_signVars PROVE SignInv'
  OBVIOUS
<1>1. CASE UNCHANGED signVars
  BY <1>1 DEF signVars, tokens, SignInv, SignType, AnswerShape, OutInv, TokensInv, HandedOver, Given,
             Token, Spoilt
<1>2. ASSUME NEW f \in Flights, Start(f) \/ Request(f) \/ Logout(f) PROVE SignInv'
  BY <1>2, StartStep, RequestStep, LogoutStep
<1>3. ASSUME NEW f \in Flights, NEW s, Callback(f, s) PROVE SignInv'
  BY <1>3, CallbackStep
<1>4. ASSUME NEW f \in Flights, CallbackRefused(f) \/ CallbackExchanged(f) PROVE SignInv'
  BY <1>4, CallbackRefusedStep, ExchangedStep
<1>5. ASSUME NEW f \in Flights,
             ProxyPasses(f) \/ ProxyReuses(f) \/ ProxyRefreshes(f) \/ revokeRefreshToken(f)
      PROVE  SignInv'
  BY <1>5, ProxyPassesStep, ProxyReusesStep, RefreshesStep, RevokeTokenStep
<1>6. ASSUME NEW f \in Flights, Arrive(f) \/ Lose(f) PROVE SignInv'
  BY <1>6, ArriveStep, LoseStep
<1> QED
  BY <1>1, <1>2, <1>3, <1>4, <1>5, <1>6, IdExpiresStep DEF SignNext

(* A slot is given something other than a request of the browser.          *)
LEMMA CrossKept ==
    ASSUME SignInv, CrossInv, NEW f \in Flights, NEW q, flights' = [flights EXCEPT ![f] = q],
           q.pc # "proxy", crossed' = crossed, reused' = reused, hurt => hurt',
           live \subseteq live' \/ hurt' \/ Needs(f)
    PROVE  CrossInv'
<1>1. flights'[f] = q /\ \A g \in Flights \ {f} : flights'[g] = flights[g]
  BY DEF SignInv, SignType
<1>2. ~Needs(f)' /\ \A g \in Flights \ {f} : Needs(g)' = Needs(g)
  BY <1>1 DEF Needs
<1>3. CASE live \subseteq live' \/ hurt'
  BY <1>1, <1>2, <1>3 DEF CrossInv, Spoilt
<1>4. CASE Needs(f)
  BY <1>1, <1>2, <1>4 DEF CrossInv, Spoilt
<1> QED
  BY <1>3, <1>4

(* A request that is to refresh is sent with the others in view.           *)
LEMMA CrossRequest ==
    ASSUME SignInv, CrossInv, NEW f \in Flights, Request(f)
    PROVE  CrossInv'
<1> DEFINE q == [pc |-> "proxy", id |-> jar.id, refresh |-> jar.refresh]
<1>1. q.refresh = jar.refresh /\ needsRefresh(q) = needsRefresh(jar)
  BY DEF needsRefresh
<1>2. flights' = [flights EXCEPT ![f] = q] /\ UNCHANGED <<live, hurt, reused>>
  BY DEF Request, Send, tokens
<1> HIDE DEF q
<1>3. flights'[f] = q /\ \A g \in Flights \ {f} : flights'[g] = flights[g]
  BY <1>2 DEF SignInv, SignType
<1>4. /\ Needs(f)' => needsRefresh(jar)
      /\ \A g \in Flights \ {f} : Needs(g)' = Needs(g)
  BY <1>1, <1>3 DEF Needs
<1>5. ASSUME needsRefresh(jar), ~crossed'
      PROVE  \A g \in Flights : ~Needs(g) /\ ~Given(g)
  BY <1>5 DEF Request, Renewing, Needs, Given
<1>6. crossed => crossed'
  BY DEF Request
<1>7. ASSUME ~crossed' PROVE \A g, h \in Flights : g # h => ~(Needs(g)' /\ Needs(h)')
  BY <1>4, <1>5, <1>6, <1>7 DEF CrossInv
<1>8. ASSUME ~crossed', ~Spoilt, NEW g \in Flights, Needs(g)' PROVE flights'[g].refresh \in live
  <2>1. CASE g = f
    BY <1>1, <1>3, <1>4, <1>5, <1>8, <2>1 DEF SignInv, TokensInv, needsRefresh
  <2>2. CASE g # f
    BY <1>3, <1>4, <1>6, <1>8, <2>2 DEF CrossInv
  <2> QED
    BY <2>1, <2>2
<1> QED
  BY <1>2, <1>6, <1>7, <1>8 DEF CrossInv, Spoilt

(* A spent token is presented only after a crossing.                       *)
LEMMA CrossReuses ==
    ASSUME SignInv, CrossInv, NEW f \in Flights, ProxyReuses(f)
    PROVE  CrossInv'
<1> DEFINE q == [pc |-> "answer", set |-> Keep]
<1>1. q.pc # "proxy"
  OBVIOUS
<1>2. /\ flights' = [flights EXCEPT ![f] = q] /\ UNCHANGED <<hurt, crossed>> /\ reused'
      /\ Needs(f) /\ flights[f].refresh \notin live
  BY DEF ProxyReuses, Answer, Needs
<1> HIDE DEF q
<1>3. flights'[f] = q /\ \A g \in Flights \ {f} : flights'[g] = flights[g]
  BY <1>2 DEF SignInv, SignType
<1>4. ~Needs(f)' /\ \A g \in Flights \ {f} : Needs(g)' = Needs(g)
  BY <1>1, <1>3 DEF Needs
<1>5. hurt \/ crossed
  BY <1>2 DEF CrossInv, Spoilt
<1> QED
  BY <1>2, <1>4, <1>5 DEF CrossInv, Spoilt

(* Every step keeps it.                                                    *)
LEMMA CrossStep ==
    ASSUME SignInv, CrossInv, [SignNext]_signVars
    PROVE  CrossInv'
<1>1. CASE UNCHANGED <<flights, live, hurt, crossed, reused>>
  BY <1>1 DEF CrossInv, Needs, Spoilt
<1>2. ASSUME NEW f \in Flights, NEW q, flights' = [flights EXCEPT ![f] = q], q.pc # "proxy",
             crossed' = crossed, reused' = reused, hurt => hurt',
             live \subseteq live' \/ hurt' \/ Needs(f)
      PROVE  CrossInv'
  BY <1>2, CrossKept
<1>3. ASSUME NEW f \in Flights, Start(f) PROVE CrossInv'
  <2> DEFINE q == [pc |-> "answer", set |-> [flow |-> trips + 1]]
  <2>1. flights' = [flights EXCEPT ![f] = q] /\ UNCHANGED <<live, hurt, crossed, reused>>
    BY <1>3 DEF Start, Send, tokens
  <2>2. q.pc # "proxy"
    OBVIOUS
  <2> HIDE DEF q
  <2> QED
    BY <1>2, <2>1, <2>2
<1>4. ASSUME NEW f \in Flights, NEW s, Callback(f, s) PROVE CrossInv'
  <2> DEFINE q == [pc |-> "callback", flow |-> jar.flow, state |-> s]
  <2>1. flights' = [flights EXCEPT ![f] = q] /\ UNCHANGED <<live, hurt, crossed, reused>>
    BY <1>4 DEF Callback, Send, tokens
  <2>2. q.pc # "proxy"
    OBVIOUS
  <2> HIDE DEF q
  <2> QED
    BY <1>2, <2>1, <2>2
<1>5. ASSUME NEW f \in Flights, Logout(f) PROVE CrossInv'
  <2> DEFINE q == [pc |-> "logout", refresh |-> jar.refresh]
  <2>1. flights' = [flights EXCEPT ![f] = q] /\ UNCHANGED <<live, crossed, reused>> /\ hurt'
    BY <1>5 DEF Logout, Send, tokens
  <2>2. q.pc # "proxy"
    OBVIOUS
  <2> HIDE DEF q
  <2> QED
    BY <1>2, <2>1, <2>2
<1>6. ASSUME NEW f \in Flights, NEW set, Answer(f, set), crossed' = crossed, reused' = reused,
             hurt => hurt', live \subseteq live' \/ hurt' \/ Needs(f)
      PROVE  CrossInv'
  <2> DEFINE q == [pc |-> "answer", set |-> set]
  <2>1. flights' = [flights EXCEPT ![f] = q] /\ q.pc # "proxy"
    BY <1>6 DEF Answer
  <2> HIDE DEF q
  <2> QED
    BY <1>2, <1>6, <2>1
<1>7. ASSUME NEW f \in Flights, CallbackRefused(f) \/ CallbackExchanged(f) \/ ProxyPasses(f)
      PROVE  CrossInv'
  <2>1. UNCHANGED <<hurt, crossed, reused>> /\ live \subseteq live'
    BY <1>7 DEF CallbackRefused, CallbackExchanged, ProxyPasses, tokens
  <2>2. \E set : Answer(f, set)
    BY <1>7 DEF CallbackRefused, CallbackExchanged, ProxyPasses
  <2> QED
    BY <1>6, <2>1, <2>2
<1>8. ASSUME NEW f \in Flights, ProxyRefreshes(f) PROVE CrossInv'
  <2>1. crossed' = crossed /\ reused' = reused /\ (hurt => hurt') /\ Needs(f)
    BY <1>8 DEF ProxyRefreshes, Needs
  <2>2. \E set : Answer(f, set)
    BY <1>8 DEF ProxyRefreshes
  <2> QED
    BY <1>6, <2>1, <2>2
<1>9. ASSUME NEW f \in Flights, revokeRefreshToken(f) PROVE CrossInv'
  <2>1. /\ flights' = [flights EXCEPT ![f] = [pc |-> "cleared", set |-> Cleared]]
        /\ UNCHANGED <<hurt, crossed, reused>> /\ flights[f].pc = "logout"
    BY <1>9 DEF revokeRefreshToken
  <2>2. Spoilt
    BY <2>1 DEF SignInv, TokensInv
  <2>3. flights'[f].pc = "cleared" /\ \A g \in Flights \ {f} : flights'[g] = flights[g]
    BY <2>1 DEF SignInv, SignType
  <2>4. ~Needs(f)' /\ \A g \in Flights \ {f} : Needs(g)' = Needs(g)
    BY <2>3 DEF Needs
  <2> QED
    BY <2>1, <2>2, <2>4 DEF CrossInv, Spoilt
<1>10. ASSUME NEW f \in Flights, Arrive(f) \/ Lose(f) PROVE CrossInv'
  <2>1. flights' = [flights EXCEPT ![f] = Landed] /\ Landed.pc # "proxy"
    BY <1>10 DEF Arrive, Lose, Landed
  <2>2. CASE Arrive(f)
    <3>1. UNCHANGED <<live, hurt, crossed, reused>>
      BY <2>2 DEF Arrive, tokens
    <3> QED
      BY <1>2, <2>1, <3>1
  <2>3. CASE Lose(f)
    <3>1. UNCHANGED <<live, crossed, reused>> /\ hurt'
      BY <2>3 DEF Lose, tokens
    <3> QED
      BY <1>2, <2>1, <3>1
  <2> QED
    BY <1>10, <2>2, <2>3
<1>11. CASE IdExpires
  BY <1>1, <1>11 DEF IdExpires, tokens
<1>12. CASE UNCHANGED signVars
  BY <1>1, <1>12 DEF signVars, tokens
<1> QED
  BY <1>3, <1>4, <1>5, <1>7, <1>8, <1>9, <1>10, <1>11, <1>12, CrossRequest, CrossReuses DEF SignNext

(* For any number of requests in flight and any auth mode: a browser that  *)
(* signed out with nothing else in flight is not taken for signed in until *)
(* it signs in again; no spent refresh token is presented while refreshes  *)
(* do not cross; and until a grant is revoked for that, the refresh token  *)
(* the browser holds, or one on its way to it, is good unless an answer    *)
(* was lost or the user signed out (proxy, callback, logout,               *)
(* verifySession).                                                         *)
THEOREM SessionSoundHolds == SignSpec => []SessionSound
<1>1. SignInit => SignInv /\ CrossInv
  <2> SUFFICES ASSUME SignInit PROVE SignInv /\ CrossInv
    OBVIOUS
  <2>1. /\ jar = [c \in Cookies |-> jar[c]] /\ jar.refresh = 0 /\ jar.id = "none"
        /\ issued = 0 /\ live = {} /\ out = FALSE /\ reused = FALSE
    BY DEF SignInit, NoCookies, Cookies
  <2>2. flights = [f \in Flights |-> flights[f]] /\ \A f \in Flights : flights[f] = Landed
    BY DEF SignInit
  <2>3. Landed.pc = "free"
    BY DEF Landed
  <2>4. SignType
    BY <2>1, <2>2, <2>3 DEF SignType, Phases
  <2>5. \A f \in Flights : ~Needs(f) /\ ~Given(f)
    BY <2>2, <2>3 DEF Needs, Given
  <2>6. CrossInv
    BY <2>1, <2>5 DEF CrossInv
  <2> QED
    BY <2>1, <2>2, <2>3, <2>4, <2>5, <2>6 DEF SignInv, OutInv, TokensInv, HandedOver
<1>2. SignInv /\ CrossInv => SessionSound
  <2> SUFFICES ASSUME SignInv, CrossInv PROVE SessionSound
    OBVIOUS
  <2>1. SignedOutStays
    BY DEF SignInv, OutInv, SignedOutStays, verifySession, verifyOidcToken, verifyMockToken
  <2>2. SessionKept
    BY DEF SignInv, TokensInv, HandedOver, CrossInv, SessionKept, Given, Token, Spoilt
  <2> QED
    BY <2>1, <2>2 DEF SessionSound
<1>3. SignInv /\ CrossInv /\ [SignNext]_signVars => SignInv' /\ CrossInv'
  BY SignStep, CrossStep
<1> QED
  BY <1>1, <1>2, <1>3, PTL DEF SignSpec

-----------------------------------------------------------------------------
(* Memory: where a finding is, at each state of its approval.              *)

Rows(f) == {r \in neon : r.fact = f}

Nowhere(f) == f \notin gateway /\ Rows(f) = {}

FindingInv ==
    /\ asserts \in [Facts -> {"pending", "gateway", "neon", "fallback", "approved"}]
    /\ \A f \in Facts :
          /\ asserts[f] = "approved" => ~Nowhere(f)
          /\ f \notin lost =>
                /\ asserts[f] # "approved" => Nowhere(f)
                /\ f \in gateway => Rows(f) = {}
                /\ \A r, s \in Rows(f) : r = s

HighFloors == {"derived-deterministic", "human-confirmed"}

FloorInv == \A a \in answers : a.floor \in HighFloors => a.items \intersect Facts = {}

(* What an agent asserts is below the two higher floors. *)
LEMMA AgentsBelow ==
    ASSUME Facts \cap Derived = {}, NEW f \in Facts, NEW floor \in HighFloors
    PROVE  ~meetsTrustFloor(TierOf(f), floor)
<1>1. /\ DOMAIN TRUST_ORDER = 1..4
      /\ TRUST_ORDER[1] = "derived-deterministic" /\ TRUST_ORDER[2] = "human-confirmed"
      /\ TRUST_ORDER[3] = "agent-asserted" /\ TRUST_ORDER[4] = "inferred-advisory"
  BY DEF TRUST_ORDER
<1>2. \A i \in 1..4 : i = 1 \/ i = 2 \/ i = 3 \/ i = 4
  OBVIOUS
<1>3. ASSUME NEW i \in 1..4, NEW j \in 1..4, TRUST_ORDER[i] = TRUST_ORDER[j] PROVE i = j
  BY <1>1, <1>2, <1>3
<1>4. ASSUME NEW i \in 1..4 PROVE trustRank(TRUST_ORDER[i]) = i
  <2>1. \E j \in DOMAIN TRUST_ORDER : TRUST_ORDER[j] = TRUST_ORDER[i]
    BY <1>1
  <2>2. /\ trustRank(TRUST_ORDER[i]) \in 1..4
        /\ TRUST_ORDER[trustRank(TRUST_ORDER[i])] = TRUST_ORDER[i]
    BY <1>1, <2>1 DEF trustRank
  <2> QED
    BY <1>3, <2>2
<1>5. /\ trustRank("derived-deterministic") = 1 /\ trustRank("human-confirmed") = 2
      /\ trustRank("agent-asserted") = 3
  BY <1>1, <1>4
<1>6. TierOf(f) = "agent-asserted"
  BY DEF TierOf
<1> QED
  BY <1>5, <1>6 DEF meetsTrustFloor, HighFloors

(* A row more of one finding.                                              *)
LEMMA Inserted ==
    ASSUME NEW f \in Facts, InsertNode(f)
    PROVE  /\ Rows(f)' # {} /\ \A g \in Facts \ {f} : Rows(g)' = Rows(g)
           /\ Rows(f) = {} => \A r, s \in Rows(f)' : r = s
<1>1. PICK v : neon' = neon \union {[no |-> Cardinality(neon), fact |-> f, vec |-> v]}
  BY DEF InsertNode
<1> DEFINE row == [no |-> Cardinality(neon), fact |-> f, vec |-> v]
<1>2. row.fact = f /\ neon' = neon \union {row}
  BY <1>1
<1> HIDE DEF row
<1> QED
  BY <1>2 DEF Rows

(* One attempt to store an approved finding.                               *)
LEMMA AssertStep ==
    ASSUME FindingInv, NEW f \in Facts, applyAssert(f) \/ gatewayAssert(f) \/ neonAssert(f)
    PROVE  FindingInv'
<1>1. CASE applyAssert(f)
  <2>1. PICK st \in {"gateway", "neon"} : asserts' = [asserts EXCEPT ![f] = st]
    BY <1>1 DEF applyAssert
  <2> QED
    BY <1>1, <2>1 DEF applyAssert, FindingInv, Rows, Nowhere
<1>2. CASE gatewayAssert(f)
  <2>1. CASE gateway' = gateway \union {f} /\ asserts' = [asserts EXCEPT ![f] = "approved"] /\ UNCHANGED lost
    BY <1>2, <2>1 DEF gatewayAssert, FindingInv, Rows, Nowhere
  <2>2. CASE GatewayError(f)
    BY <1>2, <2>2 DEF gatewayAssert, GatewayError, Taken, NotTaken, FindingInv, Rows, Nowhere
  <2> QED
    BY <1>2, <2>1, <2>2 DEF gatewayAssert
<1>3. CASE neonAssert(f)
  <2>1. CASE InsertNode(f) /\ asserts' = [asserts EXCEPT ![f] = "approved"] /\ UNCHANGED lost
    BY <1>3, <2>1, Inserted DEF neonAssert, FindingInv, Nowhere
  <2>2. AfterNeonError(f) \in {"fallback", "pending"}
    BY DEF AfterNeonError
  <2>3. CASE asserts' = [asserts EXCEPT ![f] = AfterNeonError(f)] /\ NotTaken /\ UNCHANGED neon
    BY <1>3, <2>2, <2>3 DEF neonAssert, NotTaken, FindingInv, Rows, Nowhere
  <2>4. CASE asserts' = [asserts EXCEPT ![f] = AfterNeonError(f)] /\ Taken(f) /\ InsertNode(f)
    BY <1>3, <2>2, <2>4, Inserted DEF neonAssert, Taken, FindingInv, Nowhere
  <2> QED
    BY <1>3, <2>1, <2>3, <2>4 DEF neonAssert
<1> QED
  BY <1>1, <1>2, <1>3

(* A recall answers what is above its floor.                               *)
LEMMA AnswersFit ==
    ASSUME Facts \cap Derived = {}, FloorInv, NEW q, gatewayRecall(q) \/ neonRecall(q)
    PROVE  FloorInv'
<1>1. ASSUME NEW source, NEW items, Answered(q, source, items),
             \A f \in items : meetsTrustFloor(TierOf(f), q.floor)
      PROVE  FloorInv'
  <2> DEFINE a == [floor |-> q.floor, source |-> source, items |-> items]
  <2>1. answers' = answers \union {a} /\ a.floor = q.floor /\ a.items = items
    BY <1>1 DEF Answered
  <2> HIDE DEF a
  <2>2. q.floor \in HighFloors => items \intersect Facts = {}
    BY <1>1, AgentsBelow
  <2> QED
    BY <2>1, <2>2 DEF FloorInv
<1>2. ASSUME NEW stored, NEW items \in Ranked(stored, q.floor), NEW f \in items
      PROVE  meetsTrustFloor(TierOf(f), q.floor)
  BY <1>2 DEF Ranked
<1>3. CASE gatewayRecall(q)
  <2>1. CASE \E items \in SUBSET {f \in gateway : meetsTrustFloor(TierOf(f), q.floor)} :
               Answered(q, "gateway", items)
    BY <1>1, <2>1
  <2>2. CASE UNCHANGED answers
    BY <2>2 DEF FloorInv
  <2>3. CASE Answered(q, "none", {})
    BY <1>1, <2>3
  <2> QED
    BY <1>3, <2>1, <2>2, <2>3 DEF gatewayRecall
<1>4. CASE neonRecall(q)
  <2>1. PICK embedded \in embed :
          LET near == {r \in neon : r.vec}
              near1 == {i \in Ranked(near, q.floor) : embedded /\ i # {}}
          IN  \E items \in (IF near1 # {} THEN near1 ELSE Ranked(neon, q.floor)) : Answered(q, "neon", items)
    BY <1>4 DEF neonRecall
  <2>2. PICK items : /\ \/ items \in Ranked({r \in neon : r.vec}, q.floor)
                        \/ items \in Ranked(neon, q.floor)
                     /\ Answered(q, "neon", items)
    BY <2>1
  <2>3. \A f \in items : meetsTrustFloor(TierOf(f), q.floor)
    BY <1>2, <2>2
  <2> QED
    BY <1>1, <2>2, <2>3
<1> QED
  BY <1>3, <1>4

(* For any findings, provided that none is also derived elsewhere: a       *)
(* finding whose approval went through is stored, once unless a store took *)
(* it and its answer was lost, however often it was approved; and what     *)
(* agents asserted never meets a floor above them (applyAssert,            *)
(* meetsTrustFloor).                                                       *)
THEOREM FindingsKeptHolds ==
    ASSUME Facts \cap Derived = {}
    PROVE  MemSpec => []FindingsKept
<1>1. MemInit => FindingInv /\ FloorInv
  BY DEF MemInit, FindingInv, FloorInv, Rows, Nowhere
<1>2. FindingInv /\ FloorInv /\ [MemNext]_memVars => (FindingInv /\ FloorInv)'
  <2> SUFFICES ASSUME FindingInv, FloorInv, [MemNext]_memVars PROVE FindingInv' /\ FloorInv'
    OBVIOUS
  <2>1. ASSUME UNCHANGED <<asserts, gateway, neon, lost>> PROVE FindingInv'
    BY <2>1 DEF FindingInv, Rows, Nowhere
  <2>2. ASSUME UNCHANGED answers PROVE FloorInv'
    BY <2>2 DEF FloorInv
  <2>3. CASE UNCHANGED memVars
    BY <2>1, <2>2, <2>3 DEF memVars
  <2>4. CASE CacheExpires
    BY <2>1, <2>2, <2>4 DEF CacheExpires
  <2>5. ASSUME NEW f \in Facts, applyAssert(f) \/ gatewayAssert(f) \/ neonAssert(f)
        PROVE  FindingInv' /\ FloorInv'
    BY <2>2, <2>5, AssertStep DEF applyAssert, gatewayAssert, neonAssert
  <2>6. ASSUME NEW floor, RecallTool(floor) \/ recallMemories PROVE FindingInv' /\ FloorInv'
    BY <2>1, <2>2, <2>6 DEF RecallTool, recallMemories, Recall
  <2>7. ASSUME NEW q, gatewayRecall(q) \/ neonRecall(q) PROVE FindingInv' /\ FloorInv'
    BY <2>1, <2>7, AnswersFit DEF gatewayRecall, neonRecall
  <2> QED
    BY <2>3, <2>4, <2>5, <2>6, <2>7 DEF MemNext
<1>3. FindingInv /\ FloorInv => FindingsKept
  BY DEF FindingInv, FloorInv, FindingsKept, Nowhere, Rows, HighFloors
<1> QED
  BY <1>1, <1>2, <1>3, PTL DEF MemSpec

-----------------------------------------------------------------------------
(* The audit chain: what a MAC says of the log it was computed over.       *)

Table(t) == t = [i \in 1..Len(t) |-> t[i]] /\ Len(t) \in Nat

(* Where the rows of w are in a table, and the log that it then has. *)
Mine(t, w) == {i \in DOMAIN t : t[i].workspaceId = w}

(* How many of the numbers in D come before k. *)
Rank(D, k) == Cardinality({x \in D : x < k})

Log(t, w) ==
    [k \in 1..Cardinality(Mine(t, w)) |-> t[CHOOSE i \in Mine(t, w) : Rank(Mine(t, w), i) = k - 1]]

(* The row of the chain that a MAC's end names, and the contents along it. *)
Said(h) == <<h[Len(h)][1], [i \in DOMAIN h |-> h[i][2]]>>

Links == Workspaces \X Contents

RowOk(row) == row.workspaceId \in Workspaces /\ row.content \in Contents /\ row.hash \in Issued

(* The MACs issued say what the application wrote; every row carries one.  *)
IssuedInv ==
    /\ \A h \in Issued : h \in Seq(Links) /\ h # <<>> /\ wrote[h] = Said(h)
    /\ Table(rows) /\ \A i \in 1..Len(rows) : RowOk(rows[i])
    /\ pending = [p \in Appenders |-> pending[p]]
    /\ \A p \in Appenders : \A row \in pending[p] : RowOk(row)
    /\ edits \in Nat

(* A record under way follows the head of its chain. *)
Follows(row) ==
    /\ row.prevHash = HeadHash(row.workspaceId)
    /\ row.hash = recordHash(row.prevHash, row.workspaceId, row.content)

LinkedInv ==
    edits = 0 /\ ~overlapped =>
        /\ \A w \in Workspaces : verifyChainFromDb(w)
        /\ \A p \in Appenders : \A row \in pending[p] : Follows(row)
        /\ \A p, q \in Appenders : p # q =>
              \A row \in pending[p], other \in pending[q] : row.workspaceId # other.workspaceId
        /\ \A p \in Appenders : \A row, other \in pending[p] : row = other

(* A sequence is a table.                                                  *)
LEMMA SeqTable == ASSUME NEW S, NEW t \in Seq(S) PROVE Table(t)
BY DEF Table

(* A set of numbers that is not empty has a least one. *)
LEMMA LeastNumber ==
    ASSUME NEW S \in SUBSET Nat, S # {}
    PROVE  \E i \in S : \A j \in S : i <= j
<1>1. IsWellFoundedOn(OpToRel(<, Nat), Nat)
  BY NatLessThanWellFounded
<1> DEFINE Below == OpToRel(<, Nat)
<1>2. \A x, y \in Nat : y < x => <<y, x>> \in Below
  BY DEF OpToRel
<1>3. IsWellFoundedOn(Below, Nat)
  BY <1>1
<1> HIDE DEF Below
<1>4. PICK i \in S : \A j \in S : <<j, i>> \notin Below
  BY <1>3, WFMin
<1>5. \A j \in S : ~(j < i)
  BY <1>2, <1>4
<1> QED
  BY <1>5

(* Two numbers of a finite set come after different numbers of its numbers. *)
LEMMA RanksDiffer ==
    ASSUME NEW D \in SUBSET Nat, IsFiniteSet(D), NEW k \in D
    PROVE  /\ Rank(D, k) \in 0..(Cardinality(D) - 1)
           /\ \A l \in D : Rank(D, l) = Rank(D, k) => l = k
<1> DEFINE Before(m) == {x \in D : x < m}
<1>1. ASSUME NEW m \in D
      PROVE  /\ Before(m) \subseteq D /\ m \notin Before(m)
             /\ IsFiniteSet(Before(m)) /\ Cardinality(Before(m)) \in Nat /\ Cardinality(D) \in Nat
             /\ Cardinality(Before(m)) < Cardinality(D)
  <2>1. Before(m) \subseteq D /\ m \notin Before(m)
    OBVIOUS
  <2>2. IsFiniteSet(Before(m))
    BY <2>1, FS_Subset
  <2>3. Cardinality(Before(m)) \in Nat /\ Cardinality(D) \in Nat
    BY <2>2, FS_CardinalityType
  <2>4. Cardinality(Before(m)) <= Cardinality(D) /\ (Cardinality(D) = Cardinality(Before(m)) => D = Before(m))
    BY <2>1, FS_Subset
  <2> QED
    BY <2>1, <2>2, <2>3, <2>4
<1>2. ASSUME NEW l \in D, NEW m \in D, l < m
      PROVE  Cardinality(Before(l)) # Cardinality(Before(m))
  <2>1. \A x \in D : x < l => x < m
    BY <1>2
  <2>2. Before(l) \subseteq Before(m) /\ l \in Before(m)
    BY <1>2, <2>1
  <2>3. Cardinality(Before(m)) = Cardinality(Before(l)) => Before(m) = Before(l)
    BY <1>1, <2>2, FS_Subset
  <2> QED
    BY <1>1, <2>2, <2>3
<1>3. \A l \in D : Cardinality(Before(l)) = Cardinality(Before(k)) => l = k
  BY <1>2
<1> QED
  BY <1>1, <1>3 DEF Rank

(* Every rank below the size of a finite set is taken, by one number. *)
LEMMA RanksTaken ==
    ASSUME NEW D \in SUBSET Nat, IsFiniteSet(D), NEW k \in 1..Cardinality(D)
    PROVE  \E i \in D : Rank(D, i) = k - 1
<1> DEFINE n == Cardinality(D)
           rank == [i \in D |-> Rank(D, i) + 1]
           T == {rank[i] : i \in D}
<1>1. n \in Nat
  BY FS_CardinalityType
<1>2. \A i \in D : Rank(D, i) \in 0..(n - 1) /\ \A l \in D : Rank(D, l) = Rank(D, i) => l = i
  BY RanksDiffer
<1> HIDE DEF n
<1>3. rank \in Injection(D, 1..n)
  BY <1>1, <1>2 DEF Injection, IsInjective
<1>4. rank \in Bijection(D, T)
  BY <1>3 DEF Bijection, Injection, Surjection, IsInjective
<1>5. Cardinality(D) = Cardinality(T)
  BY <1>4, FS_Bijection DEF ExistsBijection
<1>6. \A i \in D : rank[i] = Rank(D, i) + 1 /\ rank[i] \in 1..n
  BY <1>1, <1>2
<1>7. IsFiniteSet(1..n) /\ Cardinality(1..n) = n /\ T \subseteq 1..n
  BY <1>1, <1>6, FS_Interval
<1>8. T = 1..n
  <2> HIDE DEF T
  <2> QED
    BY <1>5, <1>7, FS_Subset DEF n
<1>9. PICK i \in D : k = rank[i]
  BY <1>8 DEF n
<1> QED
  BY <1>1, <1>2, <1>6, <1>9

(* The chain of a workspace, before and after a step.                      *)
LEMMA ChainIsLog == \A w : Chain(w) = Log(rows, w) /\ Chain(w)' = Log(rows', w)
BY DEF Chain, Log, Mine, Rank

(* The log of a workspace: it has the rows of the workspace, each at its   *)
(* rank, and no other.                                                     *)
LEMMA LogRows ==
    ASSUME NEW t, Table(t), NEW w
    PROVE  /\ IsFiniteSet(Mine(t, w)) /\ Cardinality(Mine(t, w)) \in Nat
           /\ Mine(t, w) \subseteq 1..Len(t)
           /\ Table(Log(t, w)) /\ Len(Log(t, w)) = Cardinality(Mine(t, w))
           /\ \A k \in 1..Cardinality(Mine(t, w)) :
                 \E i \in Mine(t, w) : Rank(Mine(t, w), i) = k - 1 /\ Log(t, w)[k] = t[i]
<1> DEFINE D == Mine(t, w)
           n == Cardinality(D)
           at(k) == CHOOSE i \in D : Rank(D, i) = k - 1
<1>1. IsFiniteSet(1..Len(t)) /\ D \subseteq 1..Len(t) /\ D \in SUBSET Nat
  <2>1. DOMAIN t = 1..Len(t) /\ Len(t) \in Nat
    BY DEF Table
  <2>2. IsFiniteSet(1..Len(t)) /\ 1..Len(t) \subseteq Nat
    BY <2>1, FS_Interval
  <2> QED
    BY <2>1, <2>2 DEF Mine
<1>2. IsFiniteSet(D) /\ n \in Nat
  BY <1>1, FS_Subset, FS_CardinalityType
<1>3. Log(t, w) = [k \in 1..n |-> t[at(k)]]
  BY DEF Log
<1>4. \A k \in 1..n : \E i \in D : Rank(D, i) = k - 1
  BY <1>1, <1>2, RanksTaken
<1>5. \A k \in 1..n : at(k) \in D /\ Rank(D, at(k)) = k - 1
  BY <1>4
<1> HIDE DEF D, n, at
<1>6. Log(t, w) \in Seq({t[i] : i \in D}) /\ Len(Log(t, w)) = n
  BY <1>2, <1>3, <1>5
<1>7. \A k \in 1..n : \E i \in D : Rank(D, i) = k - 1 /\ Log(t, w)[k] = t[i]
  BY <1>3, <1>5
<1>8. Log(t, w) = [k \in 1..n |-> Log(t, w)[k]]
  BY <1>3
<1> QED
  BY <1>1, <1>2, <1>6, <1>7, <1>8 DEF D, n, Table

(* Every row of a workspace has its place in the log.                      *)
LEMMA RowInLog ==
    ASSUME NEW t, Table(t), NEW w, NEW i \in Mine(t, w)
    PROVE  /\ Rank(Mine(t, w), i) + 1 \in 1..Len(Log(t, w))
           /\ Log(t, w)[Rank(Mine(t, w), i) + 1] = t[i]
<1> DEFINE D == Mine(t, w)
           k == Rank(D, i) + 1
<1>1. D \in SUBSET Nat /\ i \in D
  BY LogRows DEF Table
<1>2. IsFiniteSet(D) /\ Cardinality(D) \in Nat /\ Len(Log(t, w)) = Cardinality(D)
  BY LogRows
<1> HIDE DEF D
<1>3. /\ Rank(D, i) \in 0..(Cardinality(D) - 1)
      /\ \A l \in D : Rank(D, l) = Rank(D, i) => l = i
  BY <1>1, <1>2, RanksDiffer
<1>4. k \in 1..Cardinality(D) /\ k - 1 = Rank(D, i)
  BY <1>2, <1>3
<1> HIDE DEF k
<1>5. PICK l \in D : Rank(D, l) = k - 1 /\ Log(t, w)[k] = t[l]
  BY <1>4, LogRows DEF D
<1>6. l = i
  BY <1>3, <1>4, <1>5
<1> QED
  BY <1>2, <1>4, <1>5, <1>6 DEF D, k

(* A chain is made of rows of its workspace.                               *)
LEMMA ChainTyped ==
    ASSUME IssuedInv, NEW w
    PROVE  /\ Table(Chain(w)) /\ (Chain(w) = <<>> <=> Len(Chain(w)) = 0)
           /\ \A k \in 1..Len(Chain(w)) : RowOk(Chain(w)[k]) /\ Chain(w)[k].workspaceId = w
<1>1. Chain(w) = Log(rows, w) /\ Table(rows)
  BY ChainIsLog DEF IssuedInv
<1>2. Table(Chain(w)) /\ Len(Chain(w)) = Cardinality(Mine(rows, w))
  BY <1>1, LogRows
<1>3. ASSUME NEW k \in 1..Len(Chain(w)) PROVE RowOk(Chain(w)[k]) /\ Chain(w)[k].workspaceId = w
  <2>1. PICK i \in Mine(rows, w) : Chain(w)[k] = rows[i]
    BY <1>1, <1>2, LogRows
  <2>2. i \in 1..Len(rows) /\ rows[i].workspaceId = w
    BY <1>1, LogRows DEF Mine
  <2> QED
    BY <2>1, <2>2 DEF IssuedInv
<1>4. Chain(w) = <<>> <=> Len(Chain(w)) = 0
  BY <1>2 DEF Table
<1> QED
  BY <1>2, <1>3, <1>4

(* In a log that verifies, a MAC lists the records up to its own. *)
LEMMA VerifiedHash ==
    ASSUME IssuedInv, NEW w, verifyChainFromDb(w), NEW k \in 1..Len(Chain(w))
    PROVE  Chain(w)[k].hash = [j \in 1..k |-> <<w, Chain(w)[j].content>>]
<1> DEFINE c == Chain(w)
           L(m) == [j \in 1..m |-> <<w, c[j].content>>]
           Bad == {m \in 1..Len(c) : c[m].hash # L(m)}
<1>1. Len(c) \in Nat /\ DOMAIN c = 1..Len(c)
  BY ChainTyped DEF Table
<1>2. \A m \in 1..Len(c) : c[m].hash = recordHash(IF m = 1 THEN GENESIS_PREV ELSE c[m - 1].hash, w, c[m].content)
  BY <1>1 DEF verifyChainFromDb
<1> HIDE DEF c, L
<1>4. Bad \in SUBSET Nat /\ \A m : m \in Bad <=> m \in 1..Len(c) /\ c[m].hash # L(m)
  BY <1>1
<1> HIDE DEF Bad
<1>3. ASSUME Bad # {} PROVE FALSE
  <2>1. PICK m \in Bad : \A j \in Bad : m <= j
    BY <1>3, <1>4, LeastNumber
  <2>2. m \in 1..Len(c) /\ c[m].hash # L(m)
    BY <1>4
  <2>3. CASE m = 1
    <3>1. c[m].hash = <<<<w, c[m].content>>>>
      <4>1. c[m].hash = Append(<<>>, <<w, c[m].content>>)
        BY <1>2, <2>2, <2>3 DEF recordHash, GENESIS_PREV
      <4> QED
        BY <4>1
    <3>2. L(m) = <<<<w, c[m].content>>>>
      BY <2>3 DEF L
    <3> QED
      BY <2>2, <3>1, <3>2
  <2>4. CASE m # 1
    <3>1. m - 1 \in 1..Len(c) /\ m - 1 \in Nat /\ m - 1 \notin Bad
      <4>1. m - 1 \in 1..Len(c) /\ m - 1 \in Nat /\ ~(m <= m - 1)
        BY <1>1, <2>2, <2>4
      <4> QED
        BY <2>1, <4>1
    <3>2. c[m - 1].hash = L(m - 1)
      BY <1>4, <3>1
    <3>3. c[m].hash = Append(L(m - 1), <<w, c[m].content>>)
      BY <1>2, <2>2, <2>4, <3>2 DEF recordHash
    <3>4. Append(L(m - 1), <<w, c[m].content>>) = L(m)
      BY <1>1, <2>2, <3>1 DEF L
    <3> QED
      BY <2>2, <3>3, <3>4
  <2> QED
    BY <2>3, <2>4
<1> QED
  BY <1>3, <1>4 DEF c, L

(* The MAC at a verified chain's end was computed over that very log.      *)
LEMMA TamperLemma == IssuedInv => TamperEvident
<1> SUFFICES ASSUME IssuedInv, NEW w \in Workspaces, Chain(w) # <<>>, verifyChainFromDb(w)
             PROVE  wrote[Last(Chain(w)).hash] = <<w, ContentsOf(Chain(w))>>
  BY DEF TamperEvident
<1> DEFINE c == Chain(w)
           n == Len(c)
           h == c[n].hash
<1>1. n \in Nat /\ n # 0 /\ DOMAIN c = 1..n /\ n \in 1..n
  BY ChainTyped DEF Table
<1>2. h = [j \in 1..n |-> <<w, c[j].content>>]
  BY <1>1, VerifiedHash
<1>3. h \in Issued
  BY <1>1, ChainTyped DEF RowOk
<1>4. wrote[h] = Said(h)
  BY <1>3 DEF IssuedInv
<1> HIDE DEF c
<1>5. /\ DOMAIN h = 1..n /\ Len(h) = n /\ h[n] = <<w, c[n].content>>
      /\ \A j \in 1..n : h[j] = <<w, c[j].content>>
  BY <1>1, <1>2
<1> HIDE DEF n, h
<1>6. h[n][1] = w /\ \A j \in 1..n : h[j][2] = c[j].content
  BY <1>5
<1>7. Said(h) = <<w, ContentsOf(c)>>
  BY <1>1, <1>5, <1>6 DEF Said, ContentsOf
<1>8. Last(c) = c[n]
  BY DEF Last, n
<1> QED
  BY <1>4, <1>7, <1>8 DEF c, h

(* The head is a MAC the application has issued.                           *)
LEMMA HeadKnown ==
    ASSUME IssuedInv, NEW w
    PROVE  HeadHash(w) = <<>> \/ HeadHash(w) \in Issued
<1>1. CASE Chain(w) = <<>>
  BY <1>1 DEF HeadHash, GENESIS_PREV
<1>2. CASE Chain(w) # <<>>
  <2> DEFINE c == Chain(w)
  <2>1. Len(c) \in 1..Len(c)
    BY <1>2, ChainTyped DEF Table
  <2>2. c[Len(c)].hash \in Issued
    BY <2>1, ChainTyped DEF RowOk
  <2>3. HeadHash(w) = c[Len(c)].hash
    BY <1>2 DEF HeadHash, Last
  <2> QED
    BY <2>2, <2>3
<1> QED
  BY <1>1, <1>2

(* A record is computed over the head: its MAC says what the head's said   *)
(* and one record more.                                                    *)
LEMMA ReadHeadIssued ==
    ASSUME IssuedInv, NEW p \in Appenders, NEW w \in Workspaces, NEW c \in Contents, ReadHead(p, w, c)
    PROVE  IssuedInv'
<1> DEFINE head == HeadHash(w)
           hash == recordHash(head, w, c)
           before == IF head \in Issued THEN wrote[head][2] ELSE <<>>
           row == [workspaceId |-> w, content |-> c, prevHash |-> head, hash |-> hash]
<1>1. /\ pending' = [pending EXCEPT ![p] = {row}]
      /\ wrote' = [h \in Issued \cup {hash} |->
                      IF h = hash THEN <<w, Append(before, c)>> ELSE wrote[h]]
      /\ UNCHANGED <<rows, edits>>
  BY DEF ReadHead
<1>2. head = <<>> \/ head \in Issued
  BY HeadKnown
<1>3. head \in Seq(Links) /\ <<w, c>> \in Links /\ hash = Append(head, <<w, c>>)
  <2>1. head \in Seq(Links)
    <3>1. \A h \in Issued : h \in Seq(Links)
      BY DEF IssuedInv
    <3>2. <<>> \in Seq(Links)
      OBVIOUS
    <3> QED
      BY <1>2, <3>1, <3>2
  <2> QED
    BY <2>1 DEF recordHash, Links
<1>4. before = [i \in DOMAIN head |-> head[i][2]]
  <2>1. CASE head = <<>>
    <3>1. head \notin Issued
      BY <2>1 DEF IssuedInv
    <3> QED
      BY <2>1, <3>1
  <2>2. CASE head \in Issued
    BY <2>2 DEF IssuedInv, Said
  <2> QED
    BY <1>2, <2>1, <2>2
<1>5. row.workspaceId = w /\ row.content = c /\ row.hash = hash
  OBVIOUS
<1> HIDE DEF head, before, row
<1>6. /\ hash \in Seq(Links) /\ hash # <<>> /\ Len(hash) = Len(head) + 1 /\ Len(head) \in Nat
      /\ hash[Len(hash)] = <<w, c>> /\ \A i \in 1..Len(head) : hash[i] = head[i]
      /\ DOMAIN head = 1..Len(head) /\ DOMAIN hash = 1..(Len(head) + 1)
  BY <1>3
<1> HIDE DEF hash
<1>7. <<w, Append(before, c)>> = Said(hash)
  <2>1. Append(before, c) = [i \in DOMAIN hash |-> hash[i][2]]
    <3> DEFINE n == Len(head)
               f == [i \in 1..n |-> head[i][2]]
    <3>1. n \in Nat /\ before = f /\ Len(f) = n
      BY <1>4, <1>6
    <3>2. Append(f, c) = [i \in 1..(n + 1) |-> IF i = n + 1 THEN c ELSE f[i]]
      BY <3>1
    <3>3. \A i \in 1..(n + 1) : hash[i][2] = IF i = n + 1 THEN c ELSE f[i]
      <4>1. hash[n + 1][2] = c
        BY <1>6
      <4>2. \A i \in 1..n : hash[i][2] = f[i]
        BY <1>6
      <4>3. \A i \in 1..(n + 1) : i = n + 1 \/ i \in 1..n
        BY <3>1
      <4> HIDE DEF f
      <4> QED
        BY <3>1, <4>1, <4>2, <4>3
    <3> QED
      BY <1>6, <3>1, <3>2, <3>3
  <2>2. hash[Len(hash)][1] = w
    BY <1>6
  <2> QED
    BY <2>1, <2>2 DEF Said
<1>8. /\ Issued' = Issued \cup {hash}
      /\ \A h \in Issued' : wrote'[h] = IF h = hash THEN <<w, Append(before, c)>> ELSE wrote[h]
  BY <1>1 DEF Issued
<1>9. ASSUME NEW h \in Issued' PROVE h \in Seq(Links) /\ h # <<>> /\ wrote'[h] = Said(h)
  BY <1>6, <1>7, <1>8 DEF IssuedInv
<1>10. ASSUME NEW r, RowOk(r) PROVE RowOk(r)'
  BY <1>8, <1>10 DEF RowOk
<1>11. ASSUME NEW r, r = row PROVE RowOk(r)'
  BY <1>5, <1>8, <1>11 DEF RowOk
<1>12. ASSUME NEW q \in Appenders, NEW r \in pending'[q] PROVE RowOk(r)'
  <2>1. pending = [x \in Appenders |-> pending[x]] /\ \A x \in pending[q] : RowOk(x)
    BY DEF IssuedInv
  <2>2. r = row \/ r \in pending[q]
    BY <1>1, <1>12, <2>1
  <2> QED
    BY <1>10, <1>11, <2>1, <2>2
<1>13. Table(rows') /\ edits' \in Nat
  BY <1>1 DEF IssuedInv
<1>14. \A i \in 1..Len(rows') : RowOk(rows[i])'
  BY <1>1, <1>10 DEF IssuedInv
<1>15. pending' = [q \in Appenders |-> pending'[q]]
  BY <1>1 DEF IssuedInv
<1> QED
  BY <1>9, <1>12, <1>13, <1>14, <1>15 DEF IssuedInv

(* A table whose rows are rows of before, or carry MACs already issued. *)
LEMMA RowsReplaced ==
    ASSUME IssuedInv, UNCHANGED wrote, Table(rows'),
           \A i \in 1..Len(rows') : RowOk(rows'[i]),
           pending' = [p \in Appenders |-> pending'[p]],
           \A p \in Appenders : pending'[p] \subseteq pending[p], edits' \in Nat
    PROVE  IssuedInv'
<1>1. Issued' = Issued
  BY DEF Issued
<1>2. \A r : RowOk(r) => RowOk(r)'
  BY <1>1 DEF RowOk
<1>3. \A i \in 1..Len(rows') : RowOk(rows[i])'
  BY <1>1 DEF RowOk
<1>4. \A p \in Appenders : \A r \in pending'[p] : RowOk(r)'
  BY <1>2 DEF IssuedInv
<1>5. \A h \in Issued' : h \in Seq(Links) /\ h # <<>> /\ wrote'[h] = Said(h)
  BY <1>1 DEF IssuedInv
<1> QED
  BY <1>3, <1>4, <1>5 DEF IssuedInv

(* A row is inserted behind the others.                                    *)
LEMMA InsertRowIssued ==
    ASSUME IssuedInv, NEW p \in Appenders, NEW row \in pending[p], rows' = Append(rows, row),
           pending' = [pending EXCEPT ![p] = {}], UNCHANGED <<wrote, edits>>
    PROVE  /\ IssuedInv'
           /\ Len(rows') = Len(rows) + 1 /\ rows'[Len(rows) + 1] = row
           /\ \A i \in 1..Len(rows) : rows'[i] = rows[i]
           /\ \A q \in Appenders : pending'[q] = IF q = p THEN {} ELSE pending[q]
<1>1. DOMAIN rows = 1..Len(rows) /\ Len(rows) \in Nat /\ Table(rows)
  BY DEF IssuedInv, Table
<1>2. \A i \in 1..Len(rows) : RowOk(rows[i])
  BY DEF IssuedInv
<1>3. rows \in Seq({rows[i] : i \in 1..Len(rows)} \cup {row})
  <2> DEFINE S == {rows[i] : i \in 1..Len(rows)} \cup {row}
  <2>1. rows \in [1..Len(rows) -> S]
    BY <1>1 DEF Table
  <2> QED
    BY <1>1, <2>1, SeqDef
<1>4. /\ Len(rows') = Len(rows) + 1 /\ rows'[Len(rows) + 1] = row
      /\ \A i \in 1..Len(rows) : rows'[i] = rows[i]
      /\ Table(rows')
  <2> DEFINE S == {rows[i] : i \in 1..Len(rows)} \cup {row}
  <2>1. rows \in Seq(S) /\ row \in S
    BY <1>3
  <2> HIDE DEF S
  <2>2. rows' \in Seq(S) /\ Len(rows') = Len(rows) + 1
    BY <2>1
  <2>3. rows'[Len(rows) + 1] = row /\ \A i \in 1..Len(rows) : rows'[i] = rows[i]
    BY <1>1, <2>1
  <2>4. Table(rows')
    BY <2>2, SeqTable
  <2> QED
    BY <2>2, <2>3, <2>4
<1>5. RowOk(row) /\ pending = [q \in Appenders |-> pending[q]] /\ edits \in Nat
  BY DEF IssuedInv
<1>6. /\ \A q \in Appenders : pending'[q] = IF q = p THEN {} ELSE pending[q]
      /\ pending' = [q \in Appenders |-> pending'[q]]
  BY <1>5
<1>7. \A i \in 1..Len(rows') : RowOk(rows'[i])
  BY <1>1, <1>2, <1>4, <1>5
<1>8. \A q \in Appenders : pending'[q] \subseteq pending[q]
  BY <1>6
<1>9. Len(rows') \in Nat
  BY <1>1, <1>4
<1>10. IssuedInv'
  BY <1>4, <1>5, <1>6, <1>7, <1>8, <1>9, RowsReplaced
<1> QED
  BY <1>4, <1>6, <1>10

(* A row is changed: it can only carry a MAC that was issued.              *)
LEMMA ChangeRowIssued ==
    ASSUME IssuedInv, NEW i \in DOMAIN rows, NEW w \in Workspaces, NEW c \in Contents,
           NEW prev, NEW hash \in Issued, ChangeRow(i, w, c, prev, hash)
    PROVE  IssuedInv'
<1> DEFINE row == [workspaceId |-> w, content |-> c, prevHash |-> prev, hash |-> hash]
<1>1. rows' = [rows EXCEPT ![i] = row] /\ edits' = edits + 1 /\ UNCHANGED <<pending, wrote>>
  BY DEF ChangeRow
<1>2. RowOk(row)
  BY DEF RowOk
<1> HIDE DEF row
<1>3. DOMAIN rows = 1..Len(rows) /\ Len(rows) \in Nat /\ edits \in Nat /\ Table(rows)
  BY DEF IssuedInv, Table
<1>4. DOMAIN rows' = 1..Len(rows)
  BY <1>1, <1>3
<1>5. Len(rows') = Len(rows) /\ Table(rows')
  <2> DEFINE S == {rows'[j] : j \in 1..Len(rows)}
  <2>1. rows' \in [1..Len(rows) -> S]
    BY <1>1, <1>4
  <2>2. rows' \in Seq(S)
    BY <1>3, <2>1, SeqDef
  <2> HIDE DEF S
  <2> QED
    BY <1>3, <1>4, <2>1, <2>2 DEF Table
<1>6. \A j \in 1..Len(rows) : RowOk(rows'[j])
  BY <1>1, <1>2, <1>3 DEF IssuedInv
<1>7. pending' = [p \in Appenders |-> pending'[p]] /\ \A p \in Appenders : pending'[p] \subseteq pending[p]
  BY <1>1 DEF IssuedInv
<1> QED
  BY <1>1, <1>3, <1>5, <1>6, <1>7, RowsReplaced

(* A row is removed.                                                       *)
LEMMA DeleteRowIssued ==
    ASSUME IssuedInv, NEW i \in DOMAIN rows, DeleteRow(i)
    PROVE  IssuedInv'
<1> DEFINE S == {rows[j] : j \in 1..Len(rows)}
<1>1. DOMAIN rows = 1..Len(rows) /\ Len(rows) \in Nat /\ edits \in Nat /\ Table(rows)
  BY DEF IssuedInv, Table
<1>2. rows \in Seq(S)
  <2>1. rows \in [1..Len(rows) -> S]
    BY <1>1 DEF Table
  <2> QED
    BY <1>1, <2>1, SeqDef
<1>3. rows' = SubSeq(rows, 1, i - 1) \o SubSeq(rows, i + 1, Len(rows))
  BY DEF DeleteRow, RemoveAt
<1>4. SubSeq(rows, 1, i - 1) \in Seq(S) /\ SubSeq(rows, i + 1, Len(rows)) \in Seq(S)
  <2> HIDE DEF S
  <2> QED
    BY <1>1, <1>2
<1>5. rows' \in Seq(S)
  <2> HIDE DEF S
  <2> QED
    BY <1>3, <1>4
<1>6. \A j \in 1..Len(rows') : rows'[j] \in S
  <2> HIDE DEF S
  <2> QED
    BY <1>5
<1>7. \A r \in S : RowOk(r)
  BY DEF IssuedInv
<1>8. \A j \in 1..Len(rows') : RowOk(rows'[j])
  BY <1>6, <1>7
<1>9. Table(rows')
  <2> HIDE DEF S
  <2> QED
    BY <1>5 DEF Table
<1>10. UNCHANGED <<pending, wrote>> /\ edits' = edits + 1
  BY DEF DeleteRow
<1>11. pending' = [p \in Appenders |-> pending'[p]] /\ \A p \in Appenders : pending'[p] \subseteq pending[p]
  BY <1>10 DEF IssuedInv
<1> QED
  BY <1>1, <1>8, <1>9, <1>10, <1>11, RowsReplaced

(* Every step, edits without the key included, leaves MACs that are true.  *)
LEMMA IssuedStep == IssuedInv /\ [Next]_vars => IssuedInv'
<1> SUFFICES ASSUME IssuedInv, [Next]_vars PROVE IssuedInv'
  OBVIOUS
<1>1. ASSUME NEW p \in Appenders, NEW w \in Workspaces, NEW c \in Contents, ReadHead(p, w, c)
      PROVE  IssuedInv'
  BY <1>1, ReadHeadIssued
<1>2. ASSUME NEW p \in Appenders, InsertRow(p) PROVE IssuedInv'
  BY <1>2, InsertRowIssued DEF InsertRow
<1>3. ASSUME NEW i \in DOMAIN rows, NEW w \in Workspaces, NEW c \in Contents, NEW prev,
             NEW hash \in Issued, ChangeRow(i, w, c, prev, hash)
      PROVE  IssuedInv'
  BY <1>3, ChangeRowIssued
<1>4. ASSUME NEW i \in DOMAIN rows, DeleteRow(i) PROVE IssuedInv'
  BY <1>4, DeleteRowIssued
<1>5. CASE UNCHANGED vars
  BY <1>5 DEF vars, IssuedInv, Issued, RowOk
<1> QED
  BY <1>1, <1>2, <1>3, <1>4, <1>5 DEF Next

(* Inserting a row appends it to its workspace's log and to no other.      *)
LEMMA LogAppend ==
    ASSUME NEW t, Table(t), NEW u, Table(u), NEW row, Len(u) = Len(t) + 1, u[Len(t) + 1] = row,
           \A i \in 1..Len(t) : u[i] = t[i], NEW w
    PROVE  Log(u, w) = IF row.workspaceId = w THEN Append(Log(t, w), row) ELSE Log(t, w)
<1> DEFINE n == Len(Log(t, w))
           z == Len(t) + 1
<1>1. Len(t) \in Nat /\ DOMAIN t = 1..Len(t) /\ DOMAIN u = 1..z
  BY DEF Table
<1>2. Mine(u, w) = Mine(t, w) \cup (IF row.workspaceId = w THEN {z} ELSE {})
  BY <1>1 DEF Mine
<1>3. Mine(t, w) \subseteq 1..Len(t)
  BY <1>1 DEF Mine
<1>4. ASSUME NEW i \in Mine(t, w) PROVE Rank(Mine(u, w), i) = Rank(Mine(t, w), i)
  <2>1. {x \in Mine(u, w) : x < i} = {x \in Mine(t, w) : x < i}
    BY <1>1, <1>2, <1>3
  <2> QED
    BY <2>1 DEF Rank
<1>5. /\ n = Cardinality(Mine(t, w)) /\ n \in Nat /\ IsFiniteSet(Mine(t, w))
      /\ Len(Log(u, w)) = Cardinality(Mine(u, w)) /\ Len(Log(u, w)) \in Nat
      /\ Log(t, w) = [k \in 1..n |-> Log(t, w)[k]]
      /\ Log(u, w) = [k \in 1..Len(Log(u, w)) |-> Log(u, w)[k]]
  BY LogRows DEF Table
<1>6. ASSUME NEW k \in 1..n PROVE Log(u, w)[k] = Log(t, w)[k]
  <2>1. PICK i \in Mine(t, w) : Rank(Mine(t, w), i) = k - 1 /\ Log(t, w)[k] = t[i]
    BY <1>5, LogRows
  <2>2. i \in Mine(u, w) /\ u[i] = t[i] /\ Rank(Mine(u, w), i) = k - 1
    BY <1>2, <1>3, <1>4, <2>1
  <2>3. Log(u, w)[k - 1 + 1] = u[i]
    BY <2>2, RowInLog
  <2>4. k - 1 + 1 = k
    BY <1>5
  <2> QED
    BY <2>1, <2>2, <2>3, <2>4
<1>7. CASE row.workspaceId # w
  <2>1. Len(Log(u, w)) = n
    BY <1>2, <1>5, <1>7
  <2> QED
    BY <1>5, <1>6, <1>7, <2>1
<1>8. CASE row.workspaceId = w
  <2>1. z \notin Mine(t, w) /\ Mine(u, w) = Mine(t, w) \cup {z}
    BY <1>1, <1>2, <1>3, <1>8
  <2>2. Len(Log(u, w)) = n + 1
    <3>1. Cardinality(Mine(t, w) \cup {z}) = Cardinality(Mine(t, w)) + 1
      BY <1>5, <2>1, FS_AddElement
    <3> HIDE DEF z
    <3> QED
      BY <1>5, <2>1, <3>1
  <2>3. {x \in Mine(u, w) : x < z} = Mine(t, w)
    BY <1>1, <1>3, <2>1
  <2>4. Log(u, w)[n + 1] = row
    <3>1. z \in Mine(u, w) /\ Rank(Mine(u, w), z) = n /\ u[z] = row
      BY <1>5, <2>1, <2>3 DEF Rank
    <3> HIDE DEF z
    <3> QED
      BY <3>1, RowInLog
  <2>5. Append(Log(t, w), row) = [k \in 1..(n + 1) |-> IF k = n + 1 THEN row ELSE Log(t, w)[k]]
    <3> DEFINE g == Log(t, w)
    <3>1. g = [k \in 1..n |-> g[k]] /\ Len(g) = n /\ n \in Nat
      BY <1>5
    <3> HIDE DEF g, n
    <3> QED
      BY <3>1 DEF g
  <2>6. \A k \in 1..(n + 1) : k \in 1..n \/ k = n + 1
    BY <1>5
  <2>7. \A k \in 1..(n + 1) : Log(u, w)[k] = IF k = n + 1 THEN row ELSE Log(t, w)[k]
    BY <1>5, <1>6, <2>4, <2>6
  <2>8. Log(u, w) = [k \in 1..(n + 1) |-> Log(u, w)[k]]
    BY <1>5, <2>2
  <2>9. Log(u, w) = Append(Log(t, w), row)
    <3> DEFINE g == Log(u, w)
               h == Log(t, w)
    <3>1. g = [k \in 1..(n + 1) |-> g[k]] /\ \A k \in 1..(n + 1) : g[k] = IF k = n + 1 THEN row ELSE h[k]
      BY <2>7, <2>8
    <3> HIDE DEF g, h, n
    <3>2. g = [k \in 1..(n + 1) |-> IF k = n + 1 THEN row ELSE h[k]]
      BY <3>1
    <3> QED
      BY <2>5, <3>2 DEF g, h
  <2> QED
    BY <1>8, <2>9
<1> QED
  BY <1>7, <1>8

(* A log that verifies still does once a record that follows its head is   *)
(* appended.                                                               *)
LEMMA VerifiesAppend ==
    ASSUME IssuedInv, NEW w, verifyChainFromDb(w), NEW row, Follows(row), row.workspaceId = w,
           Chain(w)' = Append(Chain(w), row)
    PROVE  verifyChainFromDb(w)'
<1> DEFINE c == Chain(w)
           d == Append(c, row)
           n == Len(c)
           Prev(x, i) == IF i = 1 THEN GENESIS_PREV ELSE x[i - 1].hash
<1>1. Table(c) /\ (c = <<>> <=> n = 0)
  BY ChainTyped
<1>2. \A i \in 1..n : c[i].prevHash = Prev(c, i) /\ c[i].hash = recordHash(Prev(c, i), w, c[i].content)
  BY <1>1 DEF verifyChainFromDb, Table
<1>3. row.prevHash = Prev(c, n + 1) /\ row.hash = recordHash(row.prevHash, w, row.content)
  <2>1. row.prevHash = HeadHash(w) /\ row.hash = recordHash(row.prevHash, w, row.content)
    BY DEF Follows
  <2>2. HeadHash(w) = IF n = 0 THEN GENESIS_PREV ELSE c[n].hash
    BY <1>1 DEF HeadHash, Last
  <2>3. n \in Nat
    BY <1>1 DEF Table
  <2> QED
    BY <2>1, <2>2, <2>3
<1> HIDE DEF c
<1>4. /\ n \in Nat /\ DOMAIN d = 1..(n + 1) /\ d[n + 1] = row
      /\ \A i \in 1..n : d[i] = c[i]
  BY <1>1 DEF Table
<1> HIDE DEF d, n
<1>5. ASSUME NEW i \in 1..(n + 1) PROVE Prev(d, i) = Prev(c, i)
  <2>1. CASE i = 1
    BY <2>1
  <2>2. CASE i # 1
    <3>1. i - 1 \in 1..n
      BY <1>4, <2>2
    <3> QED
      BY <1>4, <2>2, <3>1
  <2> QED
    BY <2>1, <2>2
<1> HIDE DEF Prev
<1>6. ASSUME NEW i \in 1..(n + 1)
      PROVE  d[i].prevHash = Prev(d, i) /\ d[i].hash = recordHash(Prev(d, i), w, d[i].content)
  <2>1. i \in 1..n \/ i = n + 1
    BY <1>4
  <2>2. CASE i \in 1..n
    BY <1>2, <1>4, <1>5, <2>2
  <2>3. CASE i = n + 1
    BY <1>3, <1>4, <1>5, <2>3
  <2> QED
    BY <2>1, <2>2, <2>3
<1>7. Chain(w)' = d
  BY DEF c, d
<1>8. \A i \in DOMAIN Chain(w)' : /\ Chain(w)'[i].prevHash = Prev(Chain(w)', i)
                                 /\ Chain(w)'[i].hash = recordHash(Prev(Chain(w)', i), w, Chain(w)'[i].content)
  BY <1>4, <1>6, <1>7
<1> QED
  BY <1>8 DEF verifyChainFromDb, Prev, GENESIS_PREV

(* A record that is begun alone follows the head.                          *)
LEMMA ReadHeadLinked ==
    ASSUME IssuedInv, LinkedInv, NEW p \in Appenders, NEW w \in Workspaces, NEW c \in Contents,
           ReadHead(p, w, c)
    PROVE  LinkedInv'
<1> SUFFICES ASSUME edits' = 0, ~overlapped'
             PROVE  /\ \A v \in Workspaces : verifyChainFromDb(v)'
                    /\ \A q \in Appenders : \A row \in pending'[q] : Follows(row)'
                    /\ \A q, r \in Appenders : q # r =>
                          \A row \in pending'[q], other \in pending'[r] : row.workspaceId # other.workspaceId
                    /\ \A q \in Appenders : \A row, other \in pending'[q] : row = other
  BY DEF LinkedInv
<1> DEFINE new == [workspaceId |-> w, content |-> c, prevHash |-> HeadHash(w),
                   hash |-> recordHash(HeadHash(w), w, c)]
<1>1. /\ pending' = [pending EXCEPT ![p] = {new}] /\ UNCHANGED <<rows, edits>>
      /\ edits = 0 /\ ~overlapped /\ \A q \in Appenders : \A row \in pending[q] : row.workspaceId # w
  BY DEF ReadHead
<1>2. \A v : Chain(v)' = Chain(v)
  BY <1>1, ChainIsLog
<1>3. \A v : verifyChainFromDb(v)' = verifyChainFromDb(v) /\ HeadHash(v)' = HeadHash(v)
  BY <1>2 DEF verifyChainFromDb, HeadHash, recordHash, GENESIS_PREV
<1>4. /\ new.workspaceId = w /\ new.prevHash = HeadHash(w)
      /\ new.hash = recordHash(new.prevHash, w, new.content)
  OBVIOUS
<1> HIDE DEF new
<1>5. \A q \in Appenders : pending'[q] = IF q = p THEN {new} ELSE pending[q]
  BY <1>1 DEF IssuedInv
<1>6. ASSUME NEW row, Follows(row) \/ row = new PROVE Follows(row)'
  BY <1>3, <1>4, <1>6 DEF Follows, recordHash
<1> QED
  BY <1>1, <1>3, <1>4, <1>5, <1>6 DEF LinkedInv

(* A record that follows the head keeps the chain verifying.               *)
LEMMA InsertRowLinked ==
    ASSUME IssuedInv, LinkedInv, NEW p \in Appenders, NEW row \in pending[p], rows' = Append(rows, row),
           pending' = [pending EXCEPT ![p] = {}], UNCHANGED <<wrote, edits, overlapped>>
    PROVE  LinkedInv'
<1> SUFFICES ASSUME edits = 0, ~overlapped
             PROVE  /\ \A v \in Workspaces : verifyChainFromDb(v)'
                    /\ \A q \in Appenders : \A other \in pending'[q] : Follows(other)'
                    /\ \A q, r \in Appenders : q # r =>
                          \A x \in pending'[q], y \in pending'[r] : x.workspaceId # y.workspaceId
                    /\ \A q \in Appenders : \A x, y \in pending'[q] : x = y
  BY DEF LinkedInv
<1>1. /\ IssuedInv' /\ Len(rows') = Len(rows) + 1 /\ rows'[Len(rows) + 1] = row
      /\ \A i \in 1..Len(rows) : rows'[i] = rows[i]
      /\ \A q \in Appenders : pending'[q] = IF q = p THEN {} ELSE pending[q]
  BY InsertRowIssued
<1>2. Table(rows) /\ Table(rows')
  BY <1>1 DEF IssuedInv
<1>3. ASSUME NEW v
      PROVE  Chain(v)' = IF row.workspaceId = v THEN Append(Chain(v), row) ELSE Chain(v)
  <2>1. Log(rows', v) = IF row.workspaceId = v THEN Append(Log(rows, v), row) ELSE Log(rows, v)
    <3> DEFINE t == rows
               u == rows'
    <3>1. /\ Table(t) /\ Table(u) /\ Len(u) = Len(t) + 1 /\ u[Len(t) + 1] = row
          /\ \A i \in 1..Len(t) : u[i] = t[i]
      BY <1>1, <1>2
    <3> HIDE DEF t, u
    <3>2. Log(u, v) = IF row.workspaceId = v THEN Append(Log(t, v), row) ELSE Log(t, v)
      BY <3>1, LogAppend
    <3> QED
      BY <3>2 DEF t, u
  <2> QED
    BY <2>1, ChainIsLog
<1>4. Follows(row) /\ row.workspaceId \in Workspaces
  BY DEF LinkedInv, IssuedInv, RowOk
<1>5. \A v : row.workspaceId # v =>
         verifyChainFromDb(v)' = verifyChainFromDb(v) /\ HeadHash(v)' = HeadHash(v)
  BY <1>3 DEF verifyChainFromDb, HeadHash, recordHash, GENESIS_PREV
<1>6. ASSUME NEW v \in Workspaces PROVE verifyChainFromDb(v)'
  <2>1. verifyChainFromDb(v)
    BY DEF LinkedInv
  <2>2. CASE row.workspaceId = v
    BY <1>3, <1>4, <2>1, <2>2, VerifiesAppend
  <2> QED
    BY <1>5, <2>1, <2>2
<1>7. ASSUME NEW q \in Appenders, NEW other \in pending'[q] PROVE Follows(other)'
  <2>1. q # p /\ other \in pending[q]
    BY <1>1, <1>7
  <2>2. Follows(other) /\ row.workspaceId # other.workspaceId
    BY <2>1 DEF LinkedInv
  <2> QED
    BY <1>5, <2>2 DEF Follows, recordHash
<1> QED
  BY <1>1, <1>6, <1>7 DEF LinkedInv

(* Every step keeps an unedited table verifying, without overlaps.         *)
LEMMA LinkedStep == IssuedInv /\ LinkedInv /\ [Next]_vars => LinkedInv'
<1> SUFFICES ASSUME IssuedInv, LinkedInv, [Next]_vars PROVE LinkedInv'
  OBVIOUS
<1>1. ASSUME NEW p \in Appenders, NEW w \in Workspaces, NEW c \in Contents, ReadHead(p, w, c)
      PROVE  LinkedInv'
  BY <1>1, ReadHeadLinked
<1>2. ASSUME NEW p \in Appenders, InsertRow(p) PROVE LinkedInv'
  BY <1>2, InsertRowLinked DEF InsertRow
<1>3. edits \in Nat
  BY DEF IssuedInv
<1>4. ASSUME NEW i, NEW w, NEW c, NEW prev, NEW hash, ChangeRow(i, w, c, prev, hash) \/ DeleteRow(i)
      PROVE  LinkedInv'
  BY <1>3, <1>4 DEF ChangeRow, DeleteRow, LinkedInv
<1>5. CASE UNCHANGED vars
  <2>1. \A w : Chain(w)' = Chain(w)
    BY <1>5, ChainIsLog DEF vars
  <2>2. \A w : verifyChainFromDb(w)' = verifyChainFromDb(w) /\ HeadHash(w)' = HeadHash(w)
    BY <2>1 DEF verifyChainFromDb, HeadHash, recordHash, GENESIS_PREV
  <2>3. \A row : Follows(row)' = Follows(row)
    BY <2>2 DEF Follows, recordHash
  <2> QED
    BY <1>5, <2>2, <2>3 DEF vars, LinkedInv
<1> QED
  BY <1>1, <1>2, <1>4, <1>5 DEF Next

(* For any workspaces, contents and appenders, whatever is done to the table *)
(* without the key: a log that verifies is one the application wrote, in   *)
(* this order and from its first record; and an unedited log verifies      *)
(* while no two appends overlap (appendAudit, verifyChainFromDb).          *)
THEOREM ChainHonestHolds == Spec => []ChainHonest
<1>1. Init => IssuedInv /\ LinkedInv
  <2> SUFFICES ASSUME Init PROVE IssuedInv /\ LinkedInv
    OBVIOUS
  <2>1. rows = <<>> /\ Table(rows) /\ Issued = {} /\ edits = 0
    BY DEF Init, Table, Issued
  <2>2. pending = [p \in Appenders |-> {}]
    BY DEF Init
  <2>3. IssuedInv
    BY <2>1, <2>2 DEF IssuedInv
  <2>4. ASSUME NEW w PROVE verifyChainFromDb(w)
    <3>1. \A i \in 1..Len(Chain(w)) : Chain(w)[i].hash \in Issued
      BY <2>3, ChainTyped DEF RowOk
    <3> QED
      BY <2>1, <2>3, <3>1, ChainTyped DEF verifyChainFromDb, Table
  <2> QED
    BY <2>2, <2>3, <2>4 DEF LinkedInv
<1>2. IssuedInv /\ LinkedInv => ChainHonest
  BY TamperLemma DEF LinkedInv, ChainHonest, NoFalseAlarm
<1> QED
  BY <1>1, <1>2, IssuedStep, LinkedStep, PTL DEF Spec

-----------------------------------------------------------------------------
(* Mail: who was told, who asked, and how far each mail has come.          *)

MailRows == [to : Spellings, at : {"check", "suppressed", "resend", "smtp", "link", "sent"}, late : BOOLEAN]

MailInv ==
    /\ mails \in Seq(MailRows)
    /\ pages = [a \in Addresses |-> pages[a]]
    /\ links \subseteq Addresses
    /\ told \subseteq suppressed /\ suppressed \subseteq wanted
    /\ \A a \in Addresses : /\ pages[a] = "posted" => a \in suppressed
                            /\ pages[a] = "working" => a \in wanted
    /\ \A i \in DOMAIN mails : mails[i].late =>
          mails[i].at \in {"check", "suppressed"} /\ canon[mails[i].to] \in suppressed

(* A send begins: it is late if its address has been told already.         *)
LEMMA BeginSendStep == ASSUME MailInv, NEW s \in Spellings, BeginSend(s) PROVE MailInv'
<1> DEFINE new == [to |-> s, at |-> "check", late |-> canon[s] \in told]
<1>1. /\ mails' = Append(mails, new) /\ UNCHANGED <<suppressed, links, wanted, told, pages>>
      /\ mails \in Seq(MailRows) /\ new \in MailRows
  BY DEF BeginSend, MailInv, MailRows
<1>2. new.late => new.at = "check" /\ canon[new.to] \in suppressed
  BY DEF MailInv
<1> HIDE DEF new
<1>3. /\ mails' \in Seq(MailRows) /\ DOMAIN mails' = DOMAIN mails \cup {Len(mails) + 1}
      /\ mails'[Len(mails) + 1] = new /\ \A i \in DOMAIN mails : mails'[i] = mails[i]
  BY <1>1
<1>4. \A i \in DOMAIN mails' : mails'[i].late =>
         mails'[i].at \in {"check", "suppressed"} /\ canon[mails'[i].to] \in suppressed'
  BY <1>1, <1>2, <1>3 DEF MailInv
<1> QED
  BY <1>1, <1>3, <1>4 DEF MailInv

(* A mail moves on; one that is late can only be held back.                *)
LEMMA MailMoves ==
    ASSUME MailInv, NEW i \in DOMAIN mails, NEW at \in {"suppressed", "resend", "smtp", "link", "sent"},
           mails' = [mails EXCEPT ![i].at = at], mails[i].late => at = "suppressed",
           links' \subseteq Addresses, UNCHANGED <<suppressed, wanted, told, pages>>
    PROVE  MailInv'
<1> DEFINE new == [mails[i] EXCEPT !.at = at]
<1>1. mails \in Seq(MailRows) /\ mails[i] \in MailRows
  BY DEF MailInv
<1>2. new \in MailRows /\ new.at = at /\ new.late = mails[i].late /\ new.to = mails[i].to
  BY <1>1 DEF MailRows
<1>3. mails' = [mails EXCEPT ![i] = new]
  OBVIOUS
<1> HIDE DEF new
<1>4. /\ mails' \in Seq(MailRows) /\ DOMAIN mails' = DOMAIN mails
      /\ \A j \in DOMAIN mails : mails'[j] = IF j = i THEN new ELSE mails[j]
  BY <1>1, <1>2, <1>3
<1> QED
  BY <1>2, <1>4 DEF MailInv

(* The check and the transports.                                           *)
LEMMA SendStep == ASSUME MailInv, NEW i \in DOMAIN mails, sendCompliant(i) PROVE MailInv'
<1>1. mails[i] \in MailRows
  BY DEF MailInv
<1>2. CASE Check(i)
  <2>1. PICK at \in {"suppressed", "resend", "smtp", "link"} :
           mails' = [mails EXCEPT ![i].at = at] /\ (canon[mails[i].to] \in suppressed => at = "suppressed")
    BY <1>2 DEF Check, isSuppressed
  <2>2. mails[i].late => at = "suppressed"
    BY <2>1 DEF MailInv
  <2>3. links' \subseteq Addresses /\ UNCHANGED <<suppressed, wanted, told, pages>>
    BY <1>2 DEF Check, MailInv
  <2> QED
    BY <2>1, <2>2, <2>3, MailMoves
<1>3. ASSUME NEW transport \in {"resend", "smtp"}, NEW next \in {"smtp", "link"}, Hand(i, transport, next)
      PROVE  MailInv'
  <2>1. PICK at \in {"sent", "smtp", "link"} : mails' = [mails EXCEPT ![i].at = at]
    BY <1>3 DEF Hand
  <2>2. links' \subseteq Addresses
    BY <1>1, <1>3 DEF Hand, Handed, verifyUnsubscribeToken, unsubscribeToken, Addresses, MailRows, MailInv
  <2>3. ~mails[i].late
    BY <1>3 DEF Hand, MailInv
  <2> QED
    BY <1>3, <2>1, <2>2, <2>3, MailMoves DEF Hand
<1> QED
  BY <1>2, <1>3 DEF sendCompliant, SendResend, SendSmtp

(* A reader, or a scanner, follows a link.                                 *)
LEMMA LinkStep ==
    ASSUME MailInv, NEW t \in links, OneClick(t) \/ Get(t) \/ OpenPage(t) \/ Post(t) \/ ShowAnswer(t)
    PROVE  MailInv'
<1>1. t \in Addresses
  BY DEF MailInv
<1>2. CASE OneClick(t)
  BY <1>1, <1>2 DEF OneClick, doUnsubscribe, suppress, verifyUnsubscribeToken, MailInv
<1>3. CASE Get(t)
  BY <1>3 DEF Get, mailVars, MailInv
<1>4. CASE OpenPage(t)
  BY <1>1, <1>4 DEF OpenPage, MailInv
<1>5. CASE Post(t)
  BY <1>1, <1>5 DEF Post, doUnsubscribe, suppress, verifyUnsubscribeToken, MailInv
<1>6. CASE ShowAnswer(t)
  BY <1>1, <1>6 DEF ShowAnswer, MailInv
<1> QED
  BY <1>2, <1>3, <1>4, <1>5, <1>6

(* For any addresses, spellings and transports: a mail that was begun      *)
(* after its address was told never reaches a transport, and nobody is on  *)
(* the suppression list who did not ask (sendCompliant, unsubscribe).      *)
THEOREM UnsubscribeHonouredHolds == MailSpec => []UnsubscribeHonoured
<1>1. MailInit => MailInv
  BY DEF MailInit, MailInv
<1>2. MailInv /\ [MailNext]_mailVars => MailInv'
  <2>1. MailInv /\ UNCHANGED mailVars => MailInv'
    BY DEF MailInv, mailVars
  <2> QED
    BY <2>1, BeginSendStep, SendStep, LinkStep DEF MailNext, sendInviteEmail, sendCalendarEmail
<1>3. MailInv => UnsubscribeHonoured
  BY DEF MailInv, UnsubscribeHonoured
<1> QED
  BY <1>1, <1>2, <1>3, PTL DEF MailSpec

-----------------------------------------------------------------------------
(* The record page: what a form that was never refreshed differs in.       *)

FormShape(form) ==
    /\ DOMAIN form = {"file", "vals", "pc", "todo"}
    /\ form.file = [f \in Fields |-> form.file[f]] /\ form.vals = [f \in Fields |-> form.vals[f]]
    /\ form.pc \in {"view", "edit", "saving"} /\ form.todo \in Seq(SUBSET Fields)

(* Only what was typed into differs, and only that is waiting to be sent.  *)
FormAsMeant(form, typed) ==
    /\ \A f \in Fields \ typed : form.vals[f] = form.file[f]
    /\ \A i \in DOMAIN form.todo : form.todo[i] \subseteq typed

FormInv ==
    /\ record = [f \in Fields |-> record[f]]
    /\ forms = [u \in Users |-> forms[u]] /\ meant = [u \in Users |-> meant[u]]
    /\ mixed = [u \in Users |-> mixed[u]]
    /\ \A u \in Users : FormShape(forms[u]) /\ (~mixed[u] => FormAsMeant(forms[u], meant[u]))
    /\ ~broke

(* A finite set in some order has no other members.                        *)
LEMMA InSomeOrder == ASSUME NEW S, IsFiniteSet(S) PROVE SetToSeq(S) \in Seq(S)
<1> DEFINE n == Cardinality(S)
<1>1. n \in Nat /\ ExistsBijection(1..n, S)
  BY FS_CardinalityType
<1>2. \E f \in [1..n -> S] : IsInjective(f)
  BY <1>1 DEF ExistsBijection, Bijection, Injection, IsInjective
<1>3. SetToSeq(S) \in [1..n -> S]
  BY <1>2 DEF SetToSeq
<1> QED
  BY <1>1, <1>3

(* A user's form changes, the others stay.                                 *)
LEMMA FormReplaced ==
    ASSUME FormInv, NEW u \in Users, NEW form, NEW typed, NEW mix,
           forms' = [forms EXCEPT ![u] = form], FormShape(form),
           meant' = [meant EXCEPT ![u] = typed], mixed' = [mixed EXCEPT ![u] = mix],
           ~mix => FormAsMeant(form, typed), record' = [f \in Fields |-> record'[f]], ~broke'
    PROVE  FormInv'
<1>1. \A v \in Users : /\ forms'[v] = IF v = u THEN form ELSE forms[v]
                       /\ meant'[v] = IF v = u THEN typed ELSE meant[v]
                       /\ mixed'[v] = IF v = u THEN mix ELSE mixed[v]
  BY DEF FormInv
<1>2. \A v \in Users : FormShape(forms'[v]) /\ (~mixed'[v] => FormAsMeant(forms'[v], meant'[v]))
  BY <1>1 DEF FormInv
<1>3. /\ forms' = [v \in Users |-> forms'[v]] /\ meant' = [v \in Users |-> meant'[v]]
      /\ mixed' = [v \in Users |-> mixed'[v]]
  BY DEF FormInv
<1> QED
  BY <1>2, <1>3 DEF FormInv, FormShape, FormAsMeant

(* The form a user has, and what a step leaves of the rest.                *)
LEMMA FormStep ==
    ASSUME FormInv, NEW u \in Users, NEW form, forms' = [forms EXCEPT ![u] = form], FormShape(form),
           UNCHANGED <<record, mixed, broke>>, NEW typed, meant' = [meant EXCEPT ![u] = typed],
           ~mixed[u] => FormAsMeant(form, typed)
    PROVE  FormInv'
<1>1. mixed' = [mixed EXCEPT ![u] = mixed[u]] /\ record' = [f \in Fields |-> record'[f]] /\ ~broke'
  BY DEF FormInv
<1> QED
  BY <1>1, FormReplaced

(* The page is mounted: the form is the record.                            *)
LEMMA MountStep == ASSUME FormInv, NEW u \in Users, stdInitial(u) PROVE FormInv'
<1> DEFINE form == [file |-> record, vals |-> record, pc |-> "view", todo |-> <<>>]
<1>1. /\ forms' = [forms EXCEPT ![u] = form] /\ meant' = [meant EXCEPT ![u] = {}]
      /\ mixed' = [mixed EXCEPT ![u] = FALSE] /\ UNCHANGED <<record, broke>>
  BY DEF stdInitial
<1>2. FormShape(form) /\ FormAsMeant(form, {})
  BY DEF FormInv, FormShape, FormAsMeant
<1>3. record' = [f \in Fields |-> record'[f]] /\ ~broke'
  BY <1>1 DEF FormInv
<1> HIDE DEF form
<1> QED
  BY <1>1, <1>2, <1>3, FormReplaced

(* A field is typed into.                                                  *)
LEMMA InputStep ==
    ASSUME FormInv, NEW u \in Users, NEW f \in Fields, NEW v, FieldInput(u, f, v)
    PROVE  FormInv'
<1> DEFINE old == forms[u]
           form == forms'[u]
           typed == meant[u] \cup {f}
<1>1. FormShape(old) /\ (~mixed[u] => FormAsMeant(old, meant[u]))
  BY DEF FormInv
<1>2. /\ DOMAIN form = DOMAIN old /\ form.file = old.file /\ form.todo = old.todo
      /\ form.vals = [old.vals EXCEPT ![f] = v] /\ form.pc = "edit"
  BY <1>1 DEF FieldInput, FormInv, FormShape
<1>3. forms' = [forms EXCEPT ![u] = form]
  BY DEF FieldInput, FormInv
<1>4. meant' = [meant EXCEPT ![u] = typed] /\ UNCHANGED <<record, mixed, broke>>
  BY DEF FieldInput
<1>5. FormShape(form)
  BY <1>1, <1>2 DEF FormShape
<1>6. ~mixed[u] => FormAsMeant(form, typed)
  BY <1>1, <1>2 DEF FormShape, FormAsMeant
<1> HIDE DEF form, typed
<1> QED
  BY <1>3, <1>4, <1>5, <1>6, FormStep

(* Save: what differs is lined up.                                         *)
LEMMA SaveStep ==
    ASSUME IsFiniteSet(Custom), FormInv, NEW u \in Users, save(u)
    PROVE  FormInv'
<1> DEFINE old == forms[u]
           form == forms'[u]
           lone == {{f} : f \in Changed(u) \intersect Custom}
           std == Changed(u) \intersect Std
           first == IF std = {} THEN <<>> ELSE <<std>>
           more == SetToSeq(lone)
           todo == first \o more
<1>1. FormShape(old) /\ (~mixed[u] => FormAsMeant(old, meant[u]))
  BY DEF FormInv
<1>2. IsFiniteSet(Changed(u) \intersect Custom)
  BY FS_Subset
<1>3. IsFiniteSet(lone)
  <2> DEFINE D == Changed(u) \intersect Custom
             f == [x \in D |-> {x}]
  <2>1. f \in Surjection(D, lone)
    BY DEF Surjection
  <2>2. IsFiniteSet(D)
    BY <1>2
  <2> HIDE DEF D, f, lone
  <2> QED
    BY <2>1, <2>2, FS_Surjection
<1>4. todo \in Seq(SUBSET Changed(u))
  <2>1. more \in Seq(lone)
    BY <1>3, InSomeOrder
  <2> DEFINE S == SUBSET Changed(u)
  <2>2. lone \subseteq S /\ std \in S
    OBVIOUS
  <2> HIDE DEF S, more, lone, std
  <2>3. first \in Seq(S)
    BY <2>2
  <2>4. more \in Seq(S)
    BY <2>1, <2>2
  <2> HIDE DEF first
  <2> QED
    BY <2>3, <2>4 DEF S
<1>5. Changed(u) \subseteq Fields /\ (~mixed[u] => Changed(u) \subseteq meant[u])
  BY <1>1 DEF Changed, FormAsMeant
<1>6. forms' = [forms EXCEPT ![u].pc = "saving", ![u].todo = todo]
  BY DEF save
<1> HIDE DEF todo
<1>7. todo \in Seq(SUBSET Fields) /\ \A i \in DOMAIN todo : todo[i] \subseteq Changed(u)
  BY <1>4, <1>5
<1>8. /\ DOMAIN form = DOMAIN old /\ form.file = old.file /\ form.vals = old.vals
      /\ form.pc = "saving" /\ form.todo = todo
  BY <1>1, <1>6 DEF FormShape, FormInv
<1>9. forms' = [forms EXCEPT ![u] = form]
  BY <1>6 DEF FormInv
<1>10. meant' = [meant EXCEPT ![u] = meant[u]] /\ UNCHANGED <<record, mixed, broke>>
  BY DEF save, FormInv
<1>11. FormShape(form) /\ (~mixed[u] => FormAsMeant(form, meant[u]))
  BY <1>1, <1>5, <1>7, <1>8 DEF FormShape, FormAsMeant
<1> HIDE DEF form
<1> QED
  BY <1>9, <1>10, <1>11, FormStep

(* One request is answered, whatever the answer: it held what was meant.   *)
LEMMA RequestSentStep == ASSUME FormInv, NEW u \in Users, SaveRequest(u) PROVE FormInv'
<1> DEFINE old == forms[u]
           form == forms'[u]
<1>1. FormShape(old) /\ (~mixed[u] => FormAsMeant(old, meant[u]))
  BY DEF FormInv
<1>2. old.todo \in Seq(SUBSET Fields) /\ old.todo # <<>>
  BY <1>1 DEF SaveRequest, FormShape
<1>3. /\ Tail(old.todo) \in Seq(SUBSET Fields) /\ 1 \in DOMAIN old.todo /\ Head(old.todo) = old.todo[1]
      /\ \A i \in DOMAIN Tail(old.todo) : i + 1 \in DOMAIN old.todo /\ Tail(old.todo)[i] = old.todo[i + 1]
  BY <1>2
<1>4. /\ DOMAIN form = DOMAIN old /\ form.file = old.file /\ form.vals = old.vals
      /\ form.pc = old.pc /\ form.todo = Tail(old.todo)
  BY <1>1 DEF SaveRequest, FormShape, FormInv
<1>5. forms' = [forms EXCEPT ![u] = form]
  BY DEF SaveRequest, FormInv
<1>6. meant' = [meant EXCEPT ![u] = meant[u]] /\ mixed' = [mixed EXCEPT ![u] = mixed[u]]
  BY DEF SaveRequest, FormInv
<1>7. FormShape(form) /\ (~mixed[u] => FormAsMeant(form, meant[u]))
  BY <1>1, <1>3, <1>4 DEF FormShape, FormAsMeant
<1>8. record' = [g \in Fields |-> record'[g]] /\ ~broke'
  <2>1. CASE Stored(u, Head(old.todo))
    <3>1. ~mixed[u] => Head(old.todo) \ meant[u] = {}
      BY <1>1, <1>3 DEF FormAsMeant
    <3> QED
      BY <2>1, <3>1 DEF Stored, FormInv
  <2>2. CASE UNCHANGED <<record, broke>>
    BY <2>2 DEF FormInv
  <2> QED
    BY <2>1, <2>2 DEF SaveRequest
<1> HIDE DEF form
<1> QED
  BY <1>5, <1>6, <1>7, <1>8, FormReplaced

(* The rest of a save is given up.                                         *)
LEMMA BreaksStep == ASSUME FormInv, NEW u \in Users, SaveBreaks(u) PROVE FormInv'
<1> DEFINE old == forms[u]
           form == forms'[u]
<1>1. FormShape(old) /\ (~mixed[u] => FormAsMeant(old, meant[u]))
  BY DEF FormInv
<1>2. /\ DOMAIN form = DOMAIN old /\ form.file = old.file /\ form.vals = old.vals
      /\ form.pc = "edit" /\ form.todo = <<>>
  BY <1>1 DEF SaveBreaks, FormShape, FormInv
<1>3. forms' = [forms EXCEPT ![u] = form]
  BY DEF SaveBreaks, FormInv
<1>4. meant' = [meant EXCEPT ![u] = meant[u]] /\ UNCHANGED <<record, mixed, broke>>
  BY DEF SaveBreaks, FormInv
<1>5. FormShape(form) /\ (~mixed[u] => FormAsMeant(form, meant[u]))
  BY <1>1, <1>2 DEF FormShape, FormAsMeant
<1> HIDE DEF form
<1> QED
  BY <1>3, <1>4, <1>5, FormStep

(* The page is refreshed under its form, after a save or by a note.        *)
LEMMA RefreshStep == ASSUME FormInv, NEW u \in Users, Saved(u) \/ NoteOrTag(u) PROVE FormInv'
<1> DEFINE old == forms[u]
           form == forms'[u]
<1>1. FormShape(old)
  BY DEF FormInv
<1>2. /\ DOMAIN form = DOMAIN old /\ form.file = record /\ form.vals = old.vals
      /\ form.pc \in {"view", old.pc} /\ form.todo = old.todo
  <2>1. CASE Saved(u)
    BY <1>1, <2>1 DEF Saved, FormShape, FormInv
  <2>2. CASE NoteOrTag(u)
    BY <1>1, <2>2 DEF NoteOrTag, FormShape, FormInv
  <2> QED
    BY <2>1, <2>2
<1>3. forms' = [forms EXCEPT ![u] = form]
  BY DEF Saved, NoteOrTag, FormInv
<1>4. PICK mix : mixed' = [mixed EXCEPT ![u] = mix] /\ (~mix => ~mixed[u] /\ old.vals = record)
  BY DEF Saved, NoteOrTag, FormInv
<1>5. meant' = [meant EXCEPT ![u] = meant[u]] /\ UNCHANGED <<record, broke>>
  BY DEF Saved, NoteOrTag, FormInv
<1>6. FormShape(form) /\ record' = [g \in Fields |-> record'[g]] /\ ~broke'
  BY <1>1, <1>2, <1>5 DEF FormShape, FormInv
<1>7. ~mix => FormAsMeant(form, meant[u])
  BY <1>2, <1>4 DEF FormAsMeant, FormInv
<1> HIDE DEF form
<1> QED
  BY <1>3, <1>4, <1>5, <1>6, <1>7, FormReplaced

(* For any users, fields and values, custom fields being finitely many: no *)
(* save changes a field its user did not type into, unless the page was    *)
(* refreshed under a form that stayed (save, stdPatch, setFieldValue).     *)
THEOREM OthersKeptHolds ==
    ASSUME IsFiniteSet(Custom)
    PROVE  FormSpec => []OthersKept
<1>1. FormInit => FormInv
  <2> SUFFICES ASSUME FormInit PROVE FormInv
    OBVIOUS
  <2>1. record = [f \in Fields |-> record[f]] /\ ~broke
    BY DEF FormInit
  <2> DEFINE form == [file |-> record, vals |-> record, pc |-> "view", todo |-> <<>>]
  <2>2. FormShape(form) /\ FormAsMeant(form, {})
    BY <2>1 DEF FormShape, FormAsMeant
  <2>3. \A u \in Users : forms[u] = form /\ meant[u] = {}
    BY DEF FormInit
  <2> HIDE DEF form
  <2> QED
    BY <2>1, <2>2, <2>3 DEF FormInit, FormInv
<1>2. FormInv /\ [FormNext]_formVars => FormInv'
  <2>1. FormInv /\ UNCHANGED formVars => FormInv'
    BY DEF FormInv, FormShape, FormAsMeant, formVars
  <2> QED
    BY <2>1, MountStep, InputStep, SaveStep, RequestSentStep, BreaksStep, RefreshStep DEF FormNext
<1>3. FormInv => OthersKept
  BY DEF FormInv, OthersKept
<1> QED
  BY <1>1, <1>2, <1>3, PTL DEF FormSpec

-----------------------------------------------------------------------------
(* Documents.                                                              *)

DocType ==
    /\ now \in Nat
    /\ standing = [p \in People |-> standing[p]]
    /\ seating \in [Chans -> SUBSET People]
    /\ docs = [d \in DOMAIN docs |-> docs[d]]
    /\ \A d \in DOMAIN docs : docs[d].home \in Chans \union {Workspace}
    /\ lostAt \in [People -> Nat]
    /\ \A k \in urls : k.doc \in DOMAIN docs /\ k.who \in People /\ k.until \in Nat
    /\ \A s \in sharing : s.chan \in Chans

(* A link outlives neither TTL nor, by more than TTL, its holder's sight.  *)
LinksInv ==
    \A k \in urls :
        /\ k.until <= now + TTL
        /\ \/ documentVisibleTo(k.doc, k.who, isInternal(k.who)) /\ standing[k.who] # "gone"
           \/ k.until <= lostAt[k.who] + TTL

ReplyFields == {"pc", "by", "chan", "invoker", "scope", "audience", "cited", "attached", "raced"}

(* Everyone the answer was meant for sees what it cites; everyone who sits *)
(* there does when it is posted, unless somebody came in between.          *)
ReplyInv ==
    \/ reply = NoReply
    \/ /\ reply.pc \in {"run", "post"} /\ DOMAIN reply = ReplyFields
       /\ reply.chan \in Chans /\ reply.raced \in BOOLEAN
       /\ reply.cited \union reply.attached \subseteq DOMAIN docs
       /\ reply.scope # "internal" => reply.cited \union reply.attached = {}
       /\ \A d \in reply.cited \union reply.attached, v \in reply.audience :
             documentVisibleTo(d, v.sub, v.internal)
       /\ reply.pc = "post" /\ ~reply.raced =>
             \A d \in reply.cited \union reply.attached, p \in seating[reply.chan] :
                documentVisibleTo(d, p, isInternal(p))

DocInv == DocType /\ LinksInv /\ ReplyInv /\ ~leaked

(* What may happen to documents, seats and shares: they are only added.    *)
Grows ==
    /\ DOMAIN docs \subseteq DOMAIN docs'
    /\ \A d \in DOMAIN docs : docs'[d].home = docs[d].home
    /\ \A c \in Chans : seating[c] \subseteq seating'[c]
    /\ shares \subseteq shares'

(* A reader keeps seeing what they saw, as long as they are as internal.   *)
LEMMA SightKept ==
    ASSUME DocType, Grows, NEW d \in DOMAIN docs, NEW p, NEW i,
           documentVisibleTo(d, p, i)
    PROVE  documentVisibleTo(d, p, i)'
BY DEF DocType, Grows, documentVisibleTo

(* Links and standing, when standing does not change.                      *)
LEMMA LinksKept ==
    ASSUME DocInv, Grows, UNCHANGED <<urls, standing, lostAt>>, now' \in Nat, now <= now'
    PROVE  LinksInv'
<1> SUFFICES ASSUME NEW k \in urls
             PROVE  /\ k.until <= now' + TTL
                    /\ \/ documentVisibleTo(k.doc, k.who, isInternal(k.who))' /\ standing'[k.who] # "gone"
                       \/ k.until <= lostAt'[k.who] + TTL
  BY DEF LinksInv
<1>1. k.until <= now + TTL /\ k.until \in Nat /\ now \in Nat /\ TTL \in Nat
  BY DocumentsAssumption DEF DocInv, DocType, LinksInv
<1>2. k.until <= now' + TTL
  BY <1>1
<1>3. documentVisibleTo(k.doc, k.who, isInternal(k.who)) =>
         documentVisibleTo(k.doc, k.who, isInternal(k.who))'
  BY SightKept DEF DocInv, DocType, isInternal
<1> QED
  BY <1>2, <1>3 DEF DocInv, LinksInv

(* An answer in the making, when nobody comes in and no standing changes.  *)
LEMMA ReplyKept ==
    ASSUME DocInv, Grows, UNCHANGED <<reply, standing, seating>>
    PROVE  ReplyInv'
<1>1. CASE reply = NoReply
  BY <1>1 DEF ReplyInv, NoReply
<1>2. CASE reply # NoReply
  <2>1. reply.cited \union reply.attached \subseteq DOMAIN docs'
    BY <1>2 DEF DocInv, ReplyInv, Grows
  <2>2. \A d \in reply.cited \union reply.attached, v \in reply.audience :
          documentVisibleTo(d, v.sub, v.internal)'
    BY <1>2, SightKept DEF DocInv, ReplyInv
  <2>3. reply.pc = "post" /\ ~reply.raced =>
             \A d \in reply.cited \union reply.attached, p \in seating[reply.chan] :
                documentVisibleTo(d, p, isInternal(p))'
    BY <1>2, SightKept DEF DocInv, ReplyInv, isInternal
  <2> QED
    BY <1>2, <2>1, <2>2, <2>3 DEF DocInv, ReplyInv, ReplyFields
<1> QED
  BY <1>1, <1>2

(* A new seat or standing marks an answer that is about to be posted.      *)
LEMMA ReplyRaced ==
    ASSUME DocInv, Grows, Raced
    PROVE  ReplyInv'
<1>1. CASE reply = NoReply
  BY <1>1 DEF ReplyInv, NoReply, Raced
<1>2. CASE reply # NoReply
  <2>1. /\ DOMAIN reply' = ReplyFields /\ reply'.pc = reply.pc
        /\ reply'.chan = reply.chan /\ reply'.cited = reply.cited /\ reply'.attached = reply.attached
        /\ reply'.scope = reply.scope /\ reply'.audience = reply.audience
        /\ reply'.raced = (reply.raced \/ reply.pc = "post")
    BY <1>2 DEF DocInv, ReplyInv, ReplyFields, Raced
  <2>2. reply.cited \union reply.attached \subseteq DOMAIN docs'
    BY <1>2 DEF DocInv, ReplyInv, Grows
  <2>3. \A d \in reply.cited \union reply.attached, v \in reply.audience :
          documentVisibleTo(d, v.sub, v.internal)'
    BY <1>2, SightKept DEF DocInv, ReplyInv
  <2> QED
    BY <1>2, <2>1, <2>2, <2>3 DEF DocInv, ReplyInv, ReplyFields
<1> QED
  BY <1>1, <1>2
(* A document is added.                                                    *)
LEMMA AddStep ==
    ASSUME DocInv, NEW d, d \notin DOMAIN docs, NEW home \in Chans \union {Workspace}, NEW blob,
           ingestDocument(d, home, blob),
           UNCHANGED <<now, standing, seating, shares, sharing, urls, lostAt, reply, leaked>>
    PROVE  DocInv'
<1>1. PICK index : docs' = [x \in DOMAIN docs \union {d} |->
                    IF x = d THEN [home |-> home, blob |-> blob, index |-> index] ELSE docs[x]]
  BY DEF ingestDocument
<1>2. /\ DOMAIN docs' = DOMAIN docs \union {d} /\ docs' = [x \in DOMAIN docs' |-> docs'[x]]
      /\ \A x \in DOMAIN docs : docs'[x] = docs[x]
      /\ docs'[d].home = home
  BY <1>1
<1>3. Grows
  BY <1>2 DEF Grows
<1>4. DocType'
  BY <1>2 DEF DocInv, DocType
<1>5. LinksInv'
  BY <1>3, LinksKept DEF DocInv, DocType
<1>6. ReplyInv'
  BY <1>3, ReplyKept
<1> QED
  BY <1>4, <1>5, <1>6 DEF DocInv

(* Time, and what is shared.                                               *)
LEMMA ShareStep ==
    ASSUME DocInv,
           \/ Pass
           \/ \E p \in People, d \in DOMAIN docs, c \in Chans : Share(p, d, c)
           \/ \E s \in sharing : linkMessageAttachments(s)
    PROVE  DocInv'
<1>1. Grows /\ UNCHANGED <<standing, seating, docs, urls, lostAt, reply, leaked>>
  BY DEF Pass, Share, linkMessageAttachments, Grows
<1>2. now' \in Nat /\ now <= now'
  BY DEF Pass, Share, linkMessageAttachments, DocInv, DocType
<1>3. \A s \in sharing' : s.chan \in Chans
  BY DEF Pass, Share, linkMessageAttachments, DocInv, DocType
<1>4. DocType'
  BY <1>1, <1>2, <1>3 DEF DocInv, DocType
<1>5. LinksInv' /\ ReplyInv'
  BY <1>1, <1>2, LinksKept, ReplyKept
<1> QED
  BY <1>1, <1>4, <1>5 DEF DocInv

(* A link is handed to one who sees the document.                          *)
LEMMA DownloadStep ==
    ASSUME DocInv, NEW p \in People, NEW d \in DOMAIN docs, Download(p, d)
    PROVE  DocInv'
<1> DEFINE k == [doc |-> d, who |-> p, until |-> now + TTL]
<1>1. UNCHANGED <<now, standing, seating, docs, shares, sharing, lostAt, reply, leaked>>
  BY DEF Download
<1>2. Grows
  BY <1>1 DEF Grows
<1>3. urls' \subseteq urls \union {k}
  BY DEF Download, signedUrlTtlSeconds
<1>4. k.doc = d /\ k.who = p /\ k.until = now + TTL
  OBVIOUS
<1>5. documentVisibleTo(d, p, isInternal(p)) /\ standing[p] # "gone"
  BY DEF Download, getVisibleDocument
<1> HIDE DEF k
<1>6. now \in Nat /\ TTL \in Nat
  BY DocumentsAssumption DEF DocInv, DocType
<1>7. DocType'
  BY <1>1, <1>3, <1>4, <1>6 DEF DocInv, DocType
<1>8. LinksInv'
  <2> SUFFICES ASSUME NEW l \in urls'
               PROVE  /\ l.until <= now + TTL
                      /\ \/ documentVisibleTo(l.doc, l.who, isInternal(l.who)) /\ standing[l.who] # "gone"
                         \/ l.until <= lostAt[l.who] + TTL
    BY <1>1 DEF LinksInv, documentVisibleTo, isInternal
  <2>1. CASE l \in urls
    BY <2>1 DEF DocInv, LinksInv
  <2>2. CASE l = k
    BY <1>4, <1>5, <1>6, <2>2
  <2> QED
    BY <1>3, <2>1, <2>2
<1>9. ReplyInv'
  BY <1>1, <1>2, ReplyKept
<1> QED
  BY <1>1, <1>7, <1>8, <1>9 DEF DocInv

(* A link is used.                                                         *)
LEMMA FetchStep ==
    ASSUME DocInv, NEW k \in urls, Fetch(k)
    PROVE  DocInv'
<1>1. UNCHANGED <<now, standing, seating, docs, shares, sharing, urls, lostAt, reply>>
  BY DEF Fetch
<1>2. Grows
  BY <1>1 DEF Grows
<1>3. ASSUME k.until <= lostAt[k.who] + TTL PROVE ~leaked'
  <2>1. now \in Nat /\ k.until \in Nat /\ lostAt[k.who] + TTL \in Nat /\ now <= k.until
    BY DocumentsAssumption DEF DocInv, DocType, Fetch
  <2>2. ~(now > lostAt[k.who] + TTL)
    BY <1>3, <2>1
  <2> QED
    BY <2>2 DEF Fetch, DocInv
<1>4. ASSUME getVisibleDocument(k.doc, k.who) PROVE ~leaked'
  BY <1>4 DEF Fetch, DocInv
<1>5. ~leaked'
  BY <1>3, <1>4 DEF DocInv, LinksInv, getVisibleDocument, Fetch
<1>6. DocType' /\ LinksInv' /\ ReplyInv'
  BY <1>1, <1>2, LinksKept, ReplyKept DEF DocInv, DocType
<1> QED
  BY <1>5, <1>6 DEF DocInv

(* A person is seated.                                                     *)
LEMMA SeatStep ==
    ASSUME DocInv, NEW p \in People, NEW c \in Chans, Seat(p, c)
    PROVE  DocInv'
<1>1. UNCHANGED <<now, standing, docs, shares, sharing, urls, lostAt, leaked>> /\ Raced
  BY DEF Seat
<1>2. seating' \in [Chans -> SUBSET People] /\ \A x \in Chans : seating[x] \subseteq seating'[x]
  BY DEF Seat, DocInv, DocType
<1>3. Grows
  BY <1>1, <1>2 DEF Grows
<1>4. DocType'
  BY <1>1, <1>2 DEF DocInv, DocType
<1>5. LinksInv'
  BY <1>1, <1>3, LinksKept DEF DocInv, DocType
<1>6. ReplyInv'
  BY <1>1, <1>3, ReplyRaced
<1> QED
  BY <1>1, <1>4, <1>5, <1>6 DEF DocInv

(* A person's standing changes: their links end within TTL from now.       *)
LEMMA RestandStep ==
    ASSUME DocInv, NEW p \in People, NEW s, Restand(p, s)
    PROVE  DocInv'
<1>1. UNCHANGED <<now, seating, docs, shares, sharing, urls, leaked>> /\ Raced
  BY DEF Restand
<1>2. /\ standing' = [x \in People |-> IF x = p THEN s ELSE standing[x]]
      /\ lostAt' = [x \in People |-> IF x = p THEN now ELSE lostAt[x]]
  BY DEF Restand, DocInv, DocType
<1>3. Grows
  BY <1>1 DEF Grows
<1>4. DocType'
  BY <1>1, <1>2 DEF DocInv, DocType
<1>5. LinksInv'
  <2> SUFFICES ASSUME NEW k \in urls
               PROVE  /\ k.until <= now + TTL
                      /\ \/ documentVisibleTo(k.doc, k.who, isInternal(k.who))' /\ standing'[k.who] # "gone"
                         \/ k.until <= lostAt'[k.who] + TTL
    BY <1>1 DEF LinksInv
  <2>1. k.until <= now + TTL /\ k.who \in People /\ k.doc \in DOMAIN docs
    BY DEF DocInv, DocType, LinksInv
  <2>2. CASE k.who = p
    BY <1>2, <2>1, <2>2
  <2>3. CASE k.who # p
    <3>1. standing'[k.who] = standing[k.who] /\ lostAt'[k.who] = lostAt[k.who]
      BY <1>2, <2>1, <2>3
    <3>2. documentVisibleTo(k.doc, k.who, isInternal(k.who)) =>
             documentVisibleTo(k.doc, k.who, isInternal(k.who))'
      BY <1>1, <3>1 DEF documentVisibleTo, isInternal
    <3> QED
      BY <2>1, <3>1, <3>2 DEF DocInv, LinksInv
  <2> QED
    BY <2>2, <2>3
<1>6. ReplyInv'
  BY <1>1, <1>3, ReplyRaced
<1> QED
  BY <1>1, <1>4, <1>5, <1>6 DEF DocInv

(* A step that only touches the answer in the making.                      *)
LEMMA ReplyOnly ==
    ASSUME DocInv, ReplyInv',
           UNCHANGED <<now, standing, seating, docs, shares, sharing, urls, lostAt, leaked>>
    PROVE  DocInv'
<1>1. Grows
  BY DEF Grows
<1>2. DocType' /\ LinksInv'
  BY <1>1, LinksKept DEF DocInv, DocType
<1> QED
  BY <1>2 DEF DocInv

(* An agent is mentioned.                                                  *)
LEMMA MentionStep ==
    ASSUME DocInv, NEW p \in People, NEW c \in Chans, Mention(p, c)
    PROVE  DocInv'
<1>1. /\ reply' = [pc |-> "run", by |-> p, chan |-> c, invoker |-> standing[p],
                  scope |-> agentReplyScope(c, standing[p]), audience |-> channelAudience(c),
                  cited |-> {}, attached |-> {}, raced |-> FALSE]
      /\ UNCHANGED <<now, standing, seating, docs, shares, sharing, urls, lostAt, leaked>>
  BY DEF Mention
<1>2. ReplyInv'
  BY <1>1 DEF ReplyInv, ReplyFields
<1> QED
  BY <1>1, <1>2, ReplyOnly

(* The agent reads or attaches what everybody there sees.                  *)
LEMMA ReadStep ==
    ASSUME DocInv, documentsRead \/ \E d \in DOMAIN docs : artifactAttach(d)
    PROVE  DocInv'
<1>1. /\ reply.pc = "run" /\ reply.scope = "internal"
      /\ UNCHANGED <<now, standing, seating, docs, shares, sharing, urls, lostAt, leaked>>
  BY DEF documentsRead, artifactAttach
<1>2. PICK d \in DOMAIN docs :
        /\ \/ reply' = [reply EXCEPT !.cited = @ \union {d}]
           \/ reply' = [reply EXCEPT !.attached = @ \union {d}]
        /\ documentVisibleToAll(d, reply.audience \union {Viewer})
  <2>1. CASE documentsRead
    BY <2>1, Zenon DEF documentsRead, retrieveChunks
  <2>2. CASE \E d \in DOMAIN docs : artifactAttach(d)
    BY <2>2 DEF artifactAttach, Attachable
  <2> QED
    BY <2>1, <2>2
<1>3. reply # NoReply /\ DOMAIN reply = ReplyFields
  BY <1>1 DEF NoReply, DocInv, ReplyInv
<1>4. /\ DOMAIN reply' = ReplyFields /\ reply'.pc = "run" /\ reply'.chan = reply.chan
      /\ reply'.raced = reply.raced /\ reply'.scope = "internal" /\ reply'.audience = reply.audience
      /\ reply'.cited \union reply'.attached = reply.cited \union reply.attached \union {d}
  BY <1>1, <1>2, <1>3 DEF ReplyFields
<1>5. \A v \in reply.audience : documentVisibleTo(d, v.sub, v.internal)
  BY <1>2 DEF documentVisibleToAll
<1>6. \A e \in DOMAIN docs : \A v \in reply.audience :
         documentVisibleTo(e, v.sub, v.internal) => documentVisibleTo(e, v.sub, v.internal)'
  BY <1>1 DEF documentVisibleTo
<1>7. ReplyInv'
  BY <1>1, <1>3, <1>4, <1>5, <1>6 DEF DocInv, ReplyInv
<1> QED
  BY <1>1, <1>7, ReplyOnly

(* The second check: an answer made with the workspace's documents goes on *)
(* only when everyone seated is internal, was a reader before, and was     *)
(* internal then.                                                          *)
LEMMA ReplyDoneStep ==
    ASSUME DocInv, ReplyDone
    PROVE  DocInv'
<1>1. reply.pc = "run" /\ UNCHANGED <<now, standing, seating, docs, shares, sharing, urls, lostAt, leaked>>
  BY DEF ReplyDone
<1>2. reply # NoReply /\ DOMAIN reply = ReplyFields
  BY <1>1 DEF NoReply, DocInv, ReplyInv
<1>3. CASE ~replyScopeStillValid
  <2>1. reply' = NoReply
    BY <1>3 DEF ReplyDone
  <2> QED
    BY <1>1, <2>1, ReplyOnly DEF ReplyInv, NoReply
<1>4. CASE replyScopeStillValid
  <2>1. /\ DOMAIN reply' = ReplyFields /\ reply'.pc = "post" /\ reply'.chan = reply.chan
        /\ reply'.raced = reply.raced /\ reply'.scope = reply.scope
        /\ reply'.audience = reply.audience
        /\ reply'.cited = reply.cited /\ reply'.attached = reply.attached
    BY <1>2, <1>4 DEF ReplyDone, ReplyFields
  <2>2. ASSUME NEW d \in reply.cited \union reply.attached, NEW p \in seating[reply.chan]
        PROVE  documentVisibleTo(d, p, isInternal(p))
    <3>1. reply.scope = "internal"
      BY <1>2 DEF DocInv, ReplyInv
    <3> DEFINE v == [sub |-> p, internal |-> isInternal(p)]
    <3>2. v \in channelAudience(reply.chan) /\ v.sub = p /\ v.internal = isInternal(p)
      BY DEF channelAudience
    <3> HIDE DEF v
    <3>3. v.internal
      BY <1>4, <3>1, <3>2 DEF replyScopeStillValid, agentReplyScope
    <3>4. PICK was \in reply.audience : was.sub = v.sub /\ (was.internal \/ ~v.internal)
      BY <1>4, <3>2 DEF replyScopeStillValid
    <3>5. documentVisibleTo(d, was.sub, was.internal)
      BY <1>2 DEF DocInv, ReplyInv
    <3> QED
      BY <3>2, <3>3, <3>4, <3>5 DEF documentVisibleTo
  <2>3. \A d \in DOMAIN docs : \A p, i : documentVisibleTo(d, p, i) => documentVisibleTo(d, p, i)'
    BY <1>1 DEF documentVisibleTo
  <2>4. \A d \in reply.cited \union reply.attached, p \in seating[reply.chan] :
           documentVisibleTo(d, p, isInternal(p))'
    BY <1>1, <1>2, <2>2, <2>3 DEF isInternal, DocInv, ReplyInv
  <2>5. \A d \in reply.cited \union reply.attached, v \in reply.audience :
           documentVisibleTo(d, v.sub, v.internal)'
    BY <1>2, <2>3 DEF DocInv, ReplyInv
  <2>6. ReplyInv'
    BY <1>1, <1>2, <2>1, <2>4, <2>5 DEF DocInv, ReplyInv
  <2> QED
    BY <1>1, <2>6, ReplyOnly
<1> QED
  BY <1>3, <1>4

(* Whoever then sits there sees what the answer cites.                     *)
LEMMA ReplyPostedStep ==
    ASSUME DocInv, ReplyPosted
    PROVE  DocInv'
<1>1. reply.pc = "post" /\ reply' = NoReply
      /\ UNCHANGED <<now, standing, seating, docs, sharing, urls, lostAt>>
  BY DEF ReplyPosted
<1>2. reply # NoReply
  BY <1>1 DEF NoReply
<1>3. Grows
  BY <1>1 DEF ReplyPosted, Grows
<1>4. ~leaked'
  BY <1>1, <1>2 DEF ReplyPosted, DocInv, ReplyInv, getVisibleDocument
<1>5. DocType' /\ LinksInv'
  BY <1>1, <1>3, LinksKept DEF DocInv, DocType
<1>6. ReplyInv'
  BY <1>1 DEF ReplyInv, NoReply
<1> QED
  BY <1>4, <1>5, <1>6 DEF DocInv

(* Every step keeps documents from those who may not see them.             *)
LEMMA DocStep == DocInv /\ [DocNext]_docVars => DocInv'
<1> SUFFICES ASSUME DocInv, [DocNext]_docVars PROVE DocInv'
  OBVIOUS
<1>1. CASE UNCHANGED docVars
  <2>1. Grows
    BY <1>1 DEF docVars, Grows
  <2>2. ReplyInv'
    BY <1>1, <2>1, ReplyKept DEF docVars
  <2> QED
    BY <1>1, <2>2, ReplyOnly DEF docVars
<1>2. ASSUME NEW p \in People, NEW d \in Docs, NEW home \in Chans \union {Workspace},
             Upload(p, d, home) \/ finalize(p, d, home)
      PROVE  DocInv'
  BY <1>2, AddStep DEF Upload, finalize
<1>3. ASSUME NEW p \in People, NEW d \in DOMAIN docs,
             Download(p, d) \/ (\E c \in Chans : Share(p, d, c))
      PROVE  DocInv'
  BY <1>3, DownloadStep, ShareStep
<1>4. ASSUME NEW p \in People, NEW c \in Chans, Mention(p, c) \/ Seat(p, c) PROVE DocInv'
  BY <1>4, MentionStep, SeatStep
<1>5. ASSUME NEW p \in People, NEW s, Restand(p, s) PROVE DocInv'
  BY <1>5, RestandStep
<1>6. CASE Pass \/ \E s \in sharing : linkMessageAttachments(s)
  BY <1>6, ShareStep
<1>7. CASE documentsRead \/ \E d \in DOMAIN docs : artifactAttach(d)
  BY <1>7, ReadStep
<1> QED
  BY <1>1, <1>2, <1>3, <1>4, <1>5, <1>6, <1>7, FetchStep, ReplyDoneStep, ReplyPostedStep DEF DocNext

(* For any people, channels, documents and lifetime of links: what reaches *)
(* a reader, by link or in an agent's answer, is what they may see, or     *)
(* could see less than a link's lifetime ago (documentVisibleTo,           *)
(* replyScopeStillValid, artifactAttach).                                  *)
THEOREM DocumentsConfinedHolds == DocSpec => []DocumentsConfined
<1>1. DocInit => DocInv
  <2> SUFFICES ASSUME DocInit PROVE DocInv
    OBVIOUS
  <2>1. DocType
    BY DocumentsAssumption DEF DocInit, DocType
  <2> QED
    BY <2>1 DEF DocInit, DocInv, LinksInv, ReplyInv
<1>2. DocInv => DocumentsConfined
  BY DEF DocInv, DocumentsConfined
<1> QED
  BY <1>1, <1>2, DocStep, PTL DEF DocSpec
=============================================================================

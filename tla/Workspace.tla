----------------------------- MODULE Workspace -----------------------------
(***************************************************************************)
(* One workspace of the web application: its roster (members.ts), invites  *)
(* (invites.ts), the capability matrix (matrix.ts) and the guard every     *)
(* route runs (guard.ts).                                                  *)
(*                                                                         *)
(* A request is authorised in one step and writes in later ones, one per   *)
(* SQL statement; only accepting an invite is a transaction, whose rows    *)
(* stay locked, and its writes unseen, until it commits.                   *)
(***************************************************************************)
EXTENDS Naturals, FiniteSets, Sequences

CONSTANTS Subs, Founder,     \* identities; the one who creates the workspace
          Staff,             \* those who joined as Admins before the model starts
          Lobby, Dm,         \* a channel, a direct message
          Emails,            \* addresses an invite may go to
          Asked,             \* the assignable roles that requests ask for
          Requests,          \* slots for requests in flight
          MaxInvites,        \* bound on invites ever made
          MaxCalls           \* bound on requests begun

Roles == {"Owner", "Admin", "Member", "Partner", "Guest", "Agent"}

Capabilities ==
    {"ReadChannel", "ReadWorkspace", "PostMessage", "CreateThread", "CreateChannel",
     "CreateDirectMessage", "AddMember", "RemoveMember", "AddAgent", "RemoveAgent",
     "AssignRole", "ManageWorkspace", "CreateRecord", "DeleteRecord"}

(* matrix.ts *)
MEMBER_CAPS ==
    {"ReadChannel", "ReadWorkspace", "PostMessage", "CreateThread", "CreateDirectMessage",
     "CreateRecord"}

PARTNER_CAPS == {"ReadChannel", "PostMessage", "CreateDirectMessage"}

AGENT_CAPS == {"ReadChannel", "ReadWorkspace", "PostMessage"}

ADMIN_CAPS == Capabilities \ {"ManageWorkspace"}

can(role, cap) ==
    CASE role = "Owner" -> TRUE
      [] role = "Admin" -> cap \in ADMIN_CAPS
      [] role = "Member" -> cap \in MEMBER_CAPS
      [] role = "Partner" -> cap \in PARTNER_CAPS
      [] role = "Guest" -> cap = "ReadChannel"
      [] role = "Agent" -> cap \in AGENT_CAPS
      [] OTHER -> FALSE

canGrant(issuer, target) ==
    \/ issuer = "Owner"
    \/ issuer = "Admin" /\ target \in {"Member", "Partner", "Guest", "Agent"}

(* What the routes' schemas let a caller ask for. *)
Assignable == {"Admin", "Member", "Partner", "Guest"}

VARIABLES
    members,     \* sub -> [role, status]
    assertions,  \* role assertions not revoked: <<sub, role>>
    invites,     \* token -> [role, by, scope, email, state, holder]
    seats,       \* channel -> subs
    requests,    \* slot -> what it is doing
    admitted,    \* history: [token, sub, fit] per invite accepted
    strayed,     \* history: subs written about while offboarded
    calls        \* requests begun

wsVars == <<members, assertions, invites, seats, requests, admitted, strayed, calls>>

MemberRow == [role : Roles, status : {"none", "active", "offboarded"}]

InviteRow ==
    [role : Assignable, by : Subs, scope : {"none", Lobby, Dm}, email : Emails,
     state : {"pending", "accepted", "expired"}]

Free == [pc |-> "free"]

-----------------------------------------------------------------------------
(* guard.ts: an active member; one whose role holds the capability; one    *)
(* who sits in the channel.                                                *)
requireMembership(sub) == members[sub].status = "active"

requireCapability(sub, cap) == requireMembership(sub) /\ can(members[sub].role, cap)

requireChannel(sub, c) == requireMembership(sub) /\ sub \in seats[c]

(* A scope is a channel the inviter sits in, and no direct message. *)
scopeChannelAllowed(scope, inviter) ==
    scope # "none" => scope # Dm /\ inviter \in seats[scope]

inviterStillEntitled(invite) ==
    /\ requireCapability(invite.by, "AddMember")
    /\ canGrant(members[invite.by].role, invite.role)

(* createWorkspace seats its creator as Owner; the staff joined since. *)
createWorkspace ==
    /\ members = [s \in Subs |-> CASE s = Founder -> [role |-> "Owner", status |-> "active"]
                                   [] s \in Staff -> [role |-> "Admin", status |-> "active"]
                                   [] OTHER -> [role |-> "Member", status |-> "none"]]
    /\ seats = [c \in {Lobby, Dm} |-> {Founder}]

WsInit ==
    /\ createWorkspace
    /\ assertions = {} /\ invites = <<>> /\ admitted = {} /\ strayed = {} /\ calls = 0
    /\ requests = [r \in Requests |-> Free]

Begin(r, req) ==
    /\ requests[r] = Free /\ calls < MaxCalls
    /\ calls' = calls + 1
    /\ requests' = [requests EXCEPT ![r] = req]
    /\ UNCHANGED <<members, assertions, invites, seats, admitted, strayed>>

Goes(r, pc) == requests' = [requests EXCEPT ![r] = IF pc = "free" THEN Free ELSE [@ EXCEPT !.pc = pc]]

(* An accept that read the roster and has not committed sees what it read. *)
Standing(s) ==
    [q \in Requests |-> IF requests[q].pc = "commit" /\ invites[requests[q].token].by = s
                        THEN [requests[q] EXCEPT !.raced = TRUE] ELSE requests[q]]

-----------------------------------------------------------------------------
(* PATCH members: both roles must be the caller's to grant.  Nothing asks  *)
(* whether the member is still there.                                      *)
PatchMember(r, actor, target, role) ==
    /\ requireCapability(actor, "AssignRole")
    /\ members[target].status # "none" /\ members[target].role # "Owner"
    /\ canGrant(members[actor].role, members[target].role)
    /\ canGrant(members[actor].role, role)
    /\ Begin(r, [pc |-> "role", target |-> target, role |-> role])

changeRole(r) ==
    /\ requests[r].pc = "role"
    /\ members' = [members EXCEPT ![requests[r].target].role = requests[r].role]
    /\ requests' = [Standing(requests[r].target) EXCEPT ![r].pc = "assert"]
    /\ UNCHANGED <<assertions, invites, seats, admitted, strayed, calls>>

AssertRole(r) ==
    /\ requests[r].pc = "assert"
    /\ assertions' = assertions \union {<<requests[r].target, requests[r].role>>}
    /\ strayed' = IF members[requests[r].target].status = "offboarded"
                  THEN strayed \union {requests[r].target} ELSE strayed
    /\ Goes(r, "free")
    /\ UNCHANGED <<members, invites, seats, admitted, calls>>

(* DELETE members: not oneself, not the Owner, not a peer.                 *)
DeleteMember(r, actor, target) ==
    /\ requireCapability(actor, "RemoveMember")
    /\ actor # target
    /\ members[target].status # "none" /\ members[target].role # "Owner"
    /\ canGrant(members[actor].role, members[target].role)
    /\ Begin(r, [pc |-> "status", target |-> target])

offboard(r) ==
    /\ requests[r].pc = "status"
    /\ members' = [members EXCEPT ![requests[r].target].status = "offboarded"]
    /\ requests' = [Standing(requests[r].target) EXCEPT ![r].pc = "revoke"]
    /\ UNCHANGED <<assertions, invites, seats, admitted, strayed, calls>>

RevokeAssertions(r) ==
    /\ requests[r].pc = "revoke"
    /\ assertions' = {a \in assertions : a[1] # requests[r].target}
    /\ Goes(r, "invites")
    /\ UNCHANGED <<members, invites, seats, admitted, strayed, calls>>

(* Waits for an accept that holds one of the rows.                         *)
Locked(t) == \E q \in Requests : requests[q].pc \in {"check", "commit"} /\ requests[q].token = t

(* Mutant: the offboarded member's invites are left alone.                 *)
revokePendingInvitesNone(r) ==
    /\ requests[r].pc = "invites"
    /\ Goes(r, "free")
    /\ UNCHANGED <<members, assertions, invites, seats, admitted, strayed, calls>>

revokePendingInvitesBy(r) ==
    /\ requests[r].pc = "invites"
    /\ LET theirs == {t \in DOMAIN invites : invites[t].by = requests[r].target /\ invites[t].state = "pending"}
       IN  /\ \A t \in theirs : ~Locked(t)
           /\ invites' = [t \in DOMAIN invites |->
                            IF t \in theirs THEN [invites[t] EXCEPT !.state = "expired"] ELSE invites[t]]
    /\ Goes(r, "free")
    /\ UNCHANGED <<members, assertions, seats, admitted, strayed, calls>>

-----------------------------------------------------------------------------
(* POST invites and invites/batch: addresses without repeats, one insert   *)
(* each; an insert that fails is reported and the loop goes on.            *)
PostInvites(r, actor, emails, role, scope) ==
    /\ requireCapability(actor, "AddMember")
    /\ scopeChannelAllowed(scope, actor)
    /\ canGrant(members[actor].role, role)
    /\ Begin(r, [pc |-> "invite", by |-> actor, emails |-> emails, role |-> role, scope |-> scope])

PostInvite(r, actor, e, role, scope) == PostInvites(r, actor, {e}, role, scope)

createInvite(r) ==
    /\ requests[r].pc = "invite"
    /\ \E e \in requests[r].emails :
         LET left == requests[r].emails \ {e}
         IN  /\ \/ /\ Len(invites) < MaxInvites
                   /\ invites' = Append(invites, [role |-> requests[r].role, by |-> requests[r].by,
                                                  scope |-> requests[r].scope, email |-> e,
                                                  state |-> "pending"])
                   /\ strayed' = IF members[requests[r].by].status = "offboarded"
                                 THEN strayed \union {requests[r].by} ELSE strayed
                \/ UNCHANGED <<invites, strayed>>
             /\ requests' = [requests EXCEPT ![r] = IF left = {} THEN Free ELSE [@ EXCEPT !.emails = left]]
    /\ UNCHANGED <<members, assertions, seats, admitted, calls>>

Expire(t) ==
    /\ invites[t].state = "pending" /\ ~Locked(t)
    /\ invites' = [invites EXCEPT ![t].state = "expired"]
    /\ UNCHANGED <<members, assertions, seats, requests, admitted, strayed, calls>>

(* The join page shows an invite that is pending; POST join claims it, in  *)
(* a transaction, whatever the page showed.                                *)
lookupInvite(t) == t \in DOMAIN invites /\ invites[t].state = "pending"

AcceptClaim(r, sub, t) ==
    /\ lookupInvite(t) /\ ~Locked(t)
    /\ Begin(r, [pc |-> "check", sub |-> sub, token |-> t, known |-> "none", raced |-> FALSE])

(* Mutant: whoever issued it, the invite admits.                           *)
AcceptCheckAny(r) ==
    /\ requests[r].pc = "check"
    /\ requests' = [requests EXCEPT ![r].pc = "commit", ![r].known = members[requests[r].sub].status]
    /\ UNCHANGED <<members, assertions, invites, seats, admitted, strayed, calls>>

(* The issuer's standing now, and the row of the one who joins.  An        *)
(* invite whose issuer lost it is spent and admits nobody.                 *)
AcceptCheck(r) ==
    /\ requests[r].pc = "check"
    /\ IF inviterStillEntitled(invites[requests[r].token])
       THEN /\ requests' = [requests EXCEPT ![r].pc = "commit",
                                            ![r].known = members[requests[r].sub].status]
            /\ UNCHANGED invites
       ELSE /\ Goes(r, "free")
            /\ invites' = [invites EXCEPT ![requests[r].token].state = "accepted"]
    /\ UNCHANGED <<members, assertions, seats, admitted, strayed, calls>>

(* An active member keeps role and seats; anyone else becomes active at    *)
(* the invite's role, and sits in its channel if the inviter still does.   *)
(* A row that came in between fails the insert and undoes the claim.       *)
acceptInvite(r) ==
    LET q == requests[r]
        t == invites[q.token]
        joins == q.known # "active"
    IN  /\ q.pc = "commit"
        /\ requests' = [Standing(q.sub) EXCEPT ![r] = Free]
        /\ IF q.known = "none" /\ members[q.sub].status # "none"
           THEN UNCHANGED <<members, seats, invites, admitted>>
           ELSE /\ invites' = [invites EXCEPT ![q.token].state = "accepted"]
                /\ members' = IF joins THEN [members EXCEPT ![q.sub] = [role |-> t.role, status |-> "active"]]
                                       ELSE members
                /\ seats' = IF joins /\ t.scope # "none" /\ scopeChannelAllowed(t.scope, t.by)
                            THEN [seats EXCEPT ![t.scope] = @ \union {q.sub}] ELSE seats
                /\ admitted' = admitted \union
                     {[token |-> q.token, sub |-> q.sub, fit |-> q.raced \/ inviterStillEntitled(t)]}
        /\ UNCHANGED <<assertions, strayed, calls>>

(* POST channels/:id/members seats an active member.                       *)
AddChannelMember(actor, target, c) ==
    /\ requireCapability(actor, "AddMember") /\ requireChannel(actor, c)
    /\ members[target].status = "active" /\ target \notin seats[c]
    /\ seats' = [seats EXCEPT ![c] = @ \union {target}]
    /\ UNCHANGED <<members, assertions, invites, requests, admitted, strayed, calls>>

-----------------------------------------------------------------------------
WsNext ==
    \/ \E r \in Requests, a, t \in Subs, role \in Asked : PatchMember(r, a, t, role)
    \/ \E r \in Requests, a, t \in Subs : DeleteMember(r, a, t)
    \/ \E r \in Requests, a \in Subs, es \in (SUBSET Emails) \ {{}}, role \in Asked,
          scope \in {"none", Lobby, Dm} : PostInvites(r, a, es, role, scope)
    \/ \E r \in Requests, a \in Subs, e \in Emails, role \in Asked,
          scope \in {"none", Lobby, Dm} : PostInvite(r, a, e, role, scope)
    \/ \E r \in Requests, s \in Subs, t \in DOMAIN invites : AcceptClaim(r, s, t)
    \/ \E r \in Requests :
         \/ changeRole(r) \/ AssertRole(r) \/ offboard(r) \/ RevokeAssertions(r)
         \/ revokePendingInvitesBy(r) \/ createInvite(r) \/ AcceptCheck(r) \/ acceptInvite(r)
    \/ \E t \in DOMAIN invites : Expire(t)
    \/ \E a, t \in Subs, c \in {Lobby, Dm} : AddChannelMember(a, t, c)

WsSpec == WsInit /\ [][WsNext]_wsVars

-----------------------------------------------------------------------------
(* An invite admits only while its issuer may still issue it: active, with *)
(* AddMember, and entitled to the role; unless the issuer lost that while  *)
(* the transaction that had checked it was committing.                     *)
AdmittedByEntitled == \A a \in admitted : a.fit

(* A member whose offboarding is through has no role assertion left and no *)
(* invite of theirs can admit anyone; unless a request authorised before,  *)
(* or a role change of one already gone, wrote after it.                   *)
OffboardedHasNothing ==
    \A s \in Subs \ strayed :
        /\ members[s].status = "offboarded"
        /\ \A r \in Requests : requests[r].pc \notin {"revoke", "invites"} \/ requests[r].target # s
        => /\ \A a \in assertions : a[1] # s
           /\ \A t \in DOMAIN invites : invites[t].by = s => invites[t].state # "pending"

(* Who is a member was let in by somebody entitled to, and who was         *)
(* offboarded has no role assertion and no open invite left.               *)
MembershipSound == AdmittedByEntitled /\ OffboardedHasNothing

=============================================================================

------------------------------- MODULE Relay -------------------------------
(***************************************************************************)
(* The server-blind relay: DeliveryService of                              *)
(* src/crates/comms-relay/src/lib.rs, with the role grants it verifies     *)
(* (src/crates/comms-core/src/rbac.rs).                                    *)
(*                                                                         *)
(* The service is one value behind one mutex: a method call is one atomic  *)
(* step, so every public method that changes state is one action here, and *)
(* a call that is refused changes nothing (with the one exception that     *)
(* OnboardRefused models).  What the store does between two puts is        *)
(* RelayStore, connections are RelayWs; here the service is the in-memory  *)
(* one (store = None).                                                     *)
(*                                                                         *)
(* Data abstractions.  A ciphertext is a model value and its BLAKE3 hash   *)
(* is the value itself.  The epoch of an envelope that is not a Commit is  *)
(* never read by the relay; it is stamped with the current epoch.  A       *)
(* ratchet tree is the epoch it was exported at.  Instants are not kept: a *)
(* grant or an invite that has passed its deadline is marked by the clock  *)
(* (ExpireGrant, ExpireInvite).                                            *)
(***************************************************************************)
EXTENDS Naturals, Sequences, FiniteSets

CONSTANTS Wallets, Owner,       \* all wallets; the workspace owner
          Groups, Ciphertexts,
          Tokens,               \* invite tokens (a token stands for its hash)
          SubmitKinds,          \* the kinds clients submit directly
          RecipientLists,       \* the lists of recipients clients address
          GrantRoles,           \* the roles named by signed grants
          MAX_RECIPIENTS, MAX_INVITES,
          MaxEpoch, MaxLog, MaxGrants, MaxMints, MaxReferrals  \* bounds

ASSUME OwnerAssumption == Owner \in Wallets
ASSUME BoundsAssumption == MaxEpoch \in Nat
ASSUME RecipientsAssumption == RecipientLists \subseteq Seq(Wallets)
ASSUME KindsAssumption ==
    SubmitKinds \subseteq {"Welcome", "Commit", "Proposal", "Application"}

VARIABLES
    sessions,   \* wallets with an authenticated session
    groups,     \* group id -> GroupState, for the registered groups
    mailboxes,  \* wallet -> envelopes fanned out and not fetched yet
    audit,      \* the events of the audit chain, in order
    invites,    \* token -> InviteRecord
    referrals,  \* the referral ledger
    grants,     \* role assertions in circulation, not expired
    fetched,    \* history: wallet -> envelopes it has drained, in order
    acks,       \* history: the Ok(seq) answers of submit, onboard, offboard
    mints       \* history: token -> number of times it was published

vars == <<sessions, groups, mailboxes, audit, invites, referrals, grants,
          fetched, acks, mints>>

inviteVars == <<invites, referrals, mints>>

-----------------------------------------------------------------------------
Kinds == {"Welcome", "Commit", "Proposal", "Application"}

Envelope == [group : Groups, epoch : Nat, kind : Kinds, sender : Wallets,
             recipients : Seq(Wallets), ct : Ciphertexts, seq : Nat]

Hashes == UNION {[D -> Ciphertexts] : D \in SUBSET (1..MaxEpoch)}

GroupState == [members           : SUBSET Wallets,
               current_epoch     : Nat,
               next_seq          : Nat,
               accepted_commit   : Hashes,
               ratchet_tree      : Nat,
               log               : Seq(Envelope),
               creator           : Wallets,
               grant_generations : [Wallets -> Nat]]

AuditTypes == {"GroupCreated", "MemberAdded", "MemberRemoved", "RoleRevoked",
               "EnvelopeReceipt"}

(* "n" is the group_seq of a receipt and the epoch of a membership event.  *)
AuditEvent == [type : AuditTypes, group : Groups, who : Wallets, n : Nat]

Event(t, g, w, n) == [type |-> t, group |-> g, who |-> w, n |-> n]

InviteRecord == [group : Groups, inviter : Wallets, consumed : BOOLEAN,
                 revoked : BOOLEAN, expired : BOOLEAN]

ReferralRecord == [inviter : Wallets, joiner : Wallets, group : Groups,
                   token : Tokens]

Roles == {"Owner", "Admin", "Member", "Partner", "Guest", "Agent"}

(* "removals" is not part of the assertion: it records, for the properties,*)
(* how often the subject had been removed when the grant was signed.       *)
RoleAssertion == [issuer : Wallets, subject : Wallets, role : GrantRoles,
                  scope : Groups, generation : Nat, removals : Nat]

(* HashMap::insert *)
Put(f, k, v) == [x \in DOMAIN f \cup {k} |-> IF x = k THEN v ELSE f[x]]

(* How often the audit chain records w's removal from g. *)
Removals(g, w) ==
    Cardinality({i \in DOMAIN audit : audit[i].type = "MemberRemoved"
                                      /\ audit[i].group = g
                                      /\ audit[i].who = w})

-----------------------------------------------------------------------------
(* Role grants: comms-core rbac.                                           *)

(* can, for the two capabilities the relay asks about (AddMember and       *)
(* RemoveMember): the same roles hold both.                                *)
CanChangeMembership(role) == role \in {"Owner", "Admin"}

(* verify_grant_for_group; expired assertions have left grants.            *)
VerifyGrantForGroup(a, subject, g, generation) ==
    /\ a.subject = subject
    /\ a.issuer = Owner
    /\ a.scope = g
    /\ a.generation = generation

GrantAuthorizes(a, admin, g) ==
    /\ VerifyGrantForGroup(a, admin, g, groups[g].grant_generations[admin])
    /\ CanChangeMembership(a.role)

CreatorAuthorizes(admin, g) ==
    /\ groups[g].creator = admin
    /\ groups[g].grant_generations[admin] = 0

(* authorize_membership_op *)
Authorized(admin, g) ==
    \/ admin = Owner
    \/ CreatorAuthorizes(admin, g)
    \/ \E a \in grants : GrantAuthorizes(a, admin, g)

-----------------------------------------------------------------------------
(* One group's state.                                                      *)

NewGroup(creator) ==
    [members           |-> {creator},
     current_epoch     |-> 0,
     next_seq          |-> 0,
     accepted_commit   |-> [e \in {} |-> 0],
     ratchet_tree      |-> 0,
     log               |-> <<>>,
     creator           |-> creator,
     grant_generations |-> [w \in Wallets |-> 0]]

(* Mutant: a removal that leaves the grants of the removed wallet alive. *)
EndMembershipKeepsGrants(s, w) == [s EXCEPT !.members = @ \ {w}]

end_membership(s, w) ==
    [s EXCEPT !.members = @ \ {w},
              !.grant_generations[w] = @ + 1]

(* The checks of submit_as and submit that precede the Commit ordering.    *)
Admissible(s, d) ==
    /\ d.sender \in sessions
    /\ d.sender \in s.members
    /\ Len(d.recipients) <= MAX_RECIPIENTS
    /\ \A i \in DOMAIN d.recipients : d.recipients[i] \in s.members

(* A Commit that the epoch already accepted, byte for byte (B014).         *)
IsReplay(s, d) ==
    /\ d.kind = "Commit"
    /\ d.epoch \in DOMAIN s.accepted_commit
    /\ s.accepted_commit[d.epoch] = d.ct

(* Mutant: any epoch without a Commit may be taken. *)
OrderOkGaps(s, d) ==
    d.kind = "Commit" => d.epoch \notin DOMAIN s.accepted_commit

(* Mutant: an identical Commit falls through to the append. *)
OrderOkReplayFallsThrough(s, d) ==
    d.kind = "Commit" => \/ IsReplay(s, d)
                         \/ d.epoch = s.current_epoch + 1

(* A Commit for an epoch that has none must be the next one (R1, A003).    *)
OrderOk(s, d) ==
    d.kind = "Commit" => /\ d.epoch \notin DOMAIN s.accepted_commit
                         /\ d.epoch = s.current_epoch + 1

CommitPositions(s, e) ==
    {i \in DOMAIN s.log : s.log[i].kind = "Commit" /\ s.log[i].epoch = e}

(* Mutant: a replay is answered with the seq the next envelope will get. *)
PriorSeqNext(s, d) == s.next_seq

(* log.iter().find(...): the first Commit of that epoch. *)
PriorSeq(s, d) ==
    s.log[CHOOSE i \in CommitPositions(s, d.epoch) :
             \A j \in CommitPositions(s, d.epoch) : i <= j].seq

Stamp(s, d) == [d EXCEPT !.seq = s.next_seq]

(* Mutant: the Commit is recorded under the epoch it leaves. *)
AppendedUnderOldEpoch(s, d) ==
    [s EXCEPT
       !.accepted_commit = IF d.kind = "Commit" THEN Put(@, s.current_epoch, d.ct) ELSE @,
       !.current_epoch   = IF d.kind = "Commit" THEN d.epoch ELSE @,
       !.next_seq        = @ + 1,
       !.log             = Append(@, Stamp(s, d))]

Appended(s, d) ==
    [s EXCEPT
       !.accepted_commit = IF d.kind = "Commit" THEN Put(@, d.epoch, d.ct) ELSE @,
       !.current_epoch   = IF d.kind = "Commit" THEN d.epoch ELSE @,
       !.next_seq        = @ + 1,
       !.log             = Append(@, Stamp(s, d))]

Draft(g, e, k, w, R, c) ==
    [group |-> g, epoch |-> e, kind |-> k, sender |-> w, recipients |-> R,
     ct |-> c, seq |-> 0]

(* Nobody removes a repeated name from the list.                           *)
Copies(env, w) == Cardinality({i \in DOMAIN env.recipients : env.recipients[i] = w})

(* Mutant: the copies are made before group_seq is assigned. *)
FanOutUnstamped(env) ==
    [w \in Wallets |-> mailboxes[w] \o [i \in 1..Copies(env, w) |-> [env EXCEPT !.seq = 0]]]

FanOut(env) ==
    [w \in Wallets |-> mailboxes[w] \o [i \in 1..Copies(env, w) |-> env]]

Receipt(env) == Event("EnvelopeReceipt", env.group, env.sender, env.seq)

Ack(d, seq) == [group |-> d.group, kind |-> d.kind, epoch |-> d.epoch,
                ct |-> d.ct, seq |-> seq]

(* submit on the append path, from a group in state s: the caller says what *)
(* the group is afterwards and which events follow the receipt.             *)
Deliver(s, d, after, events) ==
    /\ Len(s.log) < MaxLog
    /\ groups' = [groups EXCEPT ![d.group] = after]
    /\ mailboxes' = FanOut(Stamp(s, d))
    /\ audit' = audit \o <<Receipt(Stamp(s, d))>> \o events
    /\ acks' = acks \cup {Ack(d, s.next_seq)}

-----------------------------------------------------------------------------
Init ==
    /\ sessions = {}
    /\ groups = [g \in {} |-> NewGroup(Owner)]
    /\ mailboxes = [w \in Wallets |-> <<>>]
    /\ audit = <<>>
    /\ invites = [t \in {} |-> 0]
    /\ referrals = <<>>
    /\ grants = {}
    /\ fetched = [w \in Wallets |-> <<>>]
    /\ acks = {}
    /\ mints = [t \in Tokens |-> 0]

(* A verified SIWE login; the challenge itself is KeyDirectory's.     *)
Authenticate(w) ==
    /\ sessions' = sessions \cup {w}
    /\ UNCHANGED <<groups, mailboxes, audit, grants, fetched, acks, inviteVars>>

EndSession(w) ==
    /\ w \in sessions
    /\ sessions' = sessions \ {w}
    /\ UNCHANGED <<groups, mailboxes, audit, grants, fetched, acks, inviteVars>>

RegisterGroup(creator, g) ==
    /\ creator \in sessions
    /\ g \notin DOMAIN groups
    /\ groups' = Put(groups, g, NewGroup(creator))
    /\ audit' = Append(audit, Event("GroupCreated", g, creator, 0))
    /\ UNCHANGED <<sessions, mailboxes, grants, fetched, acks, inviteVars>>

(* submit_as of an envelope that is new to the log. *)
Submit(d) ==
    /\ d.group \in DOMAIN groups
    /\ Admissible(groups[d.group], d)
    /\ OrderOk(groups[d.group], d)
    /\ Deliver(groups[d.group], d, Appended(groups[d.group], d), <<>>)
    /\ UNCHANGED <<sessions, grants, fetched, inviteVars>>

(* submit_as of the Commit the epoch has accepted: answered with its seq.   *)
SubmitReplay(d) ==
    /\ d.group \in DOMAIN groups
    /\ Admissible(groups[d.group], d)
    /\ IsReplay(groups[d.group], d)
    /\ CommitPositions(groups[d.group], d.epoch) # {}
    /\ acks' = acks \cup {Ack(d, PriorSeq(groups[d.group], d))}
    /\ UNCHANGED <<sessions, groups, mailboxes, audit, grants, fetched, inviteVars>>

(* onboard: the joiner is on the roster before the Welcome is submitted.    *)
WithMember(s, w) == [s EXCEPT !.members = @ \cup {w}]

MayOnboard(admin, g) ==
    /\ admin \in sessions
    /\ g \in DOMAIN groups
    /\ Authorized(admin, g)
    /\ admin \in groups[g].members

Onboard(joiner, d) ==
    /\ d.kind = "Welcome"
    /\ MayOnboard(d.sender, d.group)
    /\ LET s == WithMember(groups[d.group], joiner) IN
         /\ Admissible(s, d)
         /\ Deliver(s, d,
                    [Appended(s, d) EXCEPT !.ratchet_tree = s.current_epoch],
                    <<Event("MemberAdded", d.group, joiner, s.current_epoch)>>)
    /\ UNCHANGED <<sessions, grants, fetched, inviteVars>>

(* Mutant: the roster add is not undone. *)
UndoAddForgotten(s, joiner, newly_added) == s

(* The Welcome is refused after the roster add: the add is undone, if it    *)
(* was one.                                                                 *)
UndoAdd(s, joiner, newly_added) ==
    IF newly_added THEN [s EXCEPT !.members = @ \ {joiner}] ELSE s

OnboardRefused(joiner, d) ==
    /\ d.kind = "Welcome"
    /\ MayOnboard(d.sender, d.group)
    /\ LET s == WithMember(groups[d.group], joiner) IN
         /\ ~Admissible(s, d)
         /\ groups' = [groups EXCEPT ![d.group] =
                         UndoAdd(s, joiner, joiner \notin groups[d.group].members)]
    /\ UNCHANGED <<sessions, mailboxes, audit, grants, fetched, acks, inviteVars>>

(* What offboard does once its Commit is in the log, fresh or replayed. *)
Offboarded(s, removed) ==
    [end_membership(s, removed) EXCEPT !.ratchet_tree = s.current_epoch]

(* Mutant: the removal is not audited. *)
OffboardEventsRoleOnly(s, g, removed) == <<Event("RoleRevoked", g, removed, 0)>>

OffboardEvents(s, g, removed) ==
    <<Event("MemberRemoved", g, removed, s.current_epoch),
      Event("RoleRevoked", g, removed, 0)>>

MayOffboard(admin, g, removed) ==
    /\ admin \in sessions
    /\ removed = Owner => admin = Owner
    /\ g \in DOMAIN groups
    /\ Authorized(admin, g)
    /\ {admin, removed} \subseteq groups[g].members

Offboard(removed, d) ==
    /\ d.kind = "Commit"
    /\ MayOffboard(d.sender, d.group, removed)
    /\ LET s == groups[d.group]
           t == Appended(s, d)
       IN /\ Admissible(s, d)
          /\ OrderOk(s, d)
          /\ Deliver(s, d, Offboarded(t, removed),
                     OffboardEvents(t, d.group, removed))
    /\ sessions' = sessions \ {removed}
    /\ UNCHANGED <<grants, fetched, inviteVars>>

(* offboard with the Commit an epoch has already accepted: nothing is      *)
(* appended, the member leaves all the same.                               *)
OffboardReplay(removed, d) ==
    /\ d.kind = "Commit"
    /\ MayOffboard(d.sender, d.group, removed)
    /\ LET s == groups[d.group] IN
         /\ Admissible(s, d)
         /\ IsReplay(s, d)
         /\ CommitPositions(s, d.epoch) # {}
         /\ groups' = [groups EXCEPT ![d.group] = Offboarded(s, removed)]
         /\ audit' = audit \o OffboardEvents(s, d.group, removed)
         /\ acks' = acks \cup {Ack(d, PriorSeq(s, d))}
    /\ sessions' = sessions \ {removed}
    /\ UNCHANGED <<mailboxes, grants, fetched, inviteVars>>

Fetch(w) ==
    /\ mailboxes[w] # <<>>
    /\ fetched' = [fetched EXCEPT ![w] = @ \o mailboxes[w]]
    /\ mailboxes' = [mailboxes EXCEPT ![w] = <<>>]
    /\ UNCHANGED <<sessions, groups, audit, grants, acks, inviteVars>>

-----------------------------------------------------------------------------
(* Invites.                                                                *)

PublishInvite(inviter, g, t) ==
    /\ inviter \in sessions
    /\ g \in DOMAIN groups
    /\ inviter \in groups[g].members
    /\ t \in DOMAIN invites \/ Cardinality(DOMAIN invites) < MAX_INVITES
    /\ mints[t] < MaxMints
    /\ invites' = Put(invites, t, [group |-> g, inviter |-> inviter,
                                   consumed |-> FALSE, revoked |-> FALSE,
                                   expired |-> FALSE])
    /\ mints' = [mints EXCEPT ![t] = @ + 1]
    /\ UNCHANGED <<sessions, groups, mailboxes, audit, referrals, grants,
                   fetched, acks>>

(* report_used only turns the answer for a spent invite into an error.     *)
RevokeInvite(caller, t, report_used) ==
    /\ caller \in sessions
    /\ t \in DOMAIN invites
    /\ invites[t].inviter = caller
    /\ ~(report_used /\ invites[t].consumed)
    /\ invites' = [invites EXCEPT ![t].revoked = TRUE]
    /\ UNCHANGED <<sessions, groups, mailboxes, audit, referrals, grants,
                   fetched, acks, mints>>

(* Mutant: a consumed invite is redeemed again. *)
RedeemableAgain(t, g) ==
    /\ t \in DOMAIN invites
    /\ invites[t].group = g
    /\ ~invites[t].revoked
    /\ ~invites[t].expired

Redeemable(t, g) ==
    /\ t \in DOMAIN invites
    /\ invites[t].group = g
    /\ ~invites[t].revoked
    /\ ~invites[t].consumed
    /\ ~invites[t].expired

(* redeem_invite asks for no session: the connection has authenticated.    *)
RedeemInvite(joiner, g, t) ==
    /\ Redeemable(t, g)
    /\ g \in DOMAIN groups
    /\ Len(referrals) < MaxReferrals
    /\ groups' = [groups EXCEPT ![g] = WithMember(@, joiner)]
    /\ invites' = [invites EXCEPT ![t].consumed = TRUE]
    /\ referrals' = Append(referrals, [inviter |-> invites[t].inviter,
                                       joiner |-> joiner, group |-> g,
                                       token |-> t])
    /\ UNCHANGED <<sessions, mailboxes, audit, grants, fetched, acks, mints>>

ExpireInvite(t) ==
    /\ t \in DOMAIN invites
    /\ ~invites[t].expired
    /\ invites' = [invites EXCEPT ![t].expired = TRUE]
    /\ UNCHANGED <<sessions, groups, mailboxes, audit, referrals, grants,
                   fetched, acks, mints>>

-----------------------------------------------------------------------------
(* Grants are signed outside the relay (sign_group_grant), for the          *)
(* generation the issuer last read, which may be an old one.                *)
SignGrant(issuer, subject, role, g, generation) ==
    /\ g \in DOMAIN groups
    /\ Cardinality(grants) < MaxGrants
    /\ generation <= groups[g].grant_generations[subject]
    /\ grants' = grants \cup
         {[issuer |-> issuer, subject |-> subject, role |-> role, scope |-> g,
           generation |-> generation, removals |-> Removals(g, subject)]}
    /\ UNCHANGED <<sessions, groups, mailboxes, audit, fetched, acks, inviteVars>>

ExpireGrant(a) ==
    /\ grants' = grants \ {a}
    /\ UNCHANGED <<sessions, groups, mailboxes, audit, fetched, acks, inviteVars>>

-----------------------------------------------------------------------------
(* The envelopes clients send: a Commit names its epoch. *)
Commits == {Draft(g, e, "Commit", w, R, c) :
              g \in Groups, e \in 1..MaxEpoch, w \in Wallets,
              R \in RecipientLists, c \in Ciphertexts}

Others(k) == {Draft(g, groups[g].current_epoch, k, w, R, c) :
                g \in DOMAIN groups, w \in Wallets,
                R \in RecipientLists, c \in Ciphertexts}

Submissions == UNION {IF k = "Commit" THEN Commits ELSE Others(k) : k \in SubmitKinds}

Next ==
    \/ \E w \in Wallets : Authenticate(w) \/ EndSession(w) \/ Fetch(w)
    \/ \E w \in Wallets, g \in Groups : RegisterGroup(w, g)
    \/ \E d \in Submissions : Submit(d)
    \/ \E d \in Submissions : SubmitReplay(d)
    \/ \E w \in Wallets, d \in Others("Welcome") : Onboard(w, d)
    \/ \E w \in Wallets, d \in Others("Welcome") : OnboardRefused(w, d)
    \/ \E w \in Wallets, d \in Commits : Offboard(w, d)
    \/ \E w \in Wallets, d \in Commits : OffboardReplay(w, d)
    \/ \E w \in Wallets, g \in Groups, t \in Tokens : PublishInvite(w, g, t)
    \/ \E w \in Wallets, t \in Tokens, b \in BOOLEAN : RevokeInvite(w, t, b)
    \/ \E w \in Wallets, g \in Groups, t \in Tokens : RedeemInvite(w, g, t)
    \/ \E t \in Tokens : ExpireInvite(t)
    \/ \E i, w \in Wallets, r \in GrantRoles, g \in Groups, n \in 0..MaxEpoch :
          SignGrant(i, w, r, g, n)
    \/ \E a \in grants : ExpireGrant(a)

Spec == Init /\ [][Next]_vars
-----------------------------------------------------------------------------
(* Properties.                                                             *)

(* Every variable holds a value of its Rust type.                          *)
TypeOK ==
    /\ sessions \subseteq Wallets
    /\ DOMAIN groups \subseteq Groups
    /\ \A g \in DOMAIN groups : groups[g] \in GroupState
    /\ mailboxes \in [Wallets -> Seq(Envelope)]
    /\ audit \in Seq(AuditEvent)
    /\ DOMAIN invites \subseteq Tokens
    /\ \A t \in DOMAIN invites : invites[t] \in InviteRecord
    /\ referrals \in Seq(ReferralRecord)
    /\ grants \subseteq RoleAssertion
    /\ fetched \in [Wallets -> Seq(Envelope)]
    /\ mints \in [Tokens -> Nat]

(* submit hands out group_seq without gaps or repeats: the log of a group   *)
(* is 0, 1, 2, ... and next_seq is its length, whatever mixture of submits, *)
(* onboards, offboards and replays produced it.                             *)
SeqOrder(s) ==
    /\ s.next_seq = Len(s.log)
    /\ \A i \in DOMAIN s.log : s.log[i].seq = i - 1

(* The epochs with an accepted Commit are 1..current_epoch; each has its    *)
(* Commit in the log, with the accepted ciphertext.                         *)
CommitsLogged(s) ==
    /\ DOMAIN s.accepted_commit = 1..s.current_epoch
    /\ \A e \in 1..s.current_epoch :
         \E i \in CommitPositions(s, e) : s.log[i].ct = s.accepted_commit[e]

(* The Commits of a log are in strictly increasing epoch order and none is  *)
(* beyond current_epoch: an epoch has one Commit, and a replay (B014) never *)
(* reaches the log again.                                                   *)
CommitsOrdered(s) ==
    \A i \in DOMAIN s.log : s.log[i].kind = "Commit" =>
        /\ s.log[i].epoch \in 1..s.current_epoch
        /\ \A j \in DOMAIN s.log :
             j < i /\ s.log[j].kind = "Commit" => s.log[j].epoch < s.log[i].epoch

(* Every group has one total order of envelopes and, in it, one chain of    *)
(* Commits, first writer wins (R1): what submit promises.                   *)
TotalOrder ==
    \A g \in DOMAIN groups :
        SeqOrder(groups[g]) /\ CommitsLogged(groups[g]) /\ CommitsOrdered(groups[g])

(* Every Ok(seq) a client was given, first time or replay, names the place  *)
(* in the log where that very envelope stands, for good.                    *)
AcksName ==
    \A a \in acks :
        LET s == groups[a.group] IN
        /\ a.seq + 1 \in DOMAIN s.log
        /\ Ack(s.log[a.seq + 1], a.seq) = a

(* What a wallet has drained and will drain, in order.                      *)
Drained(w) == fetched[w] \o mailboxes[w]

(* A wallet drains, over its whole life and across offboards, exactly the   *)
(* envelopes of each group's log that name it, in log order, each as often  *)
(* as its list of recipients names the wallet (the list is not            *)
(* deduplicated by anyone, so a name that stands twice is delivered twice). *)
DeliveredInOrder ==
    \A w \in Wallets, g \in DOMAIN groups :
        LET log == groups[g].log
            OfGroup == {i \in DOMAIN Drained(w) : Drained(w)[i].group = g}
        IN /\ \A i \in OfGroup : LET env == Drained(w)[i] IN
                env.seq + 1 \in DOMAIN log /\ log[env.seq + 1] = env
           /\ \A i, j \in OfGroup : i < j => Drained(w)[i].seq <= Drained(w)[j].seq
           /\ \A k \in DOMAIN log :
                Cardinality({i \in OfGroup : Drained(w)[i].seq = k - 1}) = Copies(log[k], w)

AdmittedByAudit(g, w) ==
    \E i \in DOMAIN audit :
        /\ audit[i].type \in {"GroupCreated", "MemberAdded"}
        /\ audit[i].group = g /\ audit[i].who = w
        /\ \A j \in DOMAIN audit :
              j > i => ~(audit[j].type = "MemberRemoved"
                         /\ audit[j].group = g /\ audit[j].who = w)

ReferredInto(g, w) ==
    \E i \in DOMAIN referrals : referrals[i].group = g /\ referrals[i].joiner = w

(* A roster and its paper trail agree: who the audit chain admitted last is *)
(* on it, and who is on it was admitted by the chain since the last removal *)
(* or has a referral row (redeem_invite is not audited).  A Welcome refused *)
(* halfway through onboard leaves nobody behind on the roster.              *)
RosterAccounted ==
    \A g \in DOMAIN groups, w \in Wallets :
        /\ w \in groups[g].members => AdmittedByAudit(g, w) \/ ReferredInto(g, w)
        /\ AdmittedByAudit(g, w) => w \in groups[g].members

(* Authority ends with the membership it was given to: a grant the relay    *)
(* would honour was signed after the last removal of its subject, and a     *)
(* creator who was ever removed has no creator authority left, however they *)
(* came back on the roster (onboard or invite).                             *)
AuthorityEndsWithMembership ==
    \A g \in DOMAIN groups :
        /\ \A a \in grants :
             GrantAuthorizes(a, a.subject, g) => a.removals = Removals(g, a.subject)
        /\ \A w \in Wallets : CreatorAuthorizes(w, g) => Removals(g, w) = 0

Redemptions(t) == Cardinality({i \in DOMAIN referrals : referrals[i].token = t})

(* One publication of a token admits at most one wallet: redemptions never  *)
(* outnumber publications, and an invite still open has one in hand.        *)
InviteSingleUse ==
    \A t \in DOMAIN invites :
        IF Redeemable(t, invites[t].group) THEN Redemptions(t) < mints[t]
                                           ELSE Redemptions(t) <= mints[t]

(* Acknowledgements and mailboxes show each wallet the group's one order.   *)
DeliveredAsOrdered == AcksName /\ DeliveredInOrder

(* Who is in, who may act and who was let in agree, in well-formed groups.  *)
MembershipAccounted ==
    TypeOK /\ RosterAccounted /\ AuthorityEndsWithMembership /\ InviteSingleUse

(* What the total order promises, without how: module OrderedLog.           *)
OrderOf(s)   == [i \in DOMAIN s.log |-> [kind |-> s.log[i].kind, ct |-> s.log[i].ct]]
DecidedOf(s) == [e \in 1..s.current_epoch |-> s.accepted_commit[e]]

OrderBar   == [g \in Groups |-> IF g \in DOMAIN groups THEN OrderOf(groups[g]) ELSE <<>>]
DecidedBar == [g \in Groups |-> IF g \in DOMAIN groups THEN DecidedOf(groups[g]) ELSE <<>>]

Abstract == INSTANCE OrderedLog WITH order <- OrderBar, decided <- DecidedBar

(* The relay implements the ordered log: every step of every method appends *)
(* one envelope to one group's order, deciding the next epoch if it is a    *)
(* Commit, or leaves all orders alone.                                      *)
RefinesOrderedLog == Abstract!Spec

-----------------------------------------------------------------------------
(* Statements of the repository that the code does not meet; the README says *)
(* how each one fails.                                                       *)

(* A roster is never larger than one submit may address, so that a member   *)
(* can always reach the whole group (MAX_RECIPIENTS: "a group larger than   *)
(* this cannot exist").                                                     *)
RosterFitsFanOut ==
    \A g \in DOMAIN groups : Cardinality(groups[g].members) <= MAX_RECIPIENTS
=============================================================================

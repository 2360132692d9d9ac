---------------------------- MODULE MemberDaemon ----------------------------
(***************************************************************************)
(* Several member daemons (src/crates/comms-member-daemon/src/lib.rs) on   *)
(* one shared relay.                                                       *)
(*                                                                         *)
(* A daemon is synchronous: it runs one operation at a time, and between   *)
(* two relay calls of one operation the other daemons run.  An operation   *)
(* is therefore one action per relay call; local work is part of the call  *)
(* it precedes.  persist_state is a step of its own where a crash before   *)
(* it can be told from a crash after it.  The relay is what Relay shows it *)
(* to be: one accepted Commit per epoch, a roster, a FIFO mailbox each.    *)
(*                                                                         *)
(* MLS is abstracted to what its handles agree on: "hist" is the sequence  *)
(* of Commits merged since the group was created, and two handles hold the *)
(* same epoch secret exactly when their hist is the same.  The epoch       *)
(* number is Len(hist), in the handle and in GroupState.epoch alike.  Only *)
(* the group's owner changes membership; no relay call is lost in transit. *)
(***************************************************************************)
EXTENDS Naturals, FiniteSets, SequencesExt

CONSTANTS Wallets, Owner, Groups, Tokens,
          INBOX_CAP,
          MaxCommits, MaxSends, MaxCrashes      \* bounds

ASSUME DaemonAssumption ==
    Owner \in Wallets /\ INBOX_CAP \in Nat /\ {MaxCommits, MaxSends, MaxCrashes} \subseteq Nat

VARIABLES
    groups,     \* wallet -> group -> GroupState, the daemon's registry
    inbox,      \* wallet -> envelopes fetched and not consumed yet
    disk,       \* wallet -> the registry the state file holds
    op,         \* wallet -> the operation in progress
    roster,     \* relay: group -> routing roster
    order,      \* relay: group -> ids of the accepted Commits, in order
    mail,       \* relay: wallet -> undelivered envelopes
    packages,   \* relay: wallet -> KeyPackages left
    invites,    \* relay: token -> invite
    commits,    \* Commits built so far (their ids)
    sent,       \* history: every message sealed, in order
    shown,      \* history: wallet -> messages (indices into sent) returned
    crashes,
    torn        \* history: a process has stopped inside an operation

daemonVars == <<groups, inbox, disk, op>>
relayVars  == <<roster, order, mail, packages, invites>>
vars == <<daemonVars, relayVars, commits, sent, shown, crashes, torn>>

-----------------------------------------------------------------------------
Idle    == [pc |-> "idle"]
Persist == [pc |-> "persist"]

NoGroups == [g \in {} |-> 0]

Put(f, k, v) == [x \in DOMAIN f \cup {k} |-> IF x = k THEN v ELSE f[x]]

(* "hist" is the history a Commit extends, a Welcome opens, or an          *)
(* Application was sealed at; "id" the Commit, or the index into sent.     *)
Envelope(kind, g, w, hist, tree, id, gen) ==
    [kind |-> kind, group |-> g, sender |-> w, hist |-> hist, tree |-> tree,
     id |-> id, gen |-> gen]

(* A handle that has just reached hist: its ratchets start again.          *)
Handle(hist, tree, members) ==
    [hist |-> hist, tree |-> tree, gen |-> 0, used |-> {}, members |-> members]

(* GroupState::recipients *)
Recipients(h, w) == h.members \ {w}

Deliver(R, e) == [w \in Wallets |-> IF w \in R THEN Append(mail[w], e) ELSE mail[w]]

(* Mutant: recipients are not held against the roster. *)
AdmissibleAnyRecipient(g, w, R) == w \in roster[g]

(* The relay's checks of a submission (Relay!Admissible, Relay!OrderOk):   *)
(* it compares epoch numbers, it cannot compare histories.                 *)
Admissible(g, w, R) == w \in roster[g] /\ R \subseteq roster[g]

NextEpoch(g, hist) == Len(hist) = Len(order[g])

(* Mutant: what was fetched now comes before what was left over. *)
TakeInboxFreshFirst(w, k) == SubSeq(mail[w], 1, k) \o inbox[w]

(* take_inbox: the leftovers, then the k envelopes the relay has pushed so *)
(* far (fetch stops at the first 20 ms without one).                       *)
TakeInbox(w, k) == inbox[w] \o SubSeq(mail[w], 1, k)

(* The items of s at the positions in S, in their order. *)
Picked(s, S) ==
    [n \in 1..Cardinality(S) |-> s[CHOOSE i \in S : Cardinality({j \in S : j < i}) = n - 1]]

(* What stash keeps: what belongs to a group of the registry gs, and       *)
(* every Welcome.                                                          *)
Known(gs, envs) == Picked(envs, {i \in DOMAIN envs : envs[i].group \in DOMAIN gs \/ envs[i].kind = "Welcome"})

(* Mutant: everything that is not a Welcome is dropped. *)
StashWelcomes(gs, envs) == Picked(envs, {i \in DOMAIN envs : envs[i].kind = "Welcome"})

(* stash, onto the inbox that take_inbox has emptied: the oldest overflow. *)
Stash(gs, envs) ==
    LET all == Known(gs, envs)
        excess == IF Len(all) > INBOX_CAP THEN Len(all) - INBOX_CAP ELSE 0
    IN SubSeq(all, excess + 1, Len(all))

-----------------------------------------------------------------------------
Init ==
    /\ groups = [w \in Wallets |-> NoGroups]
    /\ inbox = [w \in Wallets |-> <<>>]
    /\ disk = [w \in Wallets |-> NoGroups]
    /\ op = [w \in Wallets |-> Idle]
    /\ roster = [g \in Groups |-> {}]
    /\ order = [g \in Groups |-> <<>>]
    /\ mail = [w \in Wallets |-> <<>>]
    /\ packages = [w \in Wallets |-> 1]
    /\ invites = [t \in {} |-> 0]
    /\ commits = 0
    /\ sent = <<>>
    /\ shown = [w \in Wallets |-> <<>>]
    /\ crashes = 0
    /\ torn = FALSE

Set(f, w, v) == [f EXCEPT ![w] = v]

(* The daemon of w puts handle h into its registry. *)
SetGroup(w, g, h) == groups' = Set(groups, w, Put(groups[w], g, h))

(* create_group: register_group and the registry row. *)
CreateGroup(g) ==
    /\ op[Owner] = Idle
    /\ roster[g] = {}
    /\ roster' = Set(roster, g, {Owner})
    /\ SetGroup(Owner, g, Handle(<<>>, {Owner}, {Owner}))
    /\ op' = Set(op, Owner, Persist)
    /\ UNCHANGED <<inbox, disk, order, mail, packages, invites, commits, sent,
                   shown, crashes, torn>>

(* persist_state, and the operation returns. *)
PersistState(w) ==
    /\ op[w] = Persist
    /\ disk' = Set(disk, w, groups[w])
    /\ op' = Set(op, w, Idle)
    /\ UNCHANGED <<groups, inbox, relayVars, commits, sent, shown, crashes, torn>>

(* add_member: take_key_package. *)
AddMember(g, w) ==
    /\ op[Owner] = Idle
    /\ g \in DOMAIN groups[Owner]
    /\ w \notin groups[Owner][g].tree
    /\ packages[w] > 0
    /\ packages' = [packages EXCEPT ![w] = @ - 1]
    /\ op' = Set(op, Owner, [pc |-> "commit", group |-> g, who |-> w])
    /\ UNCHANGED <<groups, inbox, disk, roster, order, mail, invites, commits,
                   sent, shown, crashes, torn>>

(* add_member: the Commit is merged, then submitted; if the relay refuses  *)
(* it the operation returns, with the Commit still merged.                 *)
SubmitAdd ==
    /\ op[Owner].pc = "commit"
    /\ commits < MaxCommits
    /\ commits' = commits + 1
    /\ LET g == op[Owner].group
           w == op[Owner].who
           h == groups[Owner][g]
           new == Handle(Append(h.hist, commits'), h.tree \cup {w}, h.members \cup {w})
           R == Recipients(h, Owner)
           ok == Admissible(g, Owner, R) /\ NextEpoch(g, h.hist)
       IN /\ SetGroup(Owner, g, new)
          /\ IF ok
               THEN /\ order' = Set(order, g, Append(order[g], commits'))
                    /\ mail' = Deliver(R, Envelope("Commit", g, Owner, h.hist,
                                                   new.tree, commits', 0))
                    /\ op' = Set(op, Owner, [pc |-> "onboard", group |-> g, who |-> w])
               ELSE /\ op' = Set(op, Owner, Idle)
                    /\ UNCHANGED <<order, mail>>
    /\ UNCHANGED <<inbox, disk, roster, packages, invites, sent, shown, crashes, torn>>

(* add_member: onboard.  The relay adds the joiner to the roster and puts  *)
(* the Welcome into its mailbox.                                           *)
Onboard ==
    /\ op[Owner].pc = "onboard"
    /\ LET g == op[Owner].group
           w == op[Owner].who
           h == groups[Owner][g]
       IN /\ roster' = Set(roster, g, roster[g] \cup {w})
          /\ mail' = Deliver({w}, Envelope("Welcome", g, Owner, h.hist, h.tree, 0, 0))
    /\ op' = Set(op, Owner, Persist)
    /\ UNCHANGED <<groups, inbox, disk, order, packages, invites, commits, sent,
                   shown, crashes, torn>>

(* offboard: merged, then one relay call that also drops the roster entry. *)
Offboard(g, w) ==
    /\ op[Owner] = Idle
    /\ g \in DOMAIN groups[Owner]
    /\ w # Owner
    /\ w \in groups[Owner][g].members \cap groups[Owner][g].tree
    /\ commits < MaxCommits
    /\ commits' = commits + 1
    /\ LET h == groups[Owner][g]
           new == Handle(Append(h.hist, commits'), h.tree \ {w}, h.members \ {w})
           R == Recipients(new, Owner)
           ok == /\ w \in roster[g]
                 /\ Admissible(g, Owner, R)
                 /\ NextEpoch(g, h.hist)
       IN /\ SetGroup(Owner, g, new)
          /\ IF ok
               THEN /\ order' = Set(order, g, Append(order[g], commits'))
                    /\ mail' = Deliver(R, Envelope("Commit", g, Owner, h.hist,
                                                   new.tree, commits', 0))
                    /\ roster' = Set(roster, g, roster[g] \ {w})
                    /\ op' = Set(op, Owner, Persist)
               ELSE /\ op' = Set(op, Owner, Idle)
                    /\ UNCHANGED <<order, mail, roster>>
    /\ UNCHANGED <<inbox, disk, packages, invites, sent, shown, crashes, torn>>

(* Mutant: a message that was sent is not followed by a snapshot. *)
AfterSendIdle == Idle

(* What follows an accepted submission: persist_state. *)
AfterSend == Persist

(* send: seal at the next generation, submit; a refusal returns early.     *)
Send(w, g) ==
    /\ op[w] = Idle
    /\ g \in DOMAIN groups[w]
    /\ Len(sent) < MaxSends
    /\ LET h == groups[w][g]
           R == Recipients(h, w)
           ok == Admissible(g, w, R)
       IN /\ SetGroup(w, g, [h EXCEPT !.gen = @ + 1])
          /\ sent' = Append(sent, [group |-> g, sender |-> w, hist |-> h.hist,
                                   gen |-> h.gen, accepted |-> ok,
                                   roster |-> roster[g]])
          /\ mail' = IF ok THEN Deliver(R, Envelope("Application", g, w, h.hist, {},
                                                    Len(sent'), h.gen))
                           ELSE mail
          /\ op' = Set(op, w, IF ok THEN AfterSend ELSE Idle)
    /\ UNCHANGED <<inbox, disk, roster, order, packages, invites, commits, shown,
                   crashes, torn>>

-----------------------------------------------------------------------------
(* poll_messages: one envelope of the loop over what take_inbox returned.  *)

ReconcileRoster(h) == [h EXCEPT !.members = @ \cup h.tree]

Decrypts(h, e) == e.hist = h.hist /\ <<e.sender, e.gen>> \notin h.used

Merges(h, e) == e.hist = h.hist

(* The failing envelope is consumed; the ones after it are kept. *)
PollOne(g, acc, e) ==
    CASE acc.failed \/ e.group # g ->
           [acc EXCEPT !.keep = Append(@, e)]
      [] ~acc.failed /\ e.group = g /\ e.kind = "Welcome" ->
           acc
      [] ~acc.failed /\ e.group = g /\ e.kind = "Commit" ->
           IF Merges(acc.h, e)
             THEN [acc EXCEPT !.h = ReconcileRoster(
                                      Handle(Append(acc.h.hist, e.id), e.tree, acc.h.members)),
                              !.changed = TRUE]
             ELSE [acc EXCEPT !.failed = TRUE]
      [] ~acc.failed /\ e.group = g /\ e.kind = "Application" ->
           IF Decrypts(acc.h, e)
             THEN [acc EXCEPT !.h.used = @ \cup {<<e.sender, e.gen>>},
                              !.out = Append(@, e.id),
                              !.changed = TRUE]
             ELSE [acc EXCEPT !.failed = TRUE]

(* The loop, after each number of envelopes. *)
PollLoop(g, h, all) ==
    LET acc[i \in 0..Len(all)] ==
            IF i = 0 THEN [h |-> h, out |-> <<>>, keep |-> <<>>, failed |-> FALSE, changed |-> FALSE]
            ELSE PollOne(g, acc[i - 1], all[i])
    IN  acc

Poll(w, g, k) ==
    /\ op[w] = Idle
    /\ g \in DOMAIN groups[w]
    /\ k \in 0..Len(mail[w])
    /\ LET all == TakeInbox(w, k)
           res == PollLoop(g, groups[w][g], all)[Len(all)]
       IN /\ all # <<>>
          /\ SetGroup(w, g, res.h)
          /\ inbox' = Set(inbox, w, Stash(groups[w], res.keep))
          (* a failed poll returns the error, and no message *)
          /\ shown' = IF res.failed THEN shown
                                    ELSE Set(shown, w, shown[w] \o res.out)
          /\ op' = Set(op, w, IF res.changed THEN Persist ELSE Idle)
    /\ mail' = Set(mail, w, SubSeq(mail[w], k + 1, Len(mail[w])))
    /\ UNCHANGED <<disk, roster, order, packages, invites, commits, sent, crashes, torn>>

-----------------------------------------------------------------------------
(* Joining from a Welcome.                                                 *)

(* join_with_welcome: the roster is whatever the relay's is by now.  The   *)
(* snapshot is part of it.                                                 *)
JoinWithWelcome(w, e) ==
    LET gs == Put(groups[w], e.group, Handle(e.hist, e.tree, roster[e.group]))
    IN /\ groups' = Set(groups, w, gs)
       /\ disk' = Set(disk, w, gs)

IsWelcomeFor(g, e) == e.kind = "Welcome" /\ e.group = g

(* join_group: the Welcome is taken out and the rest stashed first.  With  *)
(* no Welcome the call fails, after the stash.                             *)
JoinGroup(w, g, k) ==
    /\ op[w] = Idle
    /\ g \notin DOMAIN groups[w]
    /\ k \in 0..Len(mail[w])
    /\ LET all == TakeInbox(w, k)
           pos == {i \in DOMAIN all : IsWelcomeFor(g, all[i])}
       IN /\ all # <<>>
          /\ IF pos = {}
               THEN /\ inbox' = Set(inbox, w, Stash(groups[w], all))
                    /\ op' = op
               ELSE LET i == CHOOSE i \in pos : \A j \in pos : i <= j
                    IN /\ inbox' = Set(inbox, w, Stash(groups[w], RemoveAt(all, i)))
                       /\ op' = Set(op, w, [pc |-> "welcome", env |-> all[i]])
    /\ mail' = Set(mail, w, SubSeq(mail[w], k + 1, Len(mail[w])))
    /\ UNCHANGED <<groups, disk, roster, order, packages, invites, commits, sent,
                   shown, crashes, torn>>

JoinGroupFinish(w) ==
    /\ op[w].pc = "welcome"
    /\ JoinWithWelcome(w, op[w].env)
    /\ op' = Set(op, w, Idle)
    /\ UNCHANGED <<inbox, relayVars, commits, sent, shown, crashes, torn>>

JoinPending(w, k) ==
    /\ op[w] = Idle
    /\ k \in 0..Len(mail[w])
    /\ TakeInbox(w, k) # <<>>
    /\ op' = Set(op, w, [pc |-> "pending", todo |-> TakeInbox(w, k), rest |-> <<>>])
    /\ inbox' = Set(inbox, w, <<>>)
    /\ mail' = Set(mail, w, SubSeq(mail[w], k + 1, Len(mail[w])))
    /\ UNCHANGED <<groups, disk, roster, order, packages, invites, commits, sent,
                   shown, crashes, torn>>

(* join_pending: one envelope of its loop. *)
JoinPendingNext(w) ==
    /\ op[w].pc = "pending"
    /\ op[w].todo # <<>>
    /\ LET e == Head(op[w].todo)
           candidate == e.kind = "Welcome" /\ e.group \notin DOMAIN groups[w]
       IN IF candidate
            THEN /\ JoinWithWelcome(w, e)
                 /\ op' = Set(op, w, [op[w] EXCEPT !.todo = Tail(@)])
            ELSE /\ op' = Set(op, w, [op[w] EXCEPT !.todo = Tail(@),
                                                   !.rest = Append(@, e)])
                 /\ UNCHANGED <<groups, disk>>
    /\ UNCHANGED <<inbox, relayVars, commits, sent, shown, crashes, torn>>

(* join_pending: stash and return. *)
JoinPendingEnd(w) ==
    /\ op[w].pc = "pending"
    /\ op[w].todo = <<>>
    /\ inbox' = Set(inbox, w, Stash(groups[w], op[w].rest))
    /\ op' = Set(op, w, Idle)
    /\ UNCHANGED <<groups, disk, relayVars, commits, sent, shown, crashes, torn>>

-----------------------------------------------------------------------------
(* Invites: the owner publishes a GroupInfo, a token holder joins by       *)
(* external Commit.                                                        *)

PublishInvite(g, t) ==
    /\ op[Owner] = Idle
    /\ g \in DOMAIN groups[Owner]
    /\ t \notin DOMAIN invites
    /\ invites' = Put(invites, t, [group |-> g, hist |-> groups[Owner][g].hist,
                                   tree |-> groups[Owner][g].tree,
                                   consumed |-> FALSE, joiner |-> Owner])
    /\ UNCHANGED <<daemonVars, roster, order, mail, packages, commits, sent,
                   shown, crashes, torn>>

(* redeem_invite: the relay consumes the token and adds the joiner.        *)
RedeemInvite(w, t) ==
    /\ op[w] = Idle
    /\ t \in DOMAIN invites
    /\ ~invites[t].consumed
    /\ invites[t].group \notin DOMAIN groups[w]
    /\ invites' = [invites EXCEPT ![t].consumed = TRUE, ![t].joiner = w]
    /\ roster' = Set(roster, invites[t].group, roster[invites[t].group] \cup {w})
    /\ op' = Set(op, w, [pc |-> "redeem", token |-> t])
    /\ UNCHANGED <<groups, inbox, disk, order, mail, packages, commits, sent,
                   shown, crashes, torn>>

(* redeem_invite: the external Commit, addressed to the relay's roster.    *)
(* A refusal returns before anything is recorded.                          *)
RedeemCommit(w) ==
    /\ op[w].pc = "redeem"
    /\ commits < MaxCommits
    /\ commits' = commits + 1
    /\ LET i == invites[op[w].token]
           g == i.group
           R == roster[g] \ {w}
           ok == Admissible(g, w, R) /\ NextEpoch(g, i.hist)
           new == Handle(Append(i.hist, commits'), i.tree \cup {w}, R \cup {w})
       IN IF ok
            THEN /\ order' = Set(order, g, Append(order[g], commits'))
                 /\ mail' = Deliver(R, Envelope("Commit", g, w, i.hist, new.tree,
                                                commits', 0))
                 /\ SetGroup(w, g, new)
                 /\ op' = Set(op, w, Persist)
            ELSE /\ op' = Set(op, w, Idle)
                 /\ UNCHANGED <<groups, order, mail>>
    /\ UNCHANGED <<inbox, disk, roster, packages, invites, sent, shown, crashes, torn>>

-----------------------------------------------------------------------------
(* The process stops and is started again (build, rehydrate): the registry *)
(* is what the state file holds, the inbox is empty, what the relay had    *)
(* already pushed to the old connection is gone, a KeyPackage is published.*)
Restart(w, k) ==
    /\ crashes < MaxCrashes
    /\ k \in 0..Len(mail[w])
    /\ crashes' = crashes + 1
    /\ torn' = (torn \/ op[w] # Idle)
    /\ groups' = Set(groups, w, disk[w])
    /\ inbox' = Set(inbox, w, <<>>)
    /\ op' = Set(op, w, Idle)
    /\ mail' = Set(mail, w, SubSeq(mail[w], k + 1, Len(mail[w])))
    /\ packages' = [packages EXCEPT ![w] = @ + 1]
    /\ UNCHANGED <<disk, roster, order, invites, commits, sent, shown>>

Next ==
    \/ \E g \in Groups : CreateGroup(g)
    \/ \E g \in Groups, w \in Wallets : AddMember(g, w)
    \/ SubmitAdd
    \/ Onboard
    \/ \E g \in Groups, w \in Wallets : Offboard(g, w)
    \/ \E w \in Wallets, g \in Groups : Send(w, g)
    \/ \E w \in Wallets, g \in Groups : \E k \in 0..Len(mail[w]) : Poll(w, g, k)
    \/ \E w \in Wallets, g \in Groups : \E k \in 0..Len(mail[w]) : JoinGroup(w, g, k)
    \/ \E w \in Wallets : JoinGroupFinish(w)
    \/ \E w \in Wallets : \E k \in 0..Len(mail[w]) : JoinPending(w, k)
    \/ \E w \in Wallets : JoinPendingNext(w)
    \/ \E w \in Wallets : JoinPendingEnd(w)
    \/ \E g \in Groups, t \in Tokens : PublishInvite(g, t)
    \/ \E w \in Wallets, t \in Tokens : RedeemInvite(w, t)
    \/ \E w \in Wallets : RedeemCommit(w)
    \/ \E w \in Wallets : PersistState(w)
    \/ \E w \in Wallets : \E k \in 0..Len(mail[w]) : Restart(w, k)

Spec == Init /\ [][Next]_vars

-----------------------------------------------------------------------------
(* Properties.                                                             *)

Histories == Seq(1..MaxCommits)
GroupState == [hist : Histories, tree : SUBSET Wallets, gen : Nat,
               used : SUBSET (Wallets \X Nat), members : SUBSET Wallets]
IsRegistry(r) == /\ DOMAIN r \subseteq Groups
                 /\ \A g \in DOMAIN r : r[g] \in GroupState
EnvelopeType == [kind : {"Commit", "Welcome", "Application"}, group : Groups,
                 sender : Wallets, hist : Histories, tree : SUBSET Wallets,
                 id : Nat, gen : Nat]

(* TypeOK: the daemons' registries, inboxes and state files, the relay's   *)
(* tables and the histories keep their shapes, and an idle daemon's inbox  *)
(* respects INBOX_CAP.                                                     *)
TypeOK ==
    /\ \A w \in Wallets :
         /\ IsRegistry(groups[w])
         /\ IsRegistry(disk[w])
         /\ inbox[w] \in Seq(EnvelopeType)
         /\ Len(inbox[w]) <= INBOX_CAP
         /\ mail[w] \in Seq(EnvelopeType)
         /\ op[w].pc \in {"idle", "persist", "commit", "onboard", "welcome",
                          "pending", "redeem"}
         /\ \A i \in DOMAIN shown[w] : shown[w][i] \in DOMAIN sent
    /\ roster \in [Groups -> SUBSET Wallets]
    /\ order \in [Groups -> Histories]
    /\ packages \in [Wallets -> Nat]
    /\ DOMAIN invites \subseteq Tokens
    /\ commits \in 0..MaxCommits
    /\ crashes \in 0..MaxCrashes /\ torn \in BOOLEAN

(* Envelopes fetched or delivered to w and not consumed, in order. *)
InHand(w) ==
    CASE op[w].pc = "pending" -> op[w].rest \o op[w].todo
      [] op[w].pc # "pending" -> inbox[w]

Waiting(w) == InHand(w) \o mail[w]

(* What w has merged begins the relay's order of Commits, and the Commits  *)
(* that wait for it are, in their order, the rest of it (ids rise).        *)
InStep(w, g) ==
    LET hist == groups[w][g].hist
        line == Waiting(w)
        due  == {i \in DOMAIN line : line[i].kind = "Commit" /\ line[i].group = g}
    IN /\ IsPrefix(hist, order[g])
       /\ {line[i].id : i \in due} = {order[g][n] : n \in Len(hist) + 1..Len(order[g])}
       /\ \A i, j \in due : i < j => line[i].id < line[j].id

Member(w, g) == g \in DOMAIN groups[w] /\ w \in roster[g]

(* StaysInStep: once a member's merged Commits and its waiting ones make up *)
(* the relay's order, no operation of any daemon - a poll of another group, *)
(* a stash, a join, a Commit of the owner - loses, repeats or reorders one  *)
(* (take_inbox, stash, poll_messages, submit_commit).  Four things do: a    *)
(* restart, for the inbox is memory only; an inbox filled to INBOX_CAP; a   *)
(* redeemed invite, whose Commit may take the epoch of one of the owner's   *)
(* that the owner has merged already; and a process stopped inside an       *)
(* operation (torn): an owner whose registry comes back behind the order    *)
(* commits on a history the members do not share, and what is accepted of   *)
(* it no member can merge.                                                  *)
StaysInStep ==
    [][\A w \in Wallets, g \in Groups :
         /\ Member(w, g) /\ InStep(w, g) /\ Member(w, g)'
         /\ ~torn /\ crashes' = crashes /\ Len(inbox'[w]) < INBOX_CAP
         /\ \A t \in DOMAIN invites : ~invites[t].consumed
         => InStep(w, g)']_vars

(* ShownInOrder: poll_messages returns the messages of a group in the      *)
(* order the relay took them, and none of them twice, whatever was polled  *)
(* in between and whenever the daemon was restarted.                       *)
ShownInOrder ==
    \A w \in Wallets : \A i, j \in DOMAIN shown[w] :
        i < j /\ sent[shown[w][i]].group = sent[shown[w][j]].group
            => shown[w][i] < shown[w][j]

(* OffboardedReadsNothing: no message the relay accepted after a member    *)
(* left its roster is ever shown by that member's daemon, also when the    *)
(* sender has not merged the Remove Commit yet (offboard).                 *)
OffboardedReadsNothing ==
    \A w \in Wallets : \A i \in DOMAIN shown[w] :
        w \in sent[shown[w][i]].roster

(* Two messages sealed with one key and nonce. *)
SameKey(i, j) ==
    /\ sent[i].group = sent[j].group
    /\ sent[i].sender = sent[j].sender
    /\ sent[i].hist = sent[j].hist
    /\ sent[i].gen = sent[j].gen

(* AcceptedOnce: as long as processes stop between operations only, no two *)
(* messages the relay accepted are sealed by one sender at one epoch with  *)
(* one generation: every operation that moves a ratchet persists it (send, *)
(* poll_messages, join_with_welcome, redeem_invite).                       *)
AcceptedOnce ==
    ~torn => \A i, j \in DOMAIN sent :
                sent[i].accepted /\ sent[j].accepted /\ SameKey(i, j) => i = j

(* What the daemon shows a user: a group's messages in order, none from     *)
(* after a removal, no more waiting than the inbox holds; what it sends is  *)
(* accepted under a key only once.                                          *)
ConversationSound == TypeOK /\ ShownInOrder /\ OffboardedReadsNothing /\ AcceptedOnce

-----------------------------------------------------------------------------
(* Statements of the repository that the code does not meet; the README says *)
(* how each one fails.                                                       *)

(* JoinerInStep: a member that has joined can reach the relay's order: a   *)
(* join keeps the Commits that arrived behind its Welcome ("Everything     *)
(* else that was fetched stays buffered for the op that consumes it").     *)
JoinerInStep ==
    \A w \in Wallets, g \in Groups : Member(w, g) => InStep(w, g)

(* GenerationOnce: no two ciphertexts handed to the relay are sealed by    *)
(* one sender at one epoch with one generation, which would reuse an AEAD  *)
(* nonce (send: "persist so a restart does not reuse a generation").       *)
GenerationOnce ==
    \A i, j \in DOMAIN sent : SameKey(i, j) => i = j

(* SharedEpoch: a member with nothing waiting is at the epoch the relay's  *)
(* order ends in ("are merged here too, advancing this member to the       *)
(* shared epoch").                                                         *)
SharedEpoch ==
    \A w \in Wallets, g \in Groups :
        Member(w, g) /\ Waiting(w) = <<>> => groups[w][g].hist = order[g]

(* TokenAdmits: a redeemed token has made its holder a member once         *)
(* redeem_invite has returned ("a token-holder self-admits by external     *)
(* commit with no further owner action").                                  *)
TokenAdmits ==
    \A t \in DOMAIN invites :
        invites[t].consumed /\ op[invites[t].joiner].pc # "redeem"
            => invites[t].group \in DOMAIN groups[invites[t].joiner]

(* RosterIsTree: a member at the relay's latest epoch addresses exactly    *)
(* the members of its MLS tree ("reconciling the roster from the           *)
(* authenticated MLS tree").                                               *)
RosterIsTree ==
    \A w \in Wallets, g \in Groups :
        Member(w, g) /\ groups[w][g].hist = order[g] /\ op[Owner].pc # "onboard"
            => groups[w][g].members = groups[w][g].tree

(* DecryptedIsReturned: a message whose generation the ratchet has         *)
(* consumed was returned to the caller (poll_messages: "anything left      *)
(* after a failure" goes "back to the inbox instead of being dropped").    *)
DecryptedIsReturned ==
    \A w \in Wallets : \A g \in DOMAIN groups[w] : \A i \in DOMAIN sent :
        /\ sent[i].group = g
        /\ sent[i].hist = groups[w][g].hist
        /\ <<sent[i].sender, sent[i].gen>> \in groups[w][g].used
        => \E n \in DOMAIN shown[w] : shown[w][n] = i

(* PendingJoined: join_pending returns with no Welcome left over           *)
(* ("Join EVERY group this member has a pending Welcome for").             *)
PendingJoined ==
    [][\A w \in Wallets :
         op[w].pc = "pending" /\ op'[w] = Idle /\ crashes' = crashes
            => \A i \in DOMAIN inbox'[w] : inbox'[w][i].kind # "Welcome"]_vars
=============================================================================

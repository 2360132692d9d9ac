----------------------------- MODULE RelayStore -----------------------------
(***************************************************************************)
(* What the relay keeps on disk, and when: DeliveryService with its        *)
(* EncryptedStore (src/crates/comms-relay/src/lib.rs, open() and the       *)
(* persist_* helpers; src/crates/comms-core/src/{store,audit}.rs).         *)
(*                                                                         *)
(* A method mutates memory and then writes the column families one put at  *)
(* a time; there is no write batch.  Here a call is a Begin action (its     *)
(* checks and its changes to memory) followed by one step per put, in the  *)
(* order of the code.  Between any two steps the process may crash; a put  *)
(* may fail, which makes the call return an error and leaves memory as it  *)
(* is.  The mutex is held for the whole call, so calls do not overlap.     *)
(*                                                                         *)
(* One group, registered and durable, with the workspace owner Admin as    *)
(* its first member; one invite token, published.  Mailboxes, sessions and *)
(* nonces are not stored and have no part in what a restart finds.         *)
(***************************************************************************)
EXTENDS Naturals, Sequences, FiniteSets

CONSTANTS Admin, Others,            \* wallets
          Ciphertexts,
          MaxEpoch, MaxLog, MaxAudit, MaxFailures   \* bounds

Wallets == {Admin} \cup Others

ASSUME AdminAssumption == Admin \notin Others

VARIABLES
    mem,      \* the service's memory
    disk,     \* the store's column families
    up,       \* "up", "down", or "refused": open() returned an error
    call,     \* the method call in progress
    todo,     \* the puts it still has to make
    failures, \* puts that have failed
    acked,    \* history: envelopes appended and answered Ok(seq)
    replayed, \* history: Commits answered Ok(seq) as replays
    gone,     \* history: wallets whose offboard was acknowledged since they were last admitted
    viaToken  \* history: wallets the invite put on the roster

vars == <<mem, disk, up, call, todo, failures, acked, replayed, gone, viaToken>>

Put(f, k, v) == [x \in DOMAIN f \cup {k} |-> IF x = k THEN v ELSE f[x]]
Empty == [x \in {} |-> 0]

Env(k, e, w, c, n) == [kind |-> k, epoch |-> e, sender |-> w, ct |-> c, seq |-> n]
(* What an Ok(seq) tells its client. *)
AsAcked(env) == [kind |-> env.kind, epoch |-> env.epoch, ct |-> env.ct, seq |-> env.seq]

NoEnv == Env("None", 0, Admin, 0, 0)

(* GroupState::snapshot: everything but the log. *)
Snapshot(m) == [members |-> m.members, current_epoch |-> m.current_epoch,
                next_seq |-> m.next_seq, accepted_commit |-> m.accepted_commit]

Fresh == [members |-> {Admin}, current_epoch |-> 0, next_seq |-> 0,
          accepted_commit |-> Empty]

Memory(snap, log, consumed, referrals, chain) ==
    [members |-> snap.members, current_epoch |-> snap.current_epoch,
     next_seq |-> snap.next_seq, accepted_commit |-> snap.accepted_commit,
     log |-> log, consumed |-> consumed, referrals |-> referrals, audit |-> chain]

Genesis == <<"genesis", Admin, 0>>

NoCall == [op |-> "none", who |-> Admin, env |-> NoEnv, newly |-> FALSE]

Booted == Memory(Fresh, <<>>, FALSE, <<>>, <<Genesis>>)

Init ==
    /\ disk = [envelopes |-> Empty, group |-> Fresh, consumed |-> FALSE,
               referrals |-> Empty, audit |-> Put(Empty, 0, Genesis)]
    /\ mem = Booted
    /\ up = "up"
    /\ call = NoCall
    /\ todo = <<>>
    /\ failures = 0
    /\ acked = {} /\ replayed = {} /\ gone = {} /\ viaToken = {}

-----------------------------------------------------------------------------
(* The puts of each method, in the order of the code. *)

(* Mutants of submit: the snapshot is not put, the envelope is not put, the *)
(* snapshot is put first.                                                   *)
SubmitPutsNoGroup    == <<"envelope", "receipt">>
SubmitPutsGroupFirst == <<"group", "envelope", "receipt">>
SubmitPuts == <<"envelope", "group", "receipt">>

OnboardPuts == SubmitPuts \o <<"group", "added">>

(* Mutant: the roster without the removed wallet is not put. *)
DropPutsNoGroup == <<"removed", "revoked">>
DropPuts == <<"group", "removed", "revoked">>

(* Mutant: the roster is put before the consumed mark. *)
RedeemPutsGroupFirst == <<"group", "invite", "referral">>
RedeemPuts == <<"invite", "group", "referral">>

Idle == up = "up" /\ call.op = "none"

(* A call starts when the service is idle; its records fit in MaxAudit.     *)
MayBegin == Idle /\ Len(mem.audit) + 3 <= MaxAudit

Begin(op, w, env, newly, puts) ==
    /\ call' = [op |-> op, who |-> w, env |-> env, newly |-> newly]
    /\ todo' = puts
    /\ UNCHANGED <<disk, up, failures>>

(* submit's changes to memory. *)
Appended(m, env) ==
    [m EXCEPT !.accepted_commit = IF env.kind = "Commit"
                                  THEN Put(@, env.epoch, env.ct) ELSE @,
              !.current_epoch = IF env.kind = "Commit" THEN env.epoch ELSE @,
              !.next_seq = @ + 1,
              !.log = Append(@, env)]

NextCommit(e) == e \notin DOMAIN mem.accepted_commit /\ e = mem.current_epoch + 1

BeginSubmit(w, k, e, c) ==
    /\ MayBegin
    /\ w \in mem.members
    /\ Len(mem.log) < MaxLog
    /\ k = "Commit" => NextCommit(e)
    /\ LET env == Env(k, e, w, c, mem.next_seq) IN
         /\ mem' = Appended(mem, env)
         /\ Begin("submit", w, env, FALSE, SubmitPuts)
    /\ UNCHANGED <<acked, replayed, gone, viaToken>>

CommitAt(e) == {i \in DOMAIN mem.log : mem.log[i].kind = "Commit" /\ mem.log[i].epoch = e}

(* log.iter().find(...) *)
PriorSeq(e) == mem.log[CHOOSE i \in CommitAt(e) : \A j \in CommitAt(e) : i <= j].seq

Replayable(e, c) ==
    /\ e \in DOMAIN mem.accepted_commit
    /\ mem.accepted_commit[e] = c
    /\ CommitAt(e) # {}

(* A Commit that memory has accepted is answered from memory; no put. *)
Replay(w, e, c) ==
    /\ Idle
    /\ w \in mem.members
    /\ Replayable(e, c)
    /\ replayed' = replayed \cup {AsAcked(Env("Commit", e, w, c, PriorSeq(e)))}
    /\ UNCHANGED <<mem, disk, up, call, todo, failures, acked, gone, viaToken>>

(* onboard by the owner: the roster add, then the Welcome. *)
BeginOnboard(j, c) ==
    /\ MayBegin
    /\ Admin \in mem.members
    /\ Len(mem.log) < MaxLog
    /\ LET env == Env("Welcome", mem.current_epoch, Admin, c, mem.next_seq) IN
         /\ mem' = Appended([mem EXCEPT !.members = @ \cup {j}], env)
         /\ Begin("onboard", j, env, j \notin mem.members, OnboardPuts)
    /\ gone' = gone \ {j}
    /\ viaToken' = IF j \in mem.members THEN viaToken ELSE viaToken \ {j}
    /\ UNCHANGED <<acked, replayed>>

(* offboard by the owner: the Commit first; the roster drop when its puts   *)
(* are done ("drop" changes memory only).                                   *)
BeginOffboard(r, e, c) ==
    /\ MayBegin
    /\ {Admin, r} \subseteq mem.members
    /\ Len(mem.log) < MaxLog
    /\ NextCommit(e)
    /\ LET env == Env("Commit", e, Admin, c, mem.next_seq) IN
         /\ mem' = Appended(mem, env)
         /\ Begin("offboard", r, env, FALSE, SubmitPuts \o <<"drop">> \o DropPuts)
    /\ UNCHANGED <<acked, replayed, gone, viaToken>>

(* ... with a Commit already accepted: straight to the roster drop. *)
BeginOffboardReplay(r, e, c) ==
    /\ MayBegin
    /\ {Admin, r} \subseteq mem.members
    /\ Replayable(e, c)
    /\ mem' = [mem EXCEPT !.members = @ \ {r}]
    /\ Begin("evict", r, Env("Commit", e, Admin, c, PriorSeq(e)), FALSE, DropPuts)
    /\ UNCHANGED <<acked, replayed, gone, viaToken>>

BeginRedeem(j) ==
    /\ MayBegin
    /\ ~mem.consumed
    /\ mem' = [mem EXCEPT !.members = @ \cup {j}, !.consumed = TRUE,
                          !.referrals = Append(@, j)]
    /\ viaToken' = IF j \in mem.members \cup disk.group.members
                    THEN viaToken ELSE viaToken \cup {j}
    /\ gone' = gone \ {j}
    /\ Begin("redeem", j, NoEnv, FALSE, RedeemPuts)
    /\ UNCHANGED <<acked, replayed>>

-----------------------------------------------------------------------------
AuditPuts == {"receipt", "added", "removed", "revoked"}

(* audit_append: the record joins the chain in memory, then it is put. *)
Chained(p) == IF p \in AuditPuts
              THEN [mem EXCEPT !.audit = Append(@, <<p, call.who, call.env.seq>>)]
              ELSE mem

(* The sequence number of the record that is appended; genesis has 0. *)
(* Mutant: the number of records after the append. *)
AuditKeyAfterAppend == Len(mem.audit) + 1
AuditKey == Len(mem.audit)

EnvelopeKey(env) == env.seq

Written(p) ==
    CASE p = "envelope" -> [disk EXCEPT !.envelopes = Put(@, EnvelopeKey(call.env), call.env)]
      [] p = "group"    -> [disk EXCEPT !.group = Snapshot(mem)]
      [] p = "invite"   -> [disk EXCEPT !.consumed = mem.consumed]
      [] p = "referral" -> [disk EXCEPT !.referrals = Put(@, Len(mem.referrals) - 1, call.who)]
      [] p \in AuditPuts -> [disk EXCEPT !.audit =
                               Put(@, AuditKey, <<p, call.who, call.env.seq>>)]

(* The method returns: to the client it was acknowledged, or refused. *)
Return(ok) ==
    /\ call' = NoCall
    /\ todo' = <<>>
    /\ acked' = IF ok /\ call.op \in {"submit", "onboard", "offboard"}
                THEN acked \cup {AsAcked(call.env)} ELSE acked
    /\ replayed' = IF ok /\ call.op = "evict"
                   THEN replayed \cup {AsAcked(call.env)} ELSE replayed
    /\ gone' = IF ok /\ call.op \in {"offboard", "evict"}
               THEN gone \cup {call.who} ELSE gone

PutOk ==
    /\ up = "up" /\ todo # <<>> /\ Head(todo) # "drop"
    /\ mem' = Chained(Head(todo))
    /\ disk' = Written(Head(todo))
    /\ IF Len(todo) = 1
       THEN Return(TRUE)
       ELSE /\ todo' = Tail(todo)
            /\ UNCHANGED <<call, acked, replayed, gone>>
    /\ UNCHANGED <<up, failures, viaToken>>

(* end_membership between the Commit's puts and the roster's. *)
Drop ==
    /\ up = "up" /\ todo # <<>> /\ Head(todo) = "drop"
    /\ mem' = [mem EXCEPT !.members = @ \ {call.who}]
    /\ todo' = Tail(todo)
    /\ UNCHANGED <<disk, up, call, failures, acked, replayed, gone, viaToken>>

(* A put fails: `?` returns the error.  onboard undoes a new roster add when *)
(* it was its Welcome that failed.                                           *)
PutFails ==
    /\ up = "up" /\ todo # <<>> /\ Head(todo) # "drop"
    /\ failures < MaxFailures
    /\ failures' = failures + 1
    /\ LET inWelcome == call.op = "onboard" /\ Len(todo) > 2
           undo == IF inWelcome /\ call.newly THEN {call.who} ELSE {}
       IN mem' = [Chained(Head(todo)) EXCEPT !.members = @ \ undo]
    /\ Return(FALSE)
    /\ UNCHANGED <<disk, up, viaToken>>

(* Memory is lost, and with it an admission that had not reached the disk.  *)
Crash ==
    /\ up = "up"
    /\ up' = "down"
    /\ mem' = Booted
    /\ call' = NoCall
    /\ todo' = <<>>
    /\ viaToken' = viaToken \cap disk.group.members
    /\ UNCHANGED <<disk, failures, acked, replayed, gone>>

(* EncryptedStore::scan: the values in the order of their keys. *)
InKeyOrder(f) ==
    [i \in 1..Cardinality(DOMAIN f) |->
        f[CHOOSE k \in DOMAIN f : Cardinality({x \in DOMAIN f : x < k}) = i - 1]]

(* AuditChain::from_records, verify_integrity: contiguous from genesis. *)
ChainVerifies == DOMAIN disk.audit = 0..(Cardinality(DOMAIN disk.audit) - 1)

Open ==
    /\ up \in {"down", "refused"}
    /\ IF ChainVerifies
       THEN /\ up' = "up"
            /\ mem' = Memory(disk.group, InKeyOrder(disk.envelopes), disk.consumed,
                             InKeyOrder(disk.referrals), InKeyOrder(disk.audit))
       ELSE up' = "refused" /\ UNCHANGED mem
    /\ UNCHANGED <<disk, call, todo, failures, acked, replayed, gone, viaToken>>

Next ==
    \/ \E w \in Wallets, c \in Ciphertexts : BeginSubmit(w, "Application", mem.current_epoch, c)
    \/ \E w \in Wallets, e \in 1..MaxEpoch, c \in Ciphertexts : BeginSubmit(w, "Commit", e, c)
    \/ \E w \in Wallets, e \in 1..MaxEpoch, c \in Ciphertexts : Replay(w, e, c)
    \/ \E j \in Others, c \in Ciphertexts : BeginOnboard(j, c)
    \/ \E r \in Others, e \in 1..MaxEpoch, c \in Ciphertexts : BeginOffboard(r, e, c)
    \/ \E r \in Others, e \in 1..MaxEpoch, c \in Ciphertexts : BeginOffboardReplay(r, e, c)
    \/ \E j \in Others : BeginRedeem(j)
    \/ PutOk \/ Drop \/ PutFails \/ Crash \/ Open

Spec == Init /\ [][Next]_vars

-----------------------------------------------------------------------------
OnDisk(a) ==
    /\ a.seq \in DOMAIN disk.envelopes
    /\ AsAcked(disk.envelopes[a.seq]) = a

(* What a client was told is ordered stays ordered, across crashes: the     *)
(* envelope is on disk under the seq of the answer, and the snapshot on     *)
(* disk will not hand that seq out again (R10: "durable, replayable on      *)
(* restart").                                                               *)
AckedDurable == \A a \in acked : OnDisk(a) /\ a.seq < disk.group.next_seq

(* An epoch the running service holds as committed has its Commit in the    *)
(* log, so that the sender's retry is answered with its seq (B014) rather   *)
(* than refused for good: the envelope is put before the snapshot.  A failed *)
(* put of the envelope breaks this: memory keeps the epoch as committed.    *)
AcceptedReplayable ==
    up = "up" /\ failures = 0 =>
        \A e \in DOMAIN mem.accepted_commit :
            \E i \in CommitAt(e) : mem.log[i].ct = mem.accepted_commit[e]

(* Whatever crashes there were, the audit chain on disk verifies and open() *)
(* starts the relay, as long as no put failed: audit_append pushes the      *)
(* record in memory first, so a failed put leaves a gap behind it.          *)
ChainOpens == failures = 0 => ChainVerifies /\ up # "refused"

(* A redeem that is not durably consumed is never observable: a wallet the  *)
(* invite put on the durable roster implies the consumed tombstone on disk, *)
(* and a crash never lets the single-use token admit a second wallet.  A    *)
(* failed put of the tombstone breaks this: memory keeps the roster add,    *)
(* and the next write of the group stores it.                               *)
RedeemOnceDurably ==
    failures = 0 =>
        /\ viaToken \cap disk.group.members # {} => disk.consumed
        /\ Cardinality(viaToken \cap disk.group.members) <= 1

(* An acknowledged offboard sticks: no crash puts the removed wallet back   *)
(* on the roster, in memory or on disk.                                     *)
RemovalSticks ==
    /\ gone \cap disk.group.members = {}
    /\ up = "up" => gone \cap mem.members = {}

(* What a caller was told has happened is on the disk, whatever crashes or  *)
(* fails: an acknowledged envelope, a removal, the use of an invite.        *)
PromisesDurable == AckedDurable /\ RemovalSticks /\ RedeemOnceDurably

(* What open() needs to go on: a chain that verifies, and for each epoch the *)
(* Commit that a replay is compared with.                                   *)
Reopenable == ChainOpens /\ AcceptedReplayable

-----------------------------------------------------------------------------
(* Statements of the repository that the code does not meet; the README says *)
(* how each one fails.                                                       *)

(* The log of the running service gives each envelope its own group_seq.    *)
SeqUnique ==
    up = "up" => \A i, j \in DOMAIN mem.log : i # j => mem.log[i].seq # mem.log[j].seq

(* A replayed Commit is answered with the place where that Commit is        *)
(* durably stored (B014: "Return the seq already assigned to this epoch's   *)
(* accepted Commit").                                                       *)
ReplayNamesCommit == \A a \in replayed : OnDisk(a)

(* onboard is all-or-nothing: between calls, whoever is on the roster was   *)
(* audited as added, holds the invite, or is the group's creator.           *)
OnboardAllOrNothing ==
    Idle => \A w \in mem.members \ ({Admin} \cup viaToken) :
               \E i \in DOMAIN mem.audit : mem.audit[i][1] = "added" /\ mem.audit[i][2] = w
=============================================================================

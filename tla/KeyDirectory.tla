---------------------------- MODULE KeyDirectory ----------------------------
(***************************************************************************)
(* The relay's handshake, KeyPackage directory and claims inbox            *)
(* (src/crates/comms-relay/src/lib.rs, issue_challenge .. clear_claims,    *)
(* with the nonce store and verify_siwe_login of                           *)
(* src/crates/comms-core/src/identity.rs).                                 *)
(*                                                                         *)
(* A publication is named by the nonce it is bound to.  Publishing and     *)
(* taking a package change memory and then put the wallet's whole queue;   *)
(* the process may crash between any two steps of a call, and a put may    *)
(* fail.  Nonces, sessions and claims are in memory only.  The audit chain *)
(* that publish_key_package also appends to is RelayStore's subject; here  *)
(* its put is only a point at which the call can still end.                *)
(***************************************************************************)
EXTENDS Naturals, Sequences, FiniteSets, SequencesExt

CONSTANTS Wallets, Nonces, Tokens, Claims,
          NONCE_TTL, MAX_KEYPACKAGES_PER_WALLET, MAX_CLAIMS_PER_TOKEN,
          MaxTime, MaxFailures                       \* bounds

ASSUME LimitsAssumption ==
    /\ NONCE_TTL \in Nat \ {0}
    /\ MAX_KEYPACKAGES_PER_WALLET \in Nat
    /\ MAX_CLAIMS_PER_TOKEN \in Nat \ {0}

VARIABLES
    now,          \* the relay's clock
    nonces,       \* live nonce -> when it was issued
    sessions,     \* authenticated wallets
    key_packages, \* wallet -> queue of publications, in memory
    stored,       \* CF_KEYPACKAGES: wallet -> queue on disk
    claims,       \* token -> claims inbox
    call,         \* the call in progress, whose steps a crash can separate
    failures,     \* puts that have failed
    issued,       \* history: nonces ever issued, with their time
    spent,        \* history: nonces presented while live
    logins,       \* history: [nonce, at] of every completed login
    promised,     \* history: publications answered Ok
    withdrawn,    \* history: publications whose removal from the queue was put
    handed,       \* history: publications handed to a taker, in order
    first         \* history: token -> first claim since the inbox was last emptied

service == <<sessions, key_packages, stored, claims, call, failures>>
vars == <<now, nonces, sessions, key_packages, stored, claims, call, failures,
          issued, spent, logins, promised, withdrawn, handed, first>>

Empty == [x \in {} |-> 0]
Without(f, x) == [y \in DOMAIN f \ {x} |-> f[y]]
Idle == [op |-> "none"]
Queues == [Wallets -> Seq(Nonces)]

Init ==
    /\ now = 0 /\ nonces = Empty /\ sessions = {}
    /\ key_packages = [w \in Wallets |-> <<>>] /\ stored = key_packages
    /\ claims = [t \in Tokens |-> <<>>]
    /\ call = Idle /\ failures = 0
    /\ issued = Empty /\ spent = {} /\ logins = {}
    /\ promised = {} /\ withdrawn = {} /\ handed = <<>> /\ first = claims

(* The mutex is held for the whole call: another starts when none is on.   *)
Ready == call = Idle

Tick ==
    /\ Ready /\ now < MaxTime
    /\ now' = now + 1
    /\ UNCHANGED <<service, nonces, issued, spent, logins, promised, withdrawn, handed, first>>

---------------------------------------------------------------------------
(* The handshake.                                                          *)

(* The nonces that an issue at the present time keeps. *)
Unexpired == {n \in DOMAIN nonces : now - nonces[n] < NONCE_TTL}

(* issue_challenge: fresh() draws 32 random bytes, a nonce never seen.      *)
IssueChallenge(n) ==
    /\ Ready /\ n \notin DOMAIN issued
    /\ nonces' = [x \in Unexpired \cup {n} |-> IF x = n THEN now ELSE nonces[x]]
    /\ issued' = [x \in DOMAIN issued \cup {n} |-> IF x = n THEN now ELSE issued[x]]
    /\ UNCHANGED <<service, now, spent, logins, promised, withdrawn, handed, first>>

(* A look-up where the removal should be. *)
ConsumeChecksOnly(n) ==
    /\ n \in DOMAIN nonces
    /\ UNCHANGED nonces
    /\ spent' = spent \cup {n}

(* consume: the nonce goes, whatever becomes of the request that names it.  *)
Consume(n) ==
    /\ n \in DOMAIN nonces
    /\ nonces' = Without(nonces, n)
    /\ spent' = spent \cup {n}

(* authenticate with a message whose chain, domain, expiration and          *)
(* signature are in order.  The expiration is the client's own choice       *)
(* (ten minutes from when it signs), so any live nonce can get here.        *)
Authenticate(w, n) ==
    /\ Ready /\ Consume(n)
    /\ sessions' = sessions \cup {w}
    /\ logins' = logins \cup {[nonce |-> n, at |-> now]}
    /\ UNCHANGED <<now, key_packages, stored, claims, call, failures, issued,
                   promised, withdrawn, handed, first>>

(* authenticate with a message one of whose later checks fails.             *)
AuthenticateRefused(n) ==
    /\ Ready /\ Consume(n)
    /\ UNCHANGED <<service, now, issued, logins, promised, withdrawn, handed, first>>

EndSession(w) ==
    /\ Ready /\ w \in sessions
    /\ sessions' = sessions \ {w}
    /\ UNCHANGED <<now, nonces, key_packages, stored, claims, call, failures,
                   issued, spent, logins, promised, withdrawn, handed, first>>

---------------------------------------------------------------------------
(* The KeyPackage directory.                                               *)

BelowQuotaPlusOne(w) == Len(key_packages[w]) <= MAX_KEYPACKAGES_PER_WALLET
BelowQuota(w) == Len(key_packages[w]) < MAX_KEYPACKAGES_PER_WALLET

(* publish_key_package up to its first put.                                 *)
PublishKeyPackage(w, n) ==
    /\ Ready /\ w \in sessions
    /\ Consume(n)
    /\ BelowQuota(w)
    /\ key_packages' = [key_packages EXCEPT ![w] = Append(@, n)]
    /\ call' = [op |-> "publish", wallet |-> w, nonce |-> n, step |-> "put"]
    /\ UNCHANGED <<now, sessions, stored, claims, failures, issued, logins,
                   promised, withdrawn, handed, first>>

(* The nonce is consumed before the attestation and the quota are looked at. *)
PublishRefused(w, n) ==
    /\ Ready /\ w \in sessions
    /\ Consume(n)
    /\ UNCHANGED <<service, now, issued, logins, promised, withdrawn, handed, first>>

(* take_key_package: the front of the queue, if there is one.  Who may ask   *)
(* is ws.rs's rule (any authenticated connection), not this method's.        *)
TakeKeyPackage(w) ==
    /\ Ready /\ key_packages[w] # <<>>
    /\ key_packages' = [key_packages EXCEPT ![w] = Tail(@)]
    /\ call' = [op |-> "take", wallet |-> w, nonce |-> Head(key_packages[w]), step |-> "put"]
    /\ UNCHANGED <<now, nonces, sessions, stored, claims, failures, issued, spent,
                   logins, promised, withdrawn, handed, first>>

(* Only a queue that is not empty is written. *)
PersistedUnlessEmpty(w) ==
    IF key_packages[w] = <<>> THEN stored ELSE [stored EXCEPT ![w] = key_packages[w]]
PersistedNothing(w) == stored
(* persist_keypackages puts the whole queue of the wallet.                  *)
Persisted(w) == [stored EXCEPT ![w] = key_packages[w]]

PersistKeyPackages ==
    /\ call # Idle /\ call.step = "put"
    /\ stored' = Persisted(call.wallet)
    /\ withdrawn' = IF call.op = "take" THEN withdrawn \cup {call.nonce} ELSE withdrawn
    /\ call' = [call EXCEPT !.step = IF call.op = "publish" THEN "audit" ELSE "return"]
    /\ UNCHANGED <<now, nonces, sessions, key_packages, claims, failures, issued,
                   spent, logins, promised, handed, first>>

(* A failed put: `?` in publish_key_package, `let _ =` in take_key_package.  *)
PersistFails ==
    /\ call # Idle /\ call.step = "put" /\ failures < MaxFailures
    /\ failures' = failures + 1
    /\ call' = IF call.op = "publish" THEN Idle ELSE [call EXCEPT !.step = "return"]
    /\ UNCHANGED <<now, nonces, sessions, key_packages, stored, claims, issued, spent,
                   logins, promised, withdrawn, handed, first>>

(* The audit record is put and Ok(kp_ref) returned, or its put fails.       *)
PublishReturns ==
    /\ call # Idle /\ call.step = "audit"
    /\ call' = Idle
    /\ \/ promised' = promised \cup {call.nonce} /\ UNCHANGED failures
       \/ failures < MaxFailures /\ failures' = failures + 1 /\ UNCHANGED promised
    /\ UNCHANGED <<now, nonces, sessions, key_packages, stored, claims, issued, spent,
                   logins, withdrawn, handed, first>>

TakeReturns ==
    /\ call # Idle /\ call.step = "return"
    /\ handed' = Append(handed, call.nonce)
    /\ call' = Idle
    /\ UNCHANGED <<now, nonces, sessions, key_packages, stored, claims, failures,
                   issued, spent, logins, promised, withdrawn, first>>

---------------------------------------------------------------------------
(* The claims inbox.                                                       *)

(* The eviction of the oldest claim that A007 replaced. *)
AdmittedEvicting(q, c) ==
    IF c \in Range(q) THEN q
    ELSE IF Len(q) >= MAX_CLAIMS_PER_TOKEN THEN Append(Tail(q), c) ELSE Append(q, c)
(* submit_claim keeps what is there when the inbox is full (A007).          *)
Admitted(q, c) ==
    IF c \in Range(q) \/ Len(q) >= MAX_CLAIMS_PER_TOKEN THEN q ELSE Append(q, c)

SubmitClaim(w, t, c) ==
    /\ Ready /\ w \in sessions
    /\ claims' = [claims EXCEPT ![t] = Admitted(@, c)]
    /\ first' = IF first[t] = <<>> THEN [first EXCEPT ![t] = <<c>>] ELSE first
    /\ UNCHANGED <<now, nonces, sessions, key_packages, stored, call, failures,
                   issued, spent, logins, promised, withdrawn, handed>>

ClearClaims(t) ==
    /\ Ready /\ claims[t] # <<>>
    /\ claims' = [claims EXCEPT ![t] = <<>>]
    /\ first' = [first EXCEPT ![t] = <<>>]
    /\ UNCHANGED <<now, nonces, sessions, key_packages, stored, call, failures,
                   issued, spent, logins, promised, withdrawn, handed>>

---------------------------------------------------------------------------
(* The process stops, in or between calls, and open() reads the disk.       *)
Restart ==
    /\ nonces' = Empty /\ sessions' = {} /\ call' = Idle
    /\ key_packages' = stored
    /\ claims' = [t \in Tokens |-> <<>>] /\ first' = claims'
    /\ UNCHANGED <<now, stored, failures, issued, spent, logins, promised,
                   withdrawn, handed>>

Next ==
    \/ Tick \/ Restart
    \/ PersistKeyPackages \/ PersistFails \/ PublishReturns \/ TakeReturns
    \/ \E n \in Nonces : IssueChallenge(n) \/ AuthenticateRefused(n)
    \/ \E w \in Wallets, n \in Nonces :
          Authenticate(w, n) \/ PublishKeyPackage(w, n) \/ PublishRefused(w, n)
    \/ \E w \in Wallets : EndSession(w) \/ TakeKeyPackage(w)
    \/ \E t \in Tokens : ClearClaims(t)
    \/ \E w \in Wallets, t \in Tokens, c \in Claims : SubmitClaim(w, t, c)

Spec == Init /\ [][Next]_vars

---------------------------------------------------------------------------
(* Properties.                                                             *)

(* The quotas of the directory (MAX_KEYPACKAGES_PER_WALLET) and the inbox   *)
(* (MAX_CLAIMS_PER_TOKEN) hold in memory and on disk, and the rest has its  *)
(* type.                                                                   *)
TypeOK ==
    /\ now \in Nat /\ failures \in Nat
    /\ DOMAIN nonces \subseteq Nonces /\ \A n \in DOMAIN nonces : nonces[n] <= now
    /\ sessions \subseteq Wallets
    /\ key_packages \in Queues /\ stored \in Queues
    /\ \A w \in Wallets : /\ Len(key_packages[w]) <= MAX_KEYPACKAGES_PER_WALLET
                          /\ Len(stored[w]) <= MAX_KEYPACKAGES_PER_WALLET
    /\ \A t \in Tokens : Len(claims[t]) <= MAX_CLAIMS_PER_TOKEN

(* A nonce presented once, in a login or in a publication, with success or   *)
(* without, is never accepted again: it is not live, also after an eviction *)
(* and after a restart, and it has not become two logins or a login and a   *)
(* publication (identity.rs: "issue once, consume once").                   *)
NonceSingleUse ==
    /\ spent \cap DOMAIN nonces = {}
    /\ \A l, m \in logins : l.nonce = m.nonce => l = m
    /\ \A l \in logins, w \in Wallets :
          l.nonce \notin Range(key_packages[w]) \cup Range(stored[w])

(* take_key_package hands a publication out once, however often the relay   *)
(* stops and starts ("a consumed package does not reappear after restart"), *)
(* as long as no put failed: `let _ =` ignores the failed put of a shorter  *)
(* queue, and a restart then brings the package back.                      *)
OneTimeUse == failures = 0 => IsInjective(handed)

(* A publication answered Ok is on disk until it is handed out or its       *)
(* removal is put, so that neither a restart nor a put that failed loses a  *)
(* promised package.                                                       *)
PromisedKept ==
    \A n \in promised \ (withdrawn \cup Range(handed)) :
        \E w \in Wallets : n \in Range(stored[w])

(* The first claim submitted for a token stays the first in its inbox until *)
(* the owner clears it, whatever is submitted after it (A007).              *)
ClaimsKeepFirst ==
    \A t \in Tokens : first[t] # <<>> => IsPrefix(first[t], claims[t])

(* What may be used once is used once: a nonce, a KeyPackage.               *)
SingleUse == TypeOK /\ NonceSingleUse /\ OneTimeUse

(* What was accepted stays: a promised KeyPackage, the first claims.        *)
AcceptedKept == PromisedKept /\ ClaimsKeepFirst

-----------------------------------------------------------------------------
(* Statements of the repository that the code does not meet; the README says *)
(* how each one fails.                                                       *)

(* A login is completed with a nonce younger than NONCE_TTL_MS, as the      *)
(* comment on that constant says (identity.rs:41).                         *)
LoginWithinTTL ==
    \A l \in logins : l.at - issued[l.nonce] < NONCE_TTL
=============================================================================

------------------------- MODULE KeyDirectoryProofs -------------------------
(***************************************************************************)
(* Theorems about KeyDirectory, for any number of wallets, nonces, tokens  *)
(* and claims, any quotas and any number of restarts: SingleUse (a nonce,  *)
(* a KeyPackage) and AcceptedKept (promised KeyPackages, first claims).    *)
(*                                                                         *)
(* Both go through what a call in progress owes the disk: a queue in       *)
(* memory and on disk differ only between a call's change and its put, and *)
(* then by the one publication the call is about.                          *)
(***************************************************************************)
EXTENDS KeyDirectory, SequenceTheorems, TLAPS

CallRecord == [op : {"publish", "take"}, wallet : Wallets, nonce : Nonces,
               step : {"put", "audit", "return"}]

(* What TypeOK leaves out. *)
CallType ==
    call # Idle => /\ call \in CallRecord
                   /\ call.step = "audit"  => call.op = "publish"
                   /\ call.step = "return" => call.op = "take"

TypeInv ==
    /\ TypeOK /\ CallType
    /\ \A n \in DOMAIN nonces : nonces[n] \in Nat
    /\ handed \in Seq(Nonces)
    /\ claims \in [Tokens -> Seq(Claims)] /\ first \in [Tokens -> Seq(Claims)]

-----------------------------------------------------------------------------
(* Queues.                                                                 *)

(* What publishing does to a queue.                                        *)
LEMMA QueueAppend ==
    ASSUME NEW S, NEW q \in Seq(S), NEW e \in S
    PROVE  /\ Append(q, e) \in Seq(S) /\ Len(Append(q, e)) = Len(q) + 1
           /\ Range(Append(q, e)) = Range(q) \cup {e}
<1>1. /\ DOMAIN q = 1..Len(q) /\ Len(q) \in Nat /\ DOMAIN Append(q, e) = 1..(Len(q) + 1)
      /\ \A i \in 1..Len(q) : Append(q, e)[i] = q[i]
      /\ Append(q, e)[Len(q) + 1] = e
      /\ 1..(Len(q) + 1) = 1..Len(q) \cup {Len(q) + 1}
  BY AppendProperties
<1> QED BY <1>1, AppendProperties DEF Range

(* What taking does to a queue that is not empty.                          *)
LEMMA QueueTail ==
    ASSUME NEW S, NEW q \in Seq(S), q # <<>>
    PROVE  /\ Head(q) \in S /\ Tail(q) \in Seq(S)
           /\ Len(Tail(q)) = Len(q) - 1 /\ Len(q) \in Nat \ {0}
           /\ Head(q) = q[1]
           /\ \A i \in DOMAIN Tail(q) : i + 1 \in DOMAIN q /\ Tail(q)[i] = q[i + 1]
           /\ Range(q) = Range(Tail(q)) \cup {Head(q)}
<1>1. /\ Head(q) \in S /\ Tail(q) \in Seq(S) /\ Head(q) = q[1]
      /\ Len(Tail(q)) = Len(q) - 1 /\ Len(q) \in Nat \ {0}
      /\ \A i \in 1..Len(Tail(q)) : Tail(q)[i] = q[i + 1]
  BY HeadTailProperties
<1>2. DOMAIN q = 1..Len(q) /\ DOMAIN Tail(q) = 1..(Len(q) - 1)
  BY <1>1
<1>3. \A i \in DOMAIN Tail(q) : i + 1 \in DOMAIN q /\ Tail(q)[i] = q[i + 1]
  BY <1>1, <1>2
<1>4. ASSUME NEW i \in DOMAIN q, i # 1 PROVE i - 1 \in DOMAIN Tail(q) /\ Tail(q)[i - 1] = q[i]
  BY <1>1, <1>2, <1>4
<1>5. ASSUME NEW x \in Range(q) PROVE x \in Range(Tail(q)) \cup {Head(q)}
  <2>1. PICK i \in DOMAIN q : q[i] = x
    BY DEF Range
  <2>2. CASE i = 1
    BY <1>1, <2>1, <2>2
  <2>3. CASE i # 1
    BY <1>4, <2>1, <2>3 DEF Range
  <2> QED BY <2>2, <2>3
<1>6. ASSUME NEW x \in Range(Tail(q)) \cup {Head(q)} PROVE x \in Range(q)
  <2>1. 1 \in DOMAIN q
    BY <1>1, <1>2
  <2> QED BY <1>1, <1>3, <2>1 DEF Range
<1> QED BY <1>1, <1>3, <1>5, <1>6

(* The publications a queue, or the sequence handed out, is made of.       *)
LEMMA RangeType ==
    ASSUME NEW S, NEW q \in Seq(S)
    PROVE  Range(q) \subseteq S /\ Range(<<>>) = {}
  BY DEF Range

-----------------------------------------------------------------------------
(* Every step keeps the types and the quotas.                              *)
LEMMA TypeStep ==
    ASSUME TypeInv, [Next]_vars
    PROVE  TypeInv'
<1> USE LimitsAssumption DEF service, Queues
<1>0. /\ TypeOK /\ CallType
      /\ \A n \in DOMAIN nonces : nonces[n] \in Nat /\ nonces[n] <= now
      /\ handed \in Seq(Nonces)
      /\ claims \in [Tokens -> Seq(Claims)] /\ first \in [Tokens -> Seq(Claims)]
  BY DEF TypeInv, TypeOK
<1>1. CASE Tick
  <2>1. now' \in Nat /\ \A n \in DOMAIN nonces : nonces[n] <= now'
    BY <1>0, <1>1 DEF Tick, TypeOK
  <2> QED BY <1>0, <1>1, <2>1 DEF Tick, TypeInv, TypeOK, CallType
<1>2. CASE Restart
  <2>1. claims' \in [Tokens -> Seq(Claims)] /\ \A t \in Tokens : Len(claims'[t]) = 0
    BY <1>2 DEF Restart
  <2>2. DOMAIN nonces' = {} /\ call' = Idle /\ first' = claims'
    BY <1>2 DEF Restart, Empty
  <2> QED BY <1>0, <1>2, <2>1, <2>2 DEF Restart, TypeInv, TypeOK, CallType
<1>3. CASE PersistKeyPackages
  <2>1. call \in CallRecord
    BY <1>0, <1>3 DEF PersistKeyPackages, CallType
  <2>2. /\ stored' \in [Wallets -> Seq(Nonces)]
        /\ \A w \in Wallets : Len(stored'[w]) <= MAX_KEYPACKAGES_PER_WALLET
    <3>1. call.wallet \in Wallets
      BY <2>1 DEF CallRecord
    <3> QED BY <1>0, <1>3, <3>1 DEF PersistKeyPackages, Persisted, TypeOK
  <2>3. CallType'
    BY <1>3, <2>1 DEF PersistKeyPackages, CallType, CallRecord
  <2> QED BY <1>0, <1>3, <2>2, <2>3 DEF PersistKeyPackages, TypeInv, TypeOK
<1>4. CASE PersistFails
  <2>1. call \in CallRecord
    BY <1>0, <1>4 DEF PersistFails, CallType
  <2>2. CallType'
    BY <1>4, <2>1 DEF PersistFails, CallType, CallRecord
  <2> QED BY <1>0, <1>4, <2>2 DEF PersistFails, TypeInv, TypeOK
<1>5. CASE PublishReturns
  <2>1. CallType' /\ failures' \in Nat
    BY <1>0, <1>5 DEF PublishReturns, CallType, TypeOK
  <2> QED BY <1>0, <1>5, <2>1 DEF PublishReturns, TypeInv, TypeOK
<1>6. CASE TakeReturns
  <2>1. call \in CallRecord
    BY <1>0, <1>6 DEF TakeReturns, CallType
  <2>2. CallType' /\ handed' \in Seq(Nonces)
    BY <1>0, <1>6, <2>1 DEF TakeReturns, CallType, CallRecord
  <2> QED BY <1>0, <1>6, <2>2 DEF TakeReturns, TypeInv, TypeOK
<1>7. ASSUME NEW n \in Nonces, IssueChallenge(n) PROVE TypeInv'
  <2>1. /\ DOMAIN nonces' \subseteq Nonces
        /\ \A x \in DOMAIN nonces' : nonces'[x] \in Nat /\ nonces'[x] <= now
    BY <1>0, <1>7 DEF IssueChallenge, Unexpired, TypeOK
  <2> QED BY <1>0, <1>7, <2>1 DEF IssueChallenge, TypeInv, TypeOK, CallType
<1>8. ASSUME NEW n, Consume(n)
      PROVE  /\ DOMAIN nonces' \subseteq DOMAIN nonces
             /\ \A x \in DOMAIN nonces' : nonces'[x] = nonces[x]
  BY <1>8 DEF Consume, Without
<1>9. ASSUME NEW n \in Nonces, AuthenticateRefused(n) PROVE TypeInv'
  BY <1>0, <1>8, <1>9 DEF AuthenticateRefused, TypeInv, TypeOK, CallType
<1>10. ASSUME NEW w \in Wallets, NEW n \in Nonces, Authenticate(w, n) PROVE TypeInv'
  BY <1>0, <1>8, <1>10 DEF Authenticate, TypeInv, TypeOK, CallType
<1>11. ASSUME NEW w \in Wallets, NEW n \in Nonces, PublishKeyPackage(w, n) PROVE TypeInv'
  <2>1. /\ key_packages[w] \in Seq(Nonces)
        /\ Len(key_packages[w]) < MAX_KEYPACKAGES_PER_WALLET
    BY <1>0, <1>11 DEF PublishKeyPackage, BelowQuota, TypeOK
  <2>2. /\ Append(key_packages[w], n) \in Seq(Nonces)
        /\ Len(Append(key_packages[w], n)) <= MAX_KEYPACKAGES_PER_WALLET
    BY <2>1, QueueAppend
  <2>3. /\ key_packages' \in [Wallets -> Seq(Nonces)]
        /\ \A v \in Wallets : Len(key_packages'[v]) <= MAX_KEYPACKAGES_PER_WALLET
    BY <1>0, <1>11, <2>2 DEF PublishKeyPackage, TypeOK
  <2>4. CallType'
    BY <1>11 DEF PublishKeyPackage, CallType, CallRecord
  <2> QED BY <1>0, <1>8, <1>11, <2>3, <2>4 DEF PublishKeyPackage, TypeInv, TypeOK
<1>12. ASSUME NEW w \in Wallets, NEW n \in Nonces, PublishRefused(w, n) PROVE TypeInv'
  BY <1>0, <1>8, <1>12 DEF PublishRefused, TypeInv, TypeOK, CallType
<1>13. ASSUME NEW w \in Wallets, EndSession(w) PROVE TypeInv'
  BY <1>0, <1>13 DEF EndSession, TypeInv, TypeOK, CallType
<1>14. ASSUME NEW w \in Wallets, TakeKeyPackage(w) PROVE TypeInv'
  <2>1. key_packages[w] \in Seq(Nonces) /\ key_packages[w] # <<>>
    BY <1>0, <1>14 DEF TakeKeyPackage, TypeOK
  <2>2. /\ Head(key_packages[w]) \in Nonces /\ Tail(key_packages[w]) \in Seq(Nonces)
        /\ Len(Tail(key_packages[w])) <= Len(key_packages[w])
        /\ Len(Tail(key_packages[w])) \in Nat /\ Len(key_packages[w]) \in Nat
    BY <2>1, QueueTail
  <2>3. /\ key_packages' \in [Wallets -> Seq(Nonces)]
        /\ \A v \in Wallets : Len(key_packages'[v]) <= MAX_KEYPACKAGES_PER_WALLET
    BY <1>0, <1>14, <2>2 DEF TakeKeyPackage, TypeOK
  <2>4. CallType'
    BY <1>14, <2>2 DEF TakeKeyPackage, CallType, CallRecord
  <2> QED BY <1>0, <1>14, <2>3, <2>4 DEF TakeKeyPackage, TypeInv, TypeOK
<1>15. ASSUME NEW t \in Tokens, ClearClaims(t) PROVE TypeInv'
  <2>1. /\ claims' \in [Tokens -> Seq(Claims)] /\ first' \in [Tokens -> Seq(Claims)]
        /\ \A u \in Tokens : Len(claims'[u]) <= MAX_CLAIMS_PER_TOKEN
    BY <1>0, <1>15 DEF ClearClaims, TypeOK
  <2> QED BY <1>0, <1>15, <2>1 DEF ClearClaims, TypeInv, TypeOK, CallType
<1>16. ASSUME NEW w \in Wallets, NEW t \in Tokens, NEW c \in Claims, SubmitClaim(w, t, c)
       PROVE  TypeInv'
  <2>1. claims[t] \in Seq(Claims) /\ Len(claims[t]) <= MAX_CLAIMS_PER_TOKEN
    BY <1>0 DEF TypeOK
  <2>2. Admitted(claims[t], c) \in Seq(Claims) /\ Len(Admitted(claims[t], c)) <= MAX_CLAIMS_PER_TOKEN
    BY <2>1, QueueAppend DEF Admitted
  <2>3. <<c>> \in Seq(Claims)
    OBVIOUS
  <2>4. /\ claims' \in [Tokens -> Seq(Claims)] /\ first' \in [Tokens -> Seq(Claims)]
        /\ \A u \in Tokens : Len(claims'[u]) <= MAX_CLAIMS_PER_TOKEN
    BY <1>0, <1>16, <2>2, <2>3 DEF SubmitClaim, TypeOK
  <2> QED BY <1>0, <1>16, <2>4 DEF SubmitClaim, TypeInv, TypeOK, CallType
<1>17. CASE UNCHANGED vars
  BY <1>0, <1>17 DEF vars, TypeInv, TypeOK, CallType
<1> QED BY <1>1, <1>2, <1>3, <1>4, <1>5, <1>6, <1>7, <1>9, <1>10, <1>11, <1>12, <1>13,
           <1>14, <1>15, <1>16, <1>17 DEF Next

-----------------------------------------------------------------------------
(* Nonces.                                                                 *)

(* A nonce that became a publication: presented, and not for a login. *)
Publication(n) == n \in spent /\ \A l \in logins : l.nonce # n

(* A nonce is live, or it was presented and became a login or a publication, *)
(* of which queues, disk, calls and hand-outs are made; it is never issued   *)
(* again.                                                                    *)
NonceInv ==
    /\ DOMAIN nonces \subseteq DOMAIN issued /\ spent \subseteq DOMAIN issued
    /\ spent \cap DOMAIN nonces = {}
    /\ \A l \in logins : l.nonce \in spent
    /\ \A l, m \in logins : l.nonce = m.nonce => l = m
    /\ \A w \in Wallets : /\ \A n \in Range(key_packages[w]) : Publication(n)
                          /\ \A n \in Range(stored[w]) : Publication(n)
    /\ \A n \in Range(handed) : Publication(n)
    /\ call # Idle => Publication(call.nonce)

(* A nonce that is consumed is not issued again, and everything that names  *)
(* a nonce consumed it.                                                    *)
LEMMA NonceStep ==
    ASSUME TypeInv, NonceInv, [Next]_vars
    PROVE  NonceInv'
<1> USE DEF service
<1>1. CASE Tick
  BY <1>1 DEF Tick, NonceInv, Publication
<1>2. CASE Restart
  <2>1. /\ DOMAIN nonces' = {} /\ call' = Idle /\ key_packages' = stored
        /\ UNCHANGED <<stored, issued, spent, logins, handed>>
    BY <1>2 DEF Restart, Empty
  <2> QED BY <2>1 DEF NonceInv, Publication
<1>3. CASE PersistKeyPackages
  <2>1. \A w \in Wallets : stored'[w] = stored[w] \/ stored'[w] = key_packages[w]
    BY <1>3 DEF PersistKeyPackages, Persisted, TypeInv, TypeOK, Queues
  <2>2. call'.nonce = call.nonce
    BY <1>3 DEF PersistKeyPackages, TypeInv, CallType, CallRecord
  <2> QED BY <1>3, <2>1, <2>2 DEF PersistKeyPackages, NonceInv, Publication
<1>4. CASE PersistFails
  <2>1. call' # Idle => call'.nonce = call.nonce
    BY <1>4 DEF PersistFails, TypeInv, CallType, CallRecord
  <2> QED BY <1>4, <2>1 DEF PersistFails, NonceInv, Publication
<1>5. CASE PublishReturns
  BY <1>5 DEF PublishReturns, NonceInv, Publication
<1>6. CASE TakeReturns
  <2>1. call.nonce \in Nonces /\ Publication(call.nonce)
    BY <1>6 DEF TakeReturns, TypeInv, CallType, CallRecord, NonceInv
  <2>2. Range(handed') = Range(handed) \cup {call.nonce}
    BY <1>6, <2>1, QueueAppend DEF TakeReturns, TypeInv
  <2> QED BY <1>6, <2>1, <2>2 DEF TakeReturns, NonceInv, Publication
<1>7. ASSUME NEW n \in Nonces, IssueChallenge(n) PROVE NonceInv'
  <2>1. DOMAIN nonces' \subseteq DOMAIN nonces \cup {n} /\ DOMAIN issued' = DOMAIN issued \cup {n}
        /\ n \notin DOMAIN issued
    BY <1>7 DEF IssueChallenge, Unexpired
  <2> QED BY <1>7, <2>1 DEF IssueChallenge, NonceInv, Publication
<1>8. ASSUME NEW n, Consume(n)
      PROVE  /\ n \in DOMAIN nonces /\ n \notin spent
             /\ DOMAIN nonces' = DOMAIN nonces \ {n}
             /\ spent' = spent \cup {n}
  BY <1>8 DEF Consume, Without, NonceInv
<1>9. ASSUME NEW n, Consume(n), UNCHANGED <<service, issued, logins, handed>>
      PROVE  NonceInv'
  <2>1. \A x : Publication(x) => Publication(x)'
    BY <1>8, <1>9 DEF Publication
  <2>2. UNCHANGED <<key_packages, stored, call, issued, logins, handed>>
    BY <1>9
  <2>3. /\ n \in DOMAIN nonces /\ n \notin spent
        /\ DOMAIN nonces' = DOMAIN nonces \ {n}
        /\ spent' = spent \cup {n}
    BY <1>8, <1>9
  <2>4. /\ DOMAIN nonces' \subseteq DOMAIN issued' /\ spent' \subseteq DOMAIN issued'
        /\ spent' \cap DOMAIN nonces' = {}
        /\ \A l \in logins' : l.nonce \in spent'
        /\ \A l, m \in logins' : l.nonce = m.nonce => l = m
    BY <2>2, <2>3 DEF NonceInv
  <2> HIDE DEF Publication
  <2> QED BY <2>1, <2>2, <2>4 DEF NonceInv
<1>10. ASSUME NEW w \in Wallets, NEW n \in Nonces, Authenticate(w, n) PROVE NonceInv'
  <2>1. /\ n \in DOMAIN nonces /\ n \notin spent
        /\ DOMAIN nonces' = DOMAIN nonces \ {n}
        /\ spent' = spent \cup {n}
        /\ logins' = logins \cup {[nonce |-> n, at |-> now]}
    BY <1>8, <1>10 DEF Authenticate
  <2>2. \A x : Publication(x) => Publication(x)'
    BY <2>1 DEF Publication
  <2>3. /\ \A l \in logins' : l.nonce \in spent'
        /\ \A l, m \in logins' : l.nonce = m.nonce => l = m
    BY <2>1 DEF NonceInv
  <2> QED BY <1>10, <2>1, <2>2, <2>3 DEF Authenticate, NonceInv
<1>11. ASSUME NEW w \in Wallets, NEW n \in Nonces, PublishKeyPackage(w, n) PROVE NonceInv'
  <2>1. /\ n \in DOMAIN nonces /\ n \notin spent
        /\ DOMAIN nonces' = DOMAIN nonces \ {n}
        /\ spent' = spent \cup {n}
        /\ logins' = logins
    BY <1>8, <1>11 DEF PublishKeyPackage
  <2>2. \A x : Publication(x) => Publication(x)'
    BY <2>1 DEF Publication
  <2>3. Publication(n)'
    BY <2>1 DEF Publication, NonceInv
  <2>4. key_packages[w] \in Seq(Nonces)
    BY DEF TypeInv, TypeOK, Queues
  <2>5. \A v \in Wallets : Range(key_packages'[v]) \subseteq Range(key_packages[v]) \cup {n}
    BY <1>11, <2>4, QueueAppend DEF PublishKeyPackage, TypeInv, TypeOK, Queues
  <2>6. call'.nonce = n
    BY <1>11 DEF PublishKeyPackage
  <2> QED BY <1>11, <2>1, <2>2, <2>3, <2>5, <2>6 DEF PublishKeyPackage, NonceInv
<1>12. ASSUME NEW w \in Wallets, EndSession(w) PROVE NonceInv'
  BY <1>12 DEF EndSession, NonceInv, Publication
<1>13. ASSUME NEW w \in Wallets, TakeKeyPackage(w) PROVE NonceInv'
  <2>1. key_packages[w] \in Seq(Nonces) /\ key_packages[w] # <<>>
    BY <1>13 DEF TakeKeyPackage, TypeInv, TypeOK, Queues
  <2>2. \A v \in Wallets : Range(key_packages'[v]) \subseteq Range(key_packages[v])
    BY <1>13, <2>1, QueueTail DEF TakeKeyPackage, TypeInv, TypeOK, Queues
  <2>3. call'.nonce = Head(key_packages[w]) /\ Head(key_packages[w]) \in Range(key_packages[w])
    BY <1>13, <2>1, QueueTail DEF TakeKeyPackage
  <2> QED BY <1>13, <2>2, <2>3 DEF TakeKeyPackage, NonceInv, Publication
<1>14. ASSUME NEW t \in Tokens, ClearClaims(t) PROVE NonceInv'
  BY <1>14 DEF ClearClaims, NonceInv, Publication
<1>15. ASSUME NEW w \in Wallets, NEW t \in Tokens, NEW c \in Claims, SubmitClaim(w, t, c)
       PROVE  NonceInv'
  BY <1>15 DEF SubmitClaim, NonceInv, Publication
<1>16. CASE UNCHANGED vars
  BY <1>16 DEF vars, NonceInv, Publication
<1>17. ASSUME NEW n \in Nonces, AuthenticateRefused(n) PROVE NonceInv'
  BY <1>9, <1>17 DEF AuthenticateRefused
<1>18. ASSUME NEW w \in Wallets, NEW n \in Nonces, PublishRefused(w, n) PROVE NonceInv'
  BY <1>9, <1>18 DEF PublishRefused
<1> QED BY <1>1, <1>2, <1>3, <1>4, <1>5, <1>6, <1>7, <1>10, <1>11, <1>12, <1>13, <1>14,
           <1>15, <1>16, <1>17, <1>18 DEF Next

-----------------------------------------------------------------------------
(* Memory and disk, while no put has failed.                               *)

Putting(w) == call # Idle /\ call.wallet = w /\ call.step = "put"

(* The queues differ by what the call in progress has still to put. *)
DiskFollows ==
    \A w \in Wallets :
        /\ ~Putting(w) => key_packages[w] = stored[w]
        /\ Putting(w) /\ call.op = "publish" =>
              key_packages[w] = Append(stored[w], call.nonce)
        /\ Putting(w) /\ call.op = "take" =>
              /\ stored[w] # <<>>
              /\ call.nonce = Head(stored[w]) /\ key_packages[w] = Tail(stored[w])

(* A publication not on disk nor handed out: one being published, or one    *)
(* whose removal was put and that is on its way to the taker.               *)
Loose(n) ==
    n \notin Range(handed) /\ \A w \in Wallets : n \notin Range(stored[w])

(* Every publication is at one place on disk, or loose, or handed out once. *)
OnePlace ==
    /\ \A w, v \in Wallets : \A i \in DOMAIN stored[w], j \in DOMAIN stored[v] :
          stored[w][i] = stored[v][j] => w = v /\ i = j
    /\ \A w \in Wallets : \A n \in Range(stored[w]) : n \notin Range(handed)
    /\ IsInjective(handed)
    /\ call # Idle /\ call.step = "put" /\ call.op = "publish" => Loose(call.nonce)
    /\ call # Idle /\ call.step = "return" => Loose(call.nonce)

PlaceInv == failures = 0 => DiskFollows /\ OnePlace

(* Only these can change what PlaceInv is about; a failed put ends it.      *)
LEMMA PlaceStep ==
    ASSUME TypeInv, NonceInv, PlaceInv, [Next]_vars
    PROVE  PlaceInv'
<1> USE DEF service
<1> SUFFICES ASSUME failures' = 0 PROVE DiskFollows' /\ OnePlace'
  BY DEF PlaceInv
<1>0. failures \in Nat /\ key_packages \in [Wallets -> Seq(Nonces)]
      /\ stored \in [Wallets -> Seq(Nonces)] /\ handed \in Seq(Nonces)
      /\ (call # Idle => call \in CallRecord)
  BY DEF TypeInv, TypeOK, Queues, CallType
<1>1. ASSUME UNCHANGED <<key_packages, stored, call, failures, handed>>
      PROVE  DiskFollows' /\ OnePlace'
  BY <1>1 DEF PlaceInv, DiskFollows, OnePlace, Putting, Loose
<1>2. CASE Restart
  BY <1>2 DEF Restart, PlaceInv, DiskFollows, OnePlace, Putting
<1>3. CASE PersistKeyPackages
  <2> DEFINE u == call.wallet
             q == stored[u]
  <2>1. /\ call \in CallRecord /\ u \in Wallets /\ call.nonce \in Nonces /\ call.step = "put"
        /\ Putting(u)
        /\ stored' = [stored EXCEPT ![u] = key_packages[u]]
        /\ UNCHANGED <<key_packages, handed, failures>>
        /\ call'.wallet = u /\ call'.op = call.op /\ call'.nonce = call.nonce
        /\ call'.step = IF call.op = "publish" THEN "audit" ELSE "return"
    BY <1>0, <1>3 DEF PersistKeyPackages, Persisted, CallRecord, Putting
  <2>2. DiskFollows /\ OnePlace
    BY <2>1 DEF PlaceInv
  <2>0. /\ \A w, v \in Wallets : \A i \in DOMAIN stored[w], j \in DOMAIN stored[v] :
             stored[w][i] = stored[v][j] => w = v /\ i = j
        /\ q \in Seq(Nonces)
        /\ stored'[u] = key_packages[u]
        /\ \A w \in Wallets \ {u} : stored'[w] = stored[w]
    BY <1>0, <2>1, <2>2 DEF OnePlace
  <2>3. DiskFollows'
    <3>1. \A w \in Wallets : ~Putting(w)'
      BY <2>1 DEF Putting
    <3>2. \A w \in Wallets \ {u} : ~Putting(w)
      BY DEF Putting
    <3> QED BY <1>0, <2>1, <2>2, <3>1, <3>2 DEF DiskFollows
  <2>4. CASE call.op = "publish"
    <3>1. stored'[u] = Append(q, call.nonce) /\ q \in Seq(Nonces) /\ Loose(call.nonce)
      <4>1. key_packages[u] = Append(q, call.nonce)
        BY <2>1, <2>2, <2>4 DEF DiskFollows
      <4>2. Loose(call.nonce)
        BY <2>1, <2>2, <2>4 DEF OnePlace, Putting
      <4> QED BY <2>0, <4>1, <4>2
    <3>2. /\ DOMAIN stored'[u] = DOMAIN q \cup {Len(q) + 1}
          /\ Len(q) + 1 \notin DOMAIN q
          /\ \A i \in DOMAIN q : stored'[u][i] = q[i]
          /\ stored'[u][Len(q) + 1] = call.nonce
      BY <2>1, <3>1, AppendProperties
    <3>3. \A w \in Wallets \ {u} : stored'[w] = stored[w]
      BY <2>0
    <3>4. \A w \in Wallets : \A i \in DOMAIN stored[w] : stored[w][i] # call.nonce
      BY <3>1 DEF Loose, Range
    <3>5. ASSUME NEW w \in Wallets, NEW v \in Wallets,
                 NEW i \in DOMAIN stored'[w], NEW j \in DOMAIN stored'[v],
                 stored'[w][i] = stored'[v][j]
          PROVE  w = v /\ i = j
      <4>1. CASE w = u /\ i = Len(q) + 1
        BY <3>2, <3>3, <3>4, <3>5, <4>1
      <4>2. CASE v = u /\ j = Len(q) + 1
        BY <3>2, <3>3, <3>4, <3>5, <4>2
      <4>3. CASE ~(w = u /\ i = Len(q) + 1) /\ ~(v = u /\ j = Len(q) + 1)
        <5>1. i \in DOMAIN stored[w] /\ stored'[w][i] = stored[w][i]
          BY <3>2, <3>3, <4>3
        <5>2. j \in DOMAIN stored[v] /\ stored'[v][j] = stored[v][j]
          BY <3>2, <3>3, <4>3
        <5>3. stored[w][i] = stored[v][j]
          BY <3>5, <5>1, <5>2
        <5>4. \A k \in DOMAIN stored[w], l \in DOMAIN stored[v] :
                 stored[w][k] = stored[v][l] => w = v /\ k = l
          BY <2>0
        <5> HIDE DEF q, u
        <5> QED BY <5>1, <5>2, <5>3, <5>4
      <4> QED BY <4>1, <4>2, <4>3
    <3>6. \A w \in Wallets : \A n \in Range(stored'[w]) : n \notin Range(handed')
      <4>1. Range(stored'[u]) = Range(q) \cup {call.nonce}
        <5> DEFINE e == call.nonce
        <5>1. e \in Nonces /\ q \in Seq(Nonces) /\ stored'[u] = Append(q, e)
          BY <2>1, <3>1
        <5> HIDE DEF e, q
        <5>2. Range(Append(q, e)) = Range(q) \cup {e}
          BY <5>1, QueueAppend
        <5> QED BY <5>1, <5>2 DEF e
      <4> QED BY <2>1, <2>2, <3>1, <3>3, <4>1 DEF OnePlace, Loose
    <3>7. call'.step = "audit"
      BY <2>1, <2>4
    <3> QED BY <2>1, <2>2, <2>3, <3>5, <3>6, <3>7 DEF OnePlace
  <2>5. CASE call.op = "take"
    <3>1. /\ stored'[u] = Tail(q) /\ q \in Seq(Nonces) /\ q # <<>>
          /\ call.nonce = Head(q)
      BY <2>0, <2>1, <2>2, <2>5 DEF DiskFollows
    <3>2. /\ \A i \in DOMAIN Tail(q) : /\ i \in Nat \ {0} /\ i + 1 \in DOMAIN q
                                     /\ Tail(q)[i] = q[i + 1]
          /\ Head(q) = q[1] /\ 1 \in DOMAIN q
          /\ Range(q) = Range(Tail(q)) \cup {Head(q)}
      BY <3>1, QueueTail
    <3>3. \A w \in Wallets \ {u} : stored'[w] = stored[w]
      BY <2>0
    <3>4. ASSUME NEW w \in Wallets, NEW i \in DOMAIN stored'[w]
          PROVE  \E k \in DOMAIN stored[w] : /\ stored[w][k] = stored'[w][i]
                                             /\ w = u => k = i + 1 /\ i \in Nat \ {0}
                                             /\ w # u => k = i
      <4>1. CASE w # u
        BY <3>3, <4>1
      <4>2. CASE w = u
        <5>1. i \in DOMAIN Tail(q) /\ stored'[w][i] = Tail(q)[i] /\ stored[w] = q
          BY <3>1, <4>2
        <5>2. /\ i \in Nat \ {0} /\ i + 1 \in DOMAIN stored[w]
              /\ stored[w][i + 1] = stored'[w][i]
          BY <3>2, <5>1
        <5> QED BY <4>2, <5>2
      <4> QED BY <4>1, <4>2
    <3>5. ASSUME NEW w \in Wallets, NEW v \in Wallets,
                 NEW i \in DOMAIN stored'[w], NEW j \in DOMAIN stored'[v],
                 stored'[w][i] = stored'[v][j]
          PROVE  w = v /\ i = j
      <4>1. PICK k \in DOMAIN stored[w] : /\ stored[w][k] = stored'[w][i]
                                          /\ w = u => k = i + 1 /\ i \in Nat \ {0}
                                          /\ w # u => k = i
        BY <3>4
      <4>2. PICK l \in DOMAIN stored[v] : /\ stored[v][l] = stored'[v][j]
                                          /\ v = u => l = j + 1 /\ j \in Nat \ {0}
                                          /\ v # u => l = j
        BY <3>4
      <4>3. w = v /\ k = l
        BY <2>0, <3>5, <4>1, <4>2
      <4> QED BY <4>1, <4>2, <4>3
    <3>6. \A w \in Wallets : Range(stored'[w]) \subseteq Range(stored[w])
      BY <3>1, <3>2, <3>3
    <3>7. \A w \in Wallets : \A n \in Range(stored'[w]) : n \notin Range(handed')
      BY <2>1, <2>2, <3>6 DEF OnePlace
    <3>8. Loose(call.nonce)'
      <4>1. call.nonce \in Range(q)
        BY <3>1, <3>2
      <4>2. call.nonce \notin Range(handed')
        BY <2>1, <2>2, <4>1 DEF OnePlace
      <4>3. ASSUME NEW w \in Wallets, call.nonce \in Range(stored'[w]) PROVE FALSE
        <5>1. PICK i \in DOMAIN stored'[w] : stored'[w][i] = q[1]
          BY <3>1, <3>2, <4>3 DEF Range
        <5>2. PICK k \in DOMAIN stored[w] : /\ stored[w][k] = q[1]
                                            /\ w = u => k = i + 1 /\ i \in Nat \ {0}
          BY <3>4, <5>1
        <5>3. w = u /\ k = 1
          BY <2>0, <2>1, <3>2, <5>2
        <5> QED BY <5>2, <5>3
      <4>4. call'.nonce = call.nonce
        BY <2>1
      <4> QED BY <4>2, <4>3, <4>4 DEF Loose
    <3>9. call'.step = "return" /\ call'.nonce = call.nonce
      BY <2>1, <2>5
    <3> QED BY <2>1, <2>2, <2>3, <3>5, <3>7, <3>8, <3>9 DEF OnePlace
  <2>6. call.op = "publish" \/ call.op = "take"
    BY <2>1 DEF CallRecord
  <2> QED BY <2>3, <2>4, <2>5, <2>6
<1>4. CASE PersistFails
  BY <1>0, <1>4 DEF PersistFails
<1>5. CASE PublishReturns
  <2>1. failures' = failures
    BY <1>0, <1>5 DEF PublishReturns
  <2>2. call.step = "audit" /\ call' = Idle /\ UNCHANGED <<key_packages, stored, handed>>
    BY <1>5 DEF PublishReturns
  <2> QED BY <2>1, <2>2 DEF PlaceInv, DiskFollows, OnePlace, Putting
<1>6. CASE TakeReturns
  <2>1. /\ call # Idle /\ call.step = "return" /\ call.nonce \in Nonces /\ call' = Idle
        /\ handed' = Append(handed, call.nonce)
        /\ UNCHANGED <<key_packages, stored, failures>>
    BY <1>0, <1>6 DEF TakeReturns, CallRecord
  <2>2. DiskFollows /\ OnePlace /\ Loose(call.nonce)
    BY <2>1 DEF PlaceInv, OnePlace
  <2>3. Range(handed') = Range(handed) \cup {call.nonce}
    BY <1>0, <2>1, QueueAppend
  <2>4. IsInjective(handed')
    <3> DEFINE n == Len(handed)
    <3>1. /\ n \in Nat /\ DOMAIN handed = 1..n /\ DOMAIN handed' = 1..(n + 1)
          /\ \A i \in 1..n : handed'[i] = handed[i]
          /\ handed'[n + 1] = call.nonce
          /\ \A i \in 1..(n + 1) : i \in 1..n \/ i = n + 1
      BY <1>0, <2>1, AppendProperties
    <3> HIDE DEF n
    <3>2. \A i \in 1..n : handed[i] # call.nonce
      BY <2>2, <3>1 DEF Loose, Range
    <3>3. \A i, j \in 1..n : handed[i] = handed[j] => i = j
      BY <2>2, <3>1 DEF OnePlace, IsInjective
    <3> QED BY <3>1, <3>2, <3>3 DEF IsInjective
  <2>5. DiskFollows'
    BY <2>1, <2>2 DEF DiskFollows, Putting
  <2> QED BY <2>1, <2>2, <2>3, <2>4, <2>5 DEF OnePlace, Loose
<1>7. ASSUME NEW w \in Wallets, NEW n \in Nonces, PublishKeyPackage(w, n)
      PROVE  DiskFollows' /\ OnePlace'
  <2>1. /\ call = Idle /\ n \in DOMAIN nonces
        /\ key_packages' = [key_packages EXCEPT ![w] = Append(key_packages[w], n)]
        /\ call' = [op |-> "publish", wallet |-> w, nonce |-> n, step |-> "put"]
        /\ UNCHANGED <<stored, failures, handed>>
    BY <1>7 DEF PublishKeyPackage, Ready, Consume
  <2>2. DiskFollows /\ OnePlace
    BY <2>1 DEF PlaceInv
  <2>3. key_packages = stored
    <3>1. \A v \in Wallets : key_packages[v] = stored[v]
      BY <2>1, <2>2 DEF DiskFollows, Putting
    <3> QED BY <1>0, <3>1
  <2>4. Loose(n)
    BY <2>1 DEF Loose, NonceInv, Publication
  <2>5. call' # Idle /\ call'.step = "put" /\ call'.op = "publish" /\ call'.wallet = w
        /\ call'.nonce = n
    BY <2>1 DEF Idle
  <2>6. DiskFollows'
    <3>1. \A v \in Wallets : Putting(v)' <=> v = w
      BY <2>5 DEF Putting
    <3> QED BY <1>0, <2>1, <2>3, <2>5, <3>1 DEF DiskFollows
  <2>7. Loose(n)'
    BY <2>1, <2>4 DEF Loose
  <2> QED BY <2>1, <2>2, <2>5, <2>6, <2>7 DEF OnePlace
<1>8. ASSUME NEW w \in Wallets, TakeKeyPackage(w) PROVE DiskFollows' /\ OnePlace'
  <2>1. /\ call = Idle /\ key_packages[w] # <<>>
        /\ key_packages' = [key_packages EXCEPT ![w] = Tail(key_packages[w])]
        /\ call' = [op |-> "take", wallet |-> w, nonce |-> Head(key_packages[w]), step |-> "put"]
        /\ UNCHANGED <<stored, failures, handed>>
    BY <1>8 DEF TakeKeyPackage, Ready
  <2>2. DiskFollows /\ OnePlace
    BY <2>1 DEF PlaceInv
  <2>3. key_packages = stored
    <3>1. \A v \in Wallets : key_packages[v] = stored[v]
      BY <2>1, <2>2 DEF DiskFollows, Putting
    <3> QED BY <1>0, <3>1
  <2>4. call' # Idle /\ call'.step = "put" /\ call'.op = "take" /\ call'.wallet = w
        /\ call'.nonce = Head(stored[w])
    BY <2>1, <2>3 DEF Idle
  <2>5. DiskFollows'
    <3>1. \A v \in Wallets : Putting(v)' <=> v = w
      BY <2>4 DEF Putting
    <3> QED BY <1>0, <2>1, <2>3, <2>4, <3>1 DEF DiskFollows
  <2> QED BY <2>1, <2>2, <2>4, <2>5 DEF OnePlace
<1>9. CASE Tick
  BY <1>1, <1>9 DEF Tick
<1>10. ASSUME NEW n \in Nonces, IssueChallenge(n) \/ AuthenticateRefused(n)
       PROVE  DiskFollows' /\ OnePlace'
  BY <1>1, <1>10 DEF IssueChallenge, AuthenticateRefused
<1>11. ASSUME NEW w \in Wallets, NEW n \in Nonces, Authenticate(w, n) \/ PublishRefused(w, n)
       PROVE  DiskFollows' /\ OnePlace'
  BY <1>1, <1>11 DEF Authenticate, PublishRefused
<1>12. ASSUME NEW w \in Wallets, EndSession(w) PROVE DiskFollows' /\ OnePlace'
  BY <1>1, <1>12 DEF EndSession
<1>13. ASSUME NEW t \in Tokens, ClearClaims(t) PROVE DiskFollows' /\ OnePlace'
  BY <1>1, <1>13 DEF ClearClaims
<1>14. ASSUME NEW w \in Wallets, NEW t \in Tokens, NEW c \in Claims, SubmitClaim(w, t, c)
       PROVE  DiskFollows' /\ OnePlace'
  BY <1>1, <1>14 DEF SubmitClaim
<1>15. CASE UNCHANGED vars
  BY <1>1, <1>15 DEF vars
<1> QED BY <1>2, <1>3, <1>4, <1>5, <1>6, <1>7, <1>8, <1>9, <1>10, <1>11, <1>12, <1>13,
           <1>14, <1>15 DEF Next

-----------------------------------------------------------------------------
(* Promised publications, whatever puts fail.                              *)

Taking(n, w) == call # Idle /\ call.op = "take" /\ call.nonce = n /\ call.wallet = w

(* On disk, and in memory unless it is just being taken from the same queue. *)
OnDisk(n, w) ==
    n \in Range(stored[w]) /\ (n \in Range(key_packages[w]) \/ Taking(n, w))

PublishedSoFar ==
    call # Idle /\ call.op = "publish" =>
        /\ call.nonce \in Range(key_packages[call.wallet])
        /\ call.step = "audit" => call.nonce \in Range(stored[call.wallet])

KeptInv ==
    /\ PublishedSoFar
    /\ \A n \in promised \ (withdrawn \cup Range(handed)) : \E w \in Wallets : OnDisk(n, w)

(* Only the end of a publication promises, and only a put removal or a      *)
(* hand-out ends a promise.                                                 *)
LEMMA KeptStep ==
    ASSUME TypeInv, KeptInv, [Next]_vars
    PROVE  KeptInv'
<1> USE DEF service
<1>0. /\ key_packages \in [Wallets -> Seq(Nonces)] /\ stored \in [Wallets -> Seq(Nonces)]
      /\ handed \in Seq(Nonces)
      /\ (call # Idle => call \in CallRecord)
      /\ PublishedSoFar
      /\ \A n \in promised \ (withdrawn \cup Range(handed)) : \E w \in Wallets : OnDisk(n, w)
  BY DEF TypeInv, TypeOK, Queues, CallType, KeptInv
<1>1. ASSUME UNCHANGED <<key_packages, stored, call, promised, withdrawn, handed>>
      PROVE  KeptInv'
  BY <1>1 DEF KeptInv, PublishedSoFar, OnDisk, Taking
<1>2. CASE Restart
  <2>1. /\ call' = Idle /\ key_packages' = stored
        /\ UNCHANGED <<stored, promised, withdrawn, handed>>
    BY <1>2 DEF Restart
  <2> QED BY <1>0, <2>1 DEF KeptInv, PublishedSoFar, OnDisk
<1>3. CASE PersistKeyPackages
  <2> DEFINE u == call.wallet
  <2>1. /\ call \in CallRecord /\ u \in Wallets /\ call # Idle
        /\ stored'[u] = key_packages[u]
        /\ \A w \in Wallets \ {u} : stored'[w] = stored[w]
        /\ UNCHANGED <<key_packages, handed, promised>>
        /\ call'.wallet = u /\ call'.op = call.op /\ call'.nonce = call.nonce
    BY <1>0, <1>3 DEF PersistKeyPackages, Persisted, CallRecord
  <2>2. withdrawn' = IF call.op = "take" THEN withdrawn \cup {call.nonce} ELSE withdrawn
    BY <1>3 DEF PersistKeyPackages
  <2> HIDE DEF u
  <2>3. PublishedSoFar'
    <3>1. call.wallet = u
      BY DEF u
    <3> QED BY <1>0, <2>1, <3>1 DEF PublishedSoFar
  <2>4. ASSUME NEW n \in promised' \ (withdrawn' \cup Range(handed'))
        PROVE  \E w \in Wallets : OnDisk(n, w)'
    <3>1. PICK w \in Wallets : OnDisk(n, w)
      BY <1>0, <2>1, <2>2
    <3>2. n \in Range(key_packages[w])
      BY <2>2, <3>1 DEF OnDisk, Taking
    <3>3. n \in Range(stored'[w])
      BY <2>1, <3>1, <3>2 DEF OnDisk
    <3> QED BY <2>1, <3>2, <3>3 DEF OnDisk
  <2> QED BY <2>3, <2>4 DEF KeptInv
<1>4. CASE PersistFails
  <2>1. /\ call \in CallRecord /\ call # Idle
        /\ UNCHANGED <<key_packages, stored, handed, promised, withdrawn>>
        /\ call' = IF call.op = "publish" THEN Idle ELSE [call EXCEPT !.step = "return"]
    BY <1>0, <1>4 DEF PersistFails
  <2>2. call.op = "take" => /\ call'.op = "take" /\ call'.nonce = call.nonce
                            /\ call'.wallet = call.wallet /\ call' # Idle
    BY <2>1 DEF CallRecord, Idle
  <2>3. call.op = "publish" => call' = Idle
    BY <2>1
  <2>4. call.op = "publish" \/ call.op = "take"
    BY <2>1 DEF CallRecord
  <2>5. PublishedSoFar'
    BY <2>2, <2>3, <2>4 DEF PublishedSoFar
  <2>6. \A n, w : OnDisk(n, w) => OnDisk(n, w)'
    BY <2>1, <2>2 DEF OnDisk, Taking
  <2> QED BY <1>0, <2>1, <2>5, <2>6 DEF KeptInv
<1>5. CASE PublishReturns
  <2> DEFINE u == call.wallet
  <2>1. /\ call # Idle /\ call.op = "publish" /\ call.step = "audit" /\ u \in Wallets
        /\ call' = Idle
        /\ UNCHANGED <<key_packages, stored, handed, withdrawn>>
        /\ promised' \subseteq promised \cup {call.nonce}
    BY <1>0, <1>5 DEF PublishReturns, TypeInv, CallType, CallRecord
  <2>2. call.nonce \in Range(key_packages[u]) /\ call.nonce \in Range(stored[u])
    BY <1>0, <2>1 DEF PublishedSoFar
  <2>3. \A n, w : OnDisk(n, w) => OnDisk(n, w)'
    BY <2>1 DEF OnDisk, Taking
  <2>4. ASSUME NEW n \in promised' \ (withdrawn' \cup Range(handed'))
        PROVE  \E w \in Wallets : OnDisk(n, w)'
    <3>1. CASE n = call.nonce
      <4>1. n \in Range(key_packages'[u]) /\ n \in Range(stored'[u]) /\ u \in Wallets
        BY <2>1, <2>2, <3>1
      <4> HIDE DEF u
      <4> QED BY <4>1 DEF OnDisk
    <3>2. CASE n # call.nonce
      <4>1. \E w \in Wallets : OnDisk(n, w)
        BY <1>0, <2>1, <3>2
      <4> QED BY <2>3, <4>1
    <3> QED BY <3>1, <3>2
  <2>5. PublishedSoFar'
    BY <2>1 DEF PublishedSoFar
  <2> QED BY <2>4, <2>5 DEF KeptInv
<1>6. CASE TakeReturns
  <2>1. /\ call # Idle /\ call.nonce \in Nonces /\ call' = Idle
        /\ handed' = Append(handed, call.nonce)
        /\ UNCHANGED <<key_packages, stored, promised, withdrawn>>
    BY <1>0, <1>6 DEF TakeReturns, CallRecord
  <2>2. Range(handed') = Range(handed) \cup {call.nonce}
    BY <1>0, <2>1, QueueAppend
  <2>3. \A n, w : n # call.nonce /\ OnDisk(n, w) => OnDisk(n, w)'
    BY <2>1 DEF OnDisk, Taking
  <2> QED BY <1>0, <2>1, <2>2, <2>3 DEF KeptInv, PublishedSoFar
<1>7. ASSUME NEW w \in Wallets, NEW n \in Nonces, PublishKeyPackage(w, n) PROVE KeptInv'
  <2>1. /\ call = Idle
        /\ key_packages' = [key_packages EXCEPT ![w] = Append(key_packages[w], n)]
        /\ call' = [op |-> "publish", wallet |-> w, nonce |-> n, step |-> "put"]
        /\ UNCHANGED <<stored, handed, promised, withdrawn>>
    BY <1>7 DEF PublishKeyPackage, Ready
  <2>2. /\ Range(key_packages'[w]) = Range(key_packages[w]) \cup {n}
        /\ \A v \in Wallets \ {w} : key_packages'[v] = key_packages[v]
    <3>1. key_packages[w] \in Seq(Nonces)
      BY <1>0
    <3>2. Range(Append(key_packages[w], n)) = Range(key_packages[w]) \cup {n}
      BY <3>1, QueueAppend
    <3> QED BY <1>0, <2>1, <3>2
  <2>3. \A m : \A v \in Wallets : OnDisk(m, v) => OnDisk(m, v)'
    BY <2>1, <2>2 DEF OnDisk, Taking
  <2>4. PublishedSoFar'
    BY <2>1, <2>2 DEF PublishedSoFar
  <2> QED BY <1>0, <2>1, <2>3, <2>4 DEF KeptInv
<1>8. ASSUME NEW w \in Wallets, TakeKeyPackage(w) PROVE KeptInv'
  <2>1. /\ call = Idle /\ key_packages[w] # <<>> /\ key_packages[w] \in Seq(Nonces)
        /\ key_packages' = [key_packages EXCEPT ![w] = Tail(key_packages[w])]
        /\ call' = [op |-> "take", wallet |-> w, nonce |-> Head(key_packages[w]), step |-> "put"]
        /\ UNCHANGED <<stored, handed, promised, withdrawn>>
    BY <1>0, <1>8 DEF TakeKeyPackage, Ready
  <2>2. /\ Range(key_packages[w]) = Range(key_packages'[w]) \cup {Head(key_packages[w])}
        /\ \A v \in Wallets \ {w} : key_packages'[v] = key_packages[v]
    <3>1. Range(key_packages[w]) = Range(Tail(key_packages[w])) \cup {Head(key_packages[w])}
      BY <2>1, QueueTail
    <3> QED BY <1>0, <2>1, <3>1
  <2>3. call' # Idle /\ call'.op = "take" /\ call'.wallet = w
        /\ call'.nonce = Head(key_packages[w])
    BY <2>1 DEF Idle
  <2>4. \A m : \A v \in Wallets : OnDisk(m, v) => OnDisk(m, v)'
    BY <2>1, <2>2, <2>3 DEF OnDisk, Taking
  <2>5. PublishedSoFar'
    BY <2>3 DEF PublishedSoFar
  <2> QED BY <1>0, <2>1, <2>4, <2>5 DEF KeptInv
<1>9. CASE Tick
  BY <1>1, <1>9 DEF Tick
<1>10. ASSUME NEW n \in Nonces, IssueChallenge(n) \/ AuthenticateRefused(n) PROVE KeptInv'
  BY <1>1, <1>10 DEF IssueChallenge, AuthenticateRefused
<1>11. ASSUME NEW w \in Wallets, NEW n \in Nonces, Authenticate(w, n) \/ PublishRefused(w, n)
       PROVE  KeptInv'
  BY <1>1, <1>11 DEF Authenticate, PublishRefused
<1>12. ASSUME NEW w \in Wallets, EndSession(w) PROVE KeptInv'
  BY <1>1, <1>12 DEF EndSession
<1>13. ASSUME NEW t \in Tokens, ClearClaims(t) PROVE KeptInv'
  BY <1>1, <1>13 DEF ClearClaims
<1>14. ASSUME NEW w \in Wallets, NEW t \in Tokens, NEW c \in Claims, SubmitClaim(w, t, c)
       PROVE  KeptInv'
  BY <1>1, <1>14 DEF SubmitClaim
<1>15. CASE UNCHANGED vars
  BY <1>1, <1>15 DEF vars
<1> QED BY <1>2, <1>3, <1>4, <1>5, <1>6, <1>7, <1>8, <1>9, <1>10, <1>11, <1>12, <1>13,
           <1>14, <1>15 DEF Next

-----------------------------------------------------------------------------
(* The claims inbox.                                                       *)

(* The first claim since the inbox was emptied is the one at its front. *)
FirstInFront ==
    \A t \in Tokens : /\ claims[t] = <<>> => first[t] = <<>>
                      /\ claims[t] # <<>> => first[t] = <<claims[t][1]>>

(* The front of an inbox changes only when the inbox is emptied.           *)
LEMMA FirstStep ==
    ASSUME TypeInv, FirstInFront, [Next]_vars
    PROVE  FirstInFront'
<1> USE DEF service
<1>0. claims \in [Tokens -> Seq(Claims)] /\ first \in [Tokens -> Seq(Claims)]
  BY DEF TypeInv
<1>1. ASSUME UNCHANGED <<claims, first>> PROVE FirstInFront'
  BY <1>1 DEF FirstInFront
<1>2. CASE Restart
  BY <1>2 DEF Restart, FirstInFront
<1>3. ASSUME NEW t \in Tokens, ClearClaims(t) PROVE FirstInFront'
  BY <1>0, <1>3 DEF ClearClaims, FirstInFront
<1>4. ASSUME NEW w \in Wallets, NEW t \in Tokens, NEW c \in Claims, SubmitClaim(w, t, c)
      PROVE  FirstInFront'
  <2>1. /\ claims' = [claims EXCEPT ![t] = Admitted(claims[t], c)]
        /\ first' = IF first[t] = <<>> THEN [first EXCEPT ![t] = <<c>>] ELSE first
    BY <1>4 DEF SubmitClaim
  <2>2. CASE claims[t] = <<>>
    <3>1. Admitted(<<>>, c) = Append(<<>>, c)
      BY LimitsAssumption DEF Admitted, Range
    <3>2. Append(<<>>, c) = <<c>> /\ <<c>>[1] = c /\ <<c>> # <<>>
      OBVIOUS
    <3>3. first[t] = <<>>
      BY <2>2 DEF FirstInFront
    <3>4. claims'[t] = <<c>> /\ first'[t] = <<c>>
      BY <1>0, <2>1, <2>2, <3>1, <3>2, <3>3
    <3>5. \A u \in Tokens \ {t} : claims'[u] = claims[u] /\ first'[u] = first[u]
      BY <1>0, <2>1
    <3> QED BY <3>2, <3>4, <3>5 DEF FirstInFront
  <2>3. CASE claims[t] # <<>>
    <3> DEFINE q == claims[t]
    <3>1. q \in Seq(Claims) /\ Len(q) \in Nat \ {0}
      BY <1>0, <2>3
    <3>2. Admitted(q, c) # <<>> /\ Admitted(q, c)[1] = q[1]
      <4>1. Append(q, c) # <<>> /\ Append(q, c)[1] = q[1]
        BY <3>1, AppendProperties
      <4> QED BY <2>3, <4>1 DEF Admitted
    <3>3. first[t] = <<q[1]>> /\ first[t] # <<>>
      <4>1. first[t] = <<q[1]>>
        BY <2>3, Zenon DEF FirstInFront
      <4>2. <<q[1]>> # <<>>
        OBVIOUS
      <4> QED BY <4>1, <4>2, Zenon
    <3>4. claims'[t] = Admitted(q, c) /\ first' = first
      BY <1>0, <2>1, <3>3
    <3>5. \A u \in Tokens \ {t} : claims'[u] = claims[u]
      BY <1>0, <2>1
    <3> QED BY <3>2, <3>3, <3>4, <3>5 DEF FirstInFront
  <2> QED BY <2>2, <2>3
<1>5. CASE Tick \/ PersistKeyPackages \/ PersistFails \/ PublishReturns \/ TakeReturns
  BY <1>1, <1>5 DEF Tick, PersistKeyPackages, PersistFails, PublishReturns, TakeReturns
<1>6. ASSUME NEW n \in Nonces, IssueChallenge(n) \/ AuthenticateRefused(n) PROVE FirstInFront'
  BY <1>1, <1>6 DEF IssueChallenge, AuthenticateRefused
<1>7. ASSUME NEW w \in Wallets, NEW n \in Nonces,
             Authenticate(w, n) \/ PublishKeyPackage(w, n) \/ PublishRefused(w, n)
      PROVE  FirstInFront'
  BY <1>1, <1>7 DEF Authenticate, PublishKeyPackage, PublishRefused
<1>8. ASSUME NEW w \in Wallets, EndSession(w) \/ TakeKeyPackage(w) PROVE FirstInFront'
  BY <1>1, <1>8 DEF EndSession, TakeKeyPackage
<1>9. CASE UNCHANGED vars
  BY <1>1, <1>9 DEF vars
<1> QED BY <1>2, <1>3, <1>4, <1>5, <1>6, <1>7, <1>8, <1>9 DEF Next

-----------------------------------------------------------------------------
(* The inductive invariant of the directory. *)
DirectoryInv == TypeInv /\ NonceInv /\ PlaceInv /\ KeptInv /\ FirstInFront

(* Directory: the invariant holds in every reachable state.                *)
THEOREM Directory == Spec => []DirectoryInv
<1>1. Init => DirectoryInv
  <2> SUFFICES ASSUME Init PROVE DirectoryInv
    OBVIOUS
  <2>1. /\ \A w \in Wallets : key_packages[w] = <<>> /\ stored[w] = <<>>
        /\ handed = <<>> /\ call = Idle /\ promised = {} /\ DOMAIN nonces = {}
        /\ logins = {} /\ spent = {} /\ DOMAIN issued = {}
        /\ \A t \in Tokens : claims[t] = <<>> /\ first[t] = <<>>
    BY DEF Init, Empty
  <2>2. TypeInv
    BY <2>1, LimitsAssumption DEF Init, TypeInv, TypeOK, CallType, Queues
  <2>3. NonceInv
    BY <2>1 DEF NonceInv, Range
  <2>4. PlaceInv
    BY <2>1 DEF PlaceInv, DiskFollows, OnePlace, Putting, IsInjective, Range
  <2>5. KeptInv /\ FirstInFront
    BY <2>1 DEF KeptInv, PublishedSoFar, FirstInFront
  <2> QED BY <2>2, <2>3, <2>4, <2>5 DEF DirectoryInv
<1>2. DirectoryInv /\ [Next]_vars => DirectoryInv'
  BY TypeStep, NonceStep, PlaceStep, KeptStep, FirstStep DEF DirectoryInv
<1> QED BY <1>1, <1>2, PTL DEF Spec

(* What may be used once is used once, for any number of wallets, nonces    *)
(* and restarts: a nonce is accepted for one login or one publication, and  *)
(* take_key_package hands a package out once unless a put has failed.       *)
THEOREM SingleUseHolds == Spec => []SingleUse
<1>1. DirectoryInv => SingleUse
  <2> SUFFICES ASSUME DirectoryInv PROVE SingleUse
    OBVIOUS
  <2>1. NonceSingleUse
    BY DEF DirectoryInv, NonceInv, Publication, NonceSingleUse
  <2>2. OneTimeUse
    BY DEF DirectoryInv, PlaceInv, OnePlace, OneTimeUse
  <2> QED BY <2>1, <2>2 DEF DirectoryInv, TypeInv, SingleUse
<1> QED BY <1>1, Directory, PTL

(* What was accepted stays, whatever puts fail and however often the relay  *)
(* restarts: a promised KeyPackage is on disk until it is handed out or its *)
(* removal is put, and the first claim stays first until the inbox is       *)
(* cleared (A007).                                                          *)
THEOREM AcceptedKeptHolds == Spec => []AcceptedKept
<1>1. DirectoryInv => AcceptedKept
  <2> SUFFICES ASSUME DirectoryInv PROVE AcceptedKept
    OBVIOUS
  <2>1. PromisedKept
    BY DEF DirectoryInv, KeptInv, OnDisk, PromisedKept
  <2>2. ClaimsKeepFirst
    <3> SUFFICES ASSUME NEW t \in Tokens, first[t] # <<>>
                 PROVE  IsPrefix(first[t], claims[t])
      BY DEF ClaimsKeepFirst
    <3> DEFINE q == claims[t]
    <3>1. q \in Seq(Claims) /\ q # <<>> /\ first[t] = <<q[1]>>
      BY DEF DirectoryInv, FirstInFront, TypeInv
    <3> HIDE DEF q
    <3>2. Len(q) \in Nat \ {0} /\ Len(<<q[1]>>) = 1 /\ q[1] \in Claims
      BY <3>1
    <3>3. SubSeq(<<q[1]>>, 1, 1) = SubSeq(q, 1, 1)
      BY <3>1, <3>2
    <3> QED BY <3>1, <3>2, <3>3 DEF IsPrefix, q
  <2> QED BY <2>1, <2>2 DEF AcceptedKept
<1> QED BY <1>1, Directory, PTL
=============================================================================

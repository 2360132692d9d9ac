--------------------------- MODULE RelayWsProofs ---------------------------
(***************************************************************************)
(* Theorems about RelayWs, for any number of connections and wallets: when *)
(* no connection authenticates as a second wallet (OneWalletEach), nothing *)
(* of a connection outlives its teardown, neither a registry entry nor a   *)
(* session.  The hypothesis is needed: a connection that authenticates as  *)
(* two wallets leaves the first one's session behind (README, section 7).  *)
(*                                                                         *)
(* RegistryLive and SessionHasConnection are not inductive: the teardown   *)
(* removes the entry and the session of authed[c], so the argument needs   *)
(* that authed[c] is the one wallet c can have registered (Held) and that  *)
(* a registry entry points to a connection authenticated as its wallet     *)
(* (RegistryHeld).                                                         *)
(*                                                                         *)
(* Under the same hypothesis the connection count is exact and each        *)
(* envelope reaches one stream of its wallet at most, in order             *)
(* (ConnectionsServed).  ServedInv adds that the connections that run are  *)
(* finitely many (CountInv), what a handler carries from one lock to the   *)
(* next (JobInv: a copy of the registry still names connections that can   *)
(* sign for the wallet), that mailboxes fill in the order of acceptance    *)
(* (MailInv), and that all on a stream is older than what still waits      *)
(* (StreamInv).                                                            *)
(***************************************************************************)
EXTENDS RelayWs, FiniteSetTheorems, SequenceTheorems, TLAPS

OneWalletEach == \A c \in Conns : \A v, w \in Holds[c] : v = w

Steps == {"new", "reading", "register", "gated", "targets", "deliver", "notify",
          "unregister", "end_session", "abort", "gone"}

Shape ==
    /\ pc \in [Conns -> Steps]
    /\ authed \in [Conns -> Wallets \cup {None}]
    /\ registry \in [Wallets -> Conns \cup {None}]
    /\ sessions \subseteq Wallets
    /\ job = [c \in Conns |-> job[c]]

Held ==
    \A c \in Conns :
        /\ authed[c] # None => authed[c] \in Holds[c]
        /\ pc[c] = "register" => job[c].wallet \in Holds[c]
        /\ pc[c] \in {"unregister", "end_session"} => authed[c] # None

RegistryHeld ==
    \A w \in Wallets : registry[w] # None =>
        /\ authed[registry[w]] = w
        /\ pc[registry[w]] \notin {"end_session", "abort", "gone"}

IInv == Shape /\ Held /\ RegistryHeld /\ SessionHasConnection

(* The steps that neither log in nor tear down.                            *)
Neutral ==
    /\ UNCHANGED <<authed, registry>>
    /\ sessions' \subseteq sessions
    /\ job' = [c \in Conns |-> job'[c]]
    /\ pc' \in [Conns -> Steps]
    /\ \A c \in Conns :
          \/ pc'[c] = pc[c] /\ job'[c] = job[c]
          \/ /\ pc[c] \notin {"register", "unregister", "end_session", "abort", "gone"}
             /\ pc'[c] \notin {"register", "unregister", "end_session", "abort", "gone"}

(* They keep the invariant.                                                *)
LEMMA NeutralKeeps ==
    ASSUME IInv, Neutral
    PROVE  IInv'
<1>1. Shape'
  BY DEF IInv, Shape, Neutral
<1>2. Held'
  BY DEF IInv, Held, Shape, Neutral
<1>3. RegistryHeld'
  BY NoneAssumption DEF IInv, RegistryHeld, Shape, Neutral
<1>4. SessionHasConnection'
  BY DEF IInv, SessionHasConnection, Shape, Neutral
<1> QED BY <1>1, <1>2, <1>3, <1>4 DEF IInv

(* Every step keeps the invariant.                                         *)
LEMMA TeardownStep ==
    ASSUME OneWalletEach, IInv, [Next]_vars
    PROVE  IInv'
<1> USE DEF Steps
<1>1. CASE UNCHANGED vars
  BY <1>1, NeutralKeeps DEF vars, IInv, Shape, Neutral
<1>2. ASSUME NEW c \in Conns, \/ Accept(c) \/ Disconnect(c) \/ Write(c)
                              \/ Refuse(c) \/ Targets(c) \/ DeliverPending(c)
                              \/ NotifyRecipients(c)
                              \/ \E op \in Ops : Dispatch(c, op)
      PROVE  IInv'
  <2>1. Neutral
    BY <1>2 DEF IInv, Shape, Neutral, Accept, Disconnect, Write, Refuse, Targets,
       DeliverPending, NotifyRecipients, Dispatch, service
  <2> QED BY <2>1, NeutralKeeps
<1>3. ASSUME NEW c \in Conns, NEW R \in Audiences,
             Submit(c, R) \/ \E w \in Wallets : Offboard(c, R, w)
      PROVE  IInv'
  <2>1. Neutral
    BY <1>3 DEF IInv, Shape, Neutral, Submit, Offboard, Accepted
  <2> QED BY <2>1, NeutralKeeps
<1>4. ASSUME NEW p \in Switch, SetPaused(p) PROVE IInv'
  BY <1>4, NeutralKeeps DEF SetPaused, service, IInv, Shape, Neutral
<1>5. ASSUME NEW c \in Conns, NEW w \in Wallets, Authenticate(c, w) PROVE IInv'
  <2>1. Shape'
    BY <1>5 DEF IInv, Shape, Authenticate
  <2>2. Held'
    BY <1>5 DEF IInv, Shape, Held, Authenticate
  <2>3. RegistryHeld'
    BY <1>5, NoneAssumption DEF IInv, Shape, RegistryHeld, Authenticate
  <2>4. SessionHasConnection'
    BY <1>5 DEF IInv, Shape, SessionHasConnection, Authenticate
  <2> QED BY <2>1, <2>2, <2>3, <2>4 DEF IInv
<1>6. ASSUME NEW c \in Conns, Register(c) PROVE IInv'
  <2>0. job[c].wallet \in Holds[c] /\ job[c].wallet \in Wallets
    BY <1>6, HoldsAssumption DEF IInv, Held, Register
  <2>1. Shape'
    BY <1>6, <2>0 DEF IInv, Shape, Register, service
  <2>2. Held'
    BY <1>6, <2>0 DEF IInv, Shape, Held, Register
  <2>3. RegistryHeld'
    BY <1>6, <2>0, NoneAssumption DEF IInv, Shape, Held, RegistryHeld, Register, OneWalletEach
  <2>4. SessionHasConnection'
    BY <1>6, <2>0, NoneAssumption DEF IInv, Shape, SessionHasConnection, Register, service
  <2> QED BY <2>1, <2>2, <2>3, <2>4 DEF IInv
<1>7. ASSUME NEW c \in Conns, CloseSeen(c) PROVE IInv'
  <2>1. Shape'
    BY <1>7 DEF IInv, Shape, CloseSeen, AfterClose, service
  <2>2. Held'
    BY <1>7 DEF IInv, Shape, Held, CloseSeen, AfterClose
  <2>3. RegistryHeld'
    BY <1>7, NoneAssumption DEF IInv, Shape, RegistryHeld, CloseSeen, AfterClose
  <2>4. SessionHasConnection'
    BY <1>7 DEF IInv, Shape, SessionHasConnection, CloseSeen, AfterClose, service
  <2> QED BY <2>1, <2>2, <2>3, <2>4 DEF IInv
<1>8. ASSUME NEW c \in Conns, Unregister(c) PROVE IInv'
  <2>0. authed[c] \in Wallets
    BY <1>8 DEF IInv, Shape, Held, Unregister
  <2>1. Shape'
    BY <1>8, <2>0 DEF IInv, Shape, Unregister, Unregistered, service
  <2>2. Held'
    BY <1>8 DEF IInv, Shape, Held, Unregister
  <2>3. RegistryHeld'
    BY <1>8, <2>0, NoneAssumption DEF IInv, Shape, RegistryHeld, Unregister, Unregistered
  <2>4. SessionHasConnection'
    BY <1>8 DEF IInv, Shape, SessionHasConnection, Unregister, service
  <2> QED BY <2>1, <2>2, <2>3, <2>4 DEF IInv
<1>9. ASSUME NEW c \in Conns, EndSession(c) PROVE IInv'
  <2>1. Shape'
    BY <1>9 DEF IInv, Shape, EndSession, SessionEnded
  <2>2. Held'
    BY <1>9 DEF IInv, Shape, Held, EndSession
  <2>3. RegistryHeld'
    BY <1>9, NoneAssumption DEF IInv, Shape, RegistryHeld, EndSession
  <2>4. SessionHasConnection'
    BY <1>9 DEF IInv, Shape, Held, SessionHasConnection, EndSession, SessionEnded, OneWalletEach
  <2> QED BY <2>1, <2>2, <2>3, <2>4 DEF IInv
<1>10. ASSUME NEW c \in Conns, Abort(c) PROVE IInv'
  <2>1. Shape'
    BY <1>10 DEF IInv, Shape, Abort, service
  <2>2. Held'
    BY <1>10 DEF IInv, Shape, Held, Abort
  <2>3. RegistryHeld'
    BY <1>10, NoneAssumption DEF IInv, Shape, RegistryHeld, Abort
  <2>4. SessionHasConnection'
    BY <1>10 DEF IInv, Shape, SessionHasConnection, Abort, service
  <2> QED BY <2>1, <2>2, <2>3, <2>4 DEF IInv
<1> QED
  BY <1>1, <1>2, <1>3, <1>4, <1>5, <1>6, <1>7, <1>8, <1>9, <1>10 DEF Next, Continue

(* The invariant holds of RelayServer::new.                                *)
LEMMA TeardownInit ==
    ASSUME Init PROVE IInv
  BY NoneAssumption DEF Init, IInv, Shape, Steps, Held, RegistryHeld, SessionHasConnection

(* No registry entry points to a connection that has been torn down, under  *)
(* any interleaving of logins, deliveries, offboards and teardowns.         *)
THEOREM RegistryStaysLive ==
    ASSUME OneWalletEach
    PROVE  Spec => []RegistryLive
<1>1. IInv => RegistryLive
  BY DEF IInv, RegistryHeld, RegistryLive
<1> QED BY <1>1, TeardownInit, TeardownStep, PTL DEF Spec

(* A session never outlives the connections that authenticated as its       *)
(* wallet: the teardown's end_session (CM2-B-A011) reaches every one.       *)
THEOREM SessionsEnd ==
    ASSUME OneWalletEach
    PROVE  Spec => []SessionHasConnection
<1>1. IInv => SessionHasConnection
  BY DEF IInv
<1> QED BY <1>1, TeardownInit, TeardownStep, PTL DEF Spec

(* Both together: the teardown of a connection leaves neither a registry    *)
(* entry nor a session behind.                                              *)
THEOREM TeardownIsClean ==
    ASSUME OneWalletEach
    PROVE  Spec => []TeardownClean
<1>1. IInv => TeardownClean
  BY DEF IInv, RegistryHeld, RegistryLive, TeardownClean
<1> QED BY <1>1, TeardownInit, TeardownStep, PTL DEF Spec
-----------------------------------------------------------------------------
(* What connections are sent.                                              *)

Frame == [type : {"Deliver", "Notify"}, seq : Nat]

(* A registry, or a copy of it, names connections that can sign for the     *)
(* wallet.                                                                 *)
Routes(T) ==
    /\ T \in [Wallets -> Conns \cup {None}]
    /\ \A w \in Wallets : T[w] # None => w \in Holds[T[w]]

(* What the handlers carry from one lock to the next.                      *)
JobInv ==
    /\ Routes(registry)
    /\ job = [c \in Conns |-> job[c]]
    /\ \A c \in Conns :
          /\ pc[c] = "register" => job[c].wallet \in Holds[c]
          /\ pc[c] = "deliver" => Routes(job[c].targets)
          /\ pc[c] \in {"targets", "deliver", "notify"} =>
                job[c].seq \in Nat /\ job[c].recipients \subseteq Wallets
          /\ pc[c] \in {"unregister", "end_session"} => authed[c] # None

Rising(q) == \A i, j \in DOMAIN q : i < j => q[i] < q[j]

(* Mailboxes and histories are filled in the order of acceptance.          *)
MailInv ==
    /\ accepted \in Nat
    /\ mailboxes \in [Wallets -> Seq(Nat)] /\ addressed \in [Wallets -> Seq(Nat)]
    /\ \A w \in Wallets :
          /\ Rising(mailboxes[w])
          /\ Range(mailboxes[w]) \subseteq Range(addressed[w])
          /\ \A n \in Range(addressed[w]) : n <= accepted

(* A stream rises, holds only what was addressed to the wallet of its       *)
(* connection, all of it older than what waits in the mailbox, and nothing *)
(* that another stream of the wallet holds.                                *)
StreamInv ==
    /\ out \in [Conns -> Seq(Frame)] /\ received \in [Conns -> Seq(Frame)]
    /\ \A c \in Conns :
          /\ \A i, j \in Deliveries(c) : i < j => Stream(c)[i].seq < Stream(c)[j].seq
          /\ \A n \in DeliveredOn(c) : \E w \in Holds[c] : n \in Range(addressed[w])
          /\ \A w \in Holds[c] :
                /\ \A n \in DeliveredOn(c), m \in Range(mailboxes[w]) : n < m
                /\ \A e \in Conns \ {c} :
                      w \in Holds[e] => DeliveredOn(c) \cap DeliveredOn(e) = {}

(* The count of connections is the number of tasks that run.               *)
CountInv == TypeOK /\ IsFiniteSet({c \in Conns : Live(c)})

ServedInv == CountInv /\ JobInv /\ MailInv /\ StreamInv

(* Accepting a connection counts it, the end of its task counts it out, and *)
(* no other step starts or ends one.                                       *)
LEMMA CountStep ==
    ASSUME CountInv, JobInv, [Next]_vars
    PROVE  CountInv'
<1> DEFINE L == {c \in Conns : Live(c)}
           L2 == {c \in Conns : Live(c)'}
<1>0. /\ IsFiniteSet(L) /\ conns = Cardinality(L) /\ conns \in Nat /\ conns <= MAX_CONNECTIONS
      /\ MAX_CONNECTIONS \in Nat
  BY FS_CardinalityType, LimitAssumption DEF CountInv, TypeOK
<1>a. SUFFICES /\ TypeOK'
               /\ IsFiniteSet(L2)
  BY DEF CountInv
<1>b. ASSUME conns' = conns, \A c \in Conns : Live(c)' <=> Live(c)
      PROVE  /\ IsFiniteSet(L2) /\ conns' = Cardinality(L2) /\ conns' <= MAX_CONNECTIONS
  <2>1. L2 = L
    BY <1>b
  <2> QED BY <1>0, <1>b, <2>1
<1> DEFINE Rest ==
      /\ pc' \in [Conns -> Steps] /\ authed' \in [Conns -> Wallets \cup {None}]
      /\ socket' \in [Conns -> {"open", "closed"}] /\ writer' \in [Conns -> BOOLEAN]
      /\ registry' \in [Wallets -> Conns \cup {None}] /\ sessions' \subseteq Wallets
<1>c. Rest /\ conns' = Cardinality(L2) /\ conns' <= MAX_CONNECTIONS => TypeOK'
  BY DEF TypeOK, Steps
<1>d. /\ pc \in [Conns -> Steps] /\ authed \in [Conns -> Wallets \cup {None}]
      /\ socket \in [Conns -> {"open", "closed"}] /\ writer \in [Conns -> BOOLEAN]
      /\ registry \in [Wallets -> Conns \cup {None}] /\ sessions \subseteq Wallets
      /\ \A c \in Conns : pc[c] = "register" => job[c].wallet \in Wallets
      /\ \A c \in Conns : Live(c) <=> pc[c] \notin {"new", "gone"}
  BY HoldsAssumption DEF CountInv, TypeOK, Steps, JobInv, Live
<1>e. \A c \in Conns : Live(c)' <=> pc'[c] \notin {"new", "gone"}
  BY DEF Live
<1> HIDE DEF L, L2
<1>1. ASSUME NEW c \in Conns, Accept(c) PROVE TypeOK' /\ IsFiniteSet(L2)
  <2>1. L2 = L \cup {c} /\ c \notin L
    BY <1>1, <1>d, <1>e DEF Accept, L, L2
  <2>2. IsFiniteSet(L2) /\ conns' = Cardinality(L2)
    BY <1>0, <1>1, <2>1, FS_AddElement DEF Accept
  <2>3. conns' <= MAX_CONNECTIONS
    BY <1>0, <1>1 DEF Accept
  <2>4. Rest
    BY <1>1, <1>d DEF Accept, Steps, service
  <2> QED BY <1>c, <2>2, <2>3, <2>4
<1>2. ASSUME NEW c \in Conns, Abort(c) PROVE TypeOK' /\ IsFiniteSet(L2)
  <2>1. L2 = L \ {c} /\ c \in L
    BY <1>2, <1>d, <1>e DEF Abort, L, L2
  <2>2. IsFiniteSet(L2) /\ conns' = Cardinality(L2)
    BY <1>0, <1>2, <2>1, FS_RemoveElement DEF Abort, SlotFreed
  <2>3. conns' <= MAX_CONNECTIONS
    BY <1>0, <1>2 DEF Abort, SlotFreed
  <2>4. Rest
    BY <1>2, <1>d DEF Abort, Steps, service
  <2> QED BY <1>c, <2>2, <2>3, <2>4
<1>3. ASSUME conns' = conns, Rest, \A c \in Conns : Live(c)' <=> Live(c)
      PROVE  TypeOK' /\ IsFiniteSet(L2)
  BY <1>b, <1>c, <1>3
<1>4. ASSUME NEW c \in Conns, \/ Disconnect(c) \/ Write(c) \/ Refuse(c) \/ Targets(c)
                              \/ DeliverPending(c) \/ NotifyRecipients(c) \/ CloseSeen(c)
                              \/ \E op \in Ops : Dispatch(c, op)
      PROVE  TypeOK' /\ IsFiniteSet(L2)
  <2>1. Rest
    BY <1>4, <1>d DEF Disconnect, Write, Refuse, Targets, DeliverPending, NotifyRecipients,
       CloseSeen, AfterClose, Dispatch, Steps, service
  <2>2. conns' = conns /\ \A e \in Conns : Live(e)' <=> Live(e)
    BY <1>4, <1>d, <1>e DEF Disconnect, Write, Refuse, Targets, DeliverPending,
       NotifyRecipients, CloseSeen, AfterClose, Dispatch
  <2> QED BY <1>3, <2>1, <2>2
<1>5. ASSUME NEW c \in Conns, \/ Register(c) \/ Unregister(c) \/ EndSession(c)
                              \/ \E w \in Wallets : Authenticate(c, w)
                              \/ \E R \in Audiences :
                                    Submit(c, R) \/ \E w \in Wallets : Offboard(c, R, w)
      PROVE  TypeOK' /\ IsFiniteSet(L2)
  <2>1. Rest
    BY <1>5, <1>d DEF Register, Unregister, Unregistered, EndSession, SessionEnded,
       Authenticate, Submit, Offboard, Accepted, Steps, service
  <2>2. conns' = conns /\ \A e \in Conns : Live(e)' <=> Live(e)
    BY <1>5, <1>d, <1>e DEF Register, Unregister, EndSession, Authenticate, Submit,
       Offboard, Accepted
  <2> QED BY <1>3, <2>1, <2>2
<1>6. ASSUME UNCHANGED <<pc, authed, socket, writer, conns, registry, sessions>>
      PROVE  TypeOK' /\ IsFiniteSet(L2)
  <2>1. Rest
    BY <1>6, <1>d
  <2>2. \A e \in Conns : Live(e)' <=> Live(e)
    BY <1>6, <1>d, <1>e
  <2> QED BY <1>3, <1>6, <2>1, <2>2
<1>7. ASSUME NEW p \in Switch, SetPaused(p) PROVE TypeOK' /\ IsFiniteSet(L2)
  BY <1>6, <1>7 DEF SetPaused, service
<1>8. CASE UNCHANGED vars
  BY <1>6, <1>8 DEF vars
<1> QED BY <1>1, <1>2, <1>4, <1>5, <1>7, <1>8 DEF Next, Continue

(* What a handler carries stays what it read.                              *)
LEMMA JobStep ==
    ASSUME CountInv, JobInv, MailInv, [Next]_vars
    PROVE  JobInv'
<1> USE DEF Routes
<1>0. /\ pc \in [Conns -> Steps] /\ authed \in [Conns -> Wallets \cup {None}]
      /\ accepted \in Nat
      /\ registry \in [Wallets -> Conns \cup {None}]
      /\ \A c \in Conns : pc[c] = "register" => job[c].wallet \in Wallets
  BY HoldsAssumption DEF CountInv, TypeOK, Steps, JobInv, MailInv
<1>1. ASSUME NEW c \in Conns, \/ Accept(c) \/ Disconnect(c) \/ Write(c) \/ Refuse(c)
                              \/ CloseSeen(c) \/ EndSession(c) \/ Abort(c)
                              \/ NotifyRecipients(c)
      PROVE  JobInv'
  BY <1>0, <1>1 DEF JobInv, Accept, Disconnect, Write, Refuse, CloseSeen, AfterClose,
     EndSession, Abort, NotifyRecipients, NoJob, service
<1>2. ASSUME NEW c \in Conns, NEW op \in Ops, Dispatch(c, op) PROVE JobInv'
  BY <1>0, <1>2 DEF JobInv, Dispatch
<1>3. ASSUME NEW c \in Conns, NEW w \in Wallets, Authenticate(c, w) PROVE JobInv'
  BY <1>0, <1>3 DEF JobInv, Authenticate
<1>4. ASSUME NEW c \in Conns, Register(c) PROVE JobInv'
  BY <1>0, <1>4 DEF JobInv, Register
<1>5. ASSUME NEW c \in Conns, NEW R \in Audiences,
             Submit(c, R) \/ \E w \in Wallets : Offboard(c, R, w)
      PROVE  JobInv'
  BY <1>0, <1>5, WorkloadAssumption DEF JobInv, Submit, Offboard, Accepted
<1>6. ASSUME NEW c \in Conns, Targets(c) PROVE JobInv'
  BY <1>0, <1>6 DEF JobInv, Targets, Snapshot
<1>7. ASSUME NEW c \in Conns, DeliverPending(c) PROVE JobInv'
  BY <1>0, <1>7 DEF JobInv, DeliverPending
<1>8. ASSUME NEW c \in Conns, Unregister(c) PROVE JobInv'
  BY <1>0, <1>8 DEF JobInv, Unregister, Unregistered
<1>9. ASSUME NEW p \in Switch, SetPaused(p) PROVE JobInv'
  BY <1>9 DEF JobInv, SetPaused
<1>10. CASE UNCHANGED vars
  BY <1>10 DEF JobInv, vars
<1> QED BY <1>1, <1>2, <1>3, <1>4, <1>5, <1>6, <1>7, <1>8, <1>9, <1>10 DEF Next, Continue

(* What an append, or a channel's write, does to a sequence.                *)
LEMMA Appended ==
    ASSUME NEW S, NEW q \in Seq(S), NEW n \in S
    PROVE  /\ Append(q, n) \in Seq(S)
           /\ DOMAIN q = 1..Len(q) /\ Len(q) \in Nat
           /\ DOMAIN Append(q, n) = 1..Len(q) + 1
           /\ \A i \in DOMAIN q : Append(q, n)[i] = q[i]
           /\ Append(q, n)[Len(q) + 1] = n
           /\ Range(Append(q, n)) = Range(q) \cup {n}
<1>1. /\ DOMAIN q = 1..Len(q) /\ Len(q) \in Nat /\ DOMAIN Append(q, n) = 1..(Len(q) + 1)
      /\ \A i \in 1..Len(q) : Append(q, n)[i] = q[i]
      /\ Append(q, n)[Len(q) + 1] = n
      /\ 1..(Len(q) + 1) = 1..Len(q) \cup {Len(q) + 1}
  BY AppendProperties
<1> QED BY <1>1, AppendProperties DEF Range

(* An accepted envelope, youngest of all, goes to the end of each mailbox   *)
(* and history it is addressed to.                                         *)
Addresses(R) ==
    /\ accepted' = accepted + 1
    /\ mailboxes' = FannedOut(R, accepted + 1)
    /\ addressed' = [w \in Wallets |-> IF w \in R THEN Append(addressed[w], accepted + 1)
                                       ELSE addressed[w]]

(* A mailbox is filled by the service and emptied whole by a delivery.      *)
LEMMA MailKinds ==
    ASSUME [Next]_vars
    PROVE  \/ UNCHANGED <<accepted, mailboxes, addressed>>
           \/ \E R \in Audiences : Addresses(R) /\ UNCHANGED <<out, received>>
           \/ \E c \in Conns : DeliverPending(c)
  BY DEF Next, Continue, Accept, Disconnect, Write, Register, Refuse, Targets,
     NotifyRecipients, CloseSeen, Unregister, EndSession, Abort, Submit, Offboard,
     Accepted, Authenticate, Dispatch, SetPaused, service, vars, Addresses

(* Mailboxes stay in the order of acceptance.                              *)
LEMMA MailStep ==
    ASSUME MailInv, [Next]_vars
    PROVE  MailInv'
<1>0. /\ accepted \in Nat
      /\ mailboxes \in [Wallets -> Seq(Nat)] /\ addressed \in [Wallets -> Seq(Nat)]
  BY DEF MailInv
<1>1. CASE UNCHANGED <<accepted, mailboxes, addressed>>
  BY <1>1 DEF MailInv
<1>2. ASSUME NEW R \in Audiences, Addresses(R) PROVE MailInv'
  <2> DEFINE n == accepted + 1
  <2>1. /\ n \in Nat /\ accepted' = n
        /\ \A w \in Wallets :
              /\ w \in R => /\ mailboxes'[w] = Append(mailboxes[w], n)
                            /\ addressed'[w] = Append(addressed[w], n)
              /\ w \notin R => mailboxes'[w] = mailboxes[w] /\ addressed'[w] = addressed[w]
    BY <1>0, <1>2 DEF Addresses, FannedOut
  <2>2. mailboxes' \in [Wallets -> Seq(Nat)] /\ addressed' \in [Wallets -> Seq(Nat)]
    BY <1>0, <1>2, <2>1 DEF Addresses, FannedOut
  <2> HIDE DEF n
  <2>3. ASSUME NEW w \in Wallets
        PROVE  /\ Rising(mailboxes'[w])
               /\ Range(mailboxes'[w]) \subseteq Range(addressed'[w])
               /\ \A m \in Range(addressed'[w]) : m <= n
    <3> DEFINE q == mailboxes[w]
               h == addressed[w]
    <3>1. /\ q \in Seq(Nat) /\ h \in Seq(Nat) /\ Rising(q) /\ Range(q) \subseteq Range(h)
          /\ \A m \in Range(h) : m <= accepted
      BY DEF MailInv
    <3>a. /\ Range(h) \subseteq Nat
          /\ \A m \in Range(h) : m <= n /\ m < n
      <4>1. Range(h) \subseteq Nat
        BY <3>1 DEF Range
      <4> QED BY <1>0, <3>1, <4>1 DEF n
    <3> HIDE DEF q, h
    <3>2. CASE w \notin R
      BY <2>1, <3>1, <3>2, <3>a DEF q, h
    <3>3. CASE w \in R
      <4>1. /\ Range(Append(h, n)) = Range(h) \cup {n}
            /\ Range(Append(q, n)) = Range(q) \cup {n}
        BY <2>1, <3>1, Appended
      <4>2. Rising(Append(q, n))
        <5>1. /\ DOMAIN q = 1..Len(q) /\ Len(q) \in Nat
              /\ DOMAIN Append(q, n) = 1..Len(q) + 1
              /\ \A i \in DOMAIN q : Append(q, n)[i] = q[i]
              /\ Append(q, n)[Len(q) + 1] = n
          BY <2>1, <3>1, Appended
        <5>2. \A i \in DOMAIN q : q[i] < n
          BY <3>1, <3>a DEF Range
        <5> QED BY <3>1, <5>1, <5>2 DEF Rising
      <4>3. \A m \in Range(h) \cup {n} : m <= n
        BY <2>1, <3>a
      <4>4. mailboxes'[w] = Append(q, n) /\ addressed'[w] = Append(h, n)
        BY <2>1, <3>3 DEF q, h
      <4> QED BY <3>1, <4>1, <4>2, <4>3, <4>4
    <3> QED BY <3>2, <3>3
  <2> QED BY <2>1, <2>2, <2>3 DEF MailInv
<1>3. ASSUME NEW c \in Conns, DeliverPending(c) PROVE MailInv'
  <2>1. /\ mailboxes' = [w \in Wallets |-> IF job[c].targets[w] = None THEN mailboxes[w]
                                            ELSE <<>>]
        /\ UNCHANGED <<accepted, addressed>>
    BY <1>3 DEF DeliverPending, Left
  <2>2. Rising(<<>>) /\ Range(<<>>) = {} /\ <<>> \in Seq(Nat)
    BY DEF Rising, Range
  <2>3. \A w \in Wallets : mailboxes'[w] = mailboxes[w] \/ mailboxes'[w] = <<>>
    BY <2>1
  <2>4. mailboxes' \in [Wallets -> Seq(Nat)]
    BY <1>0, <2>1, <2>2
  <2> QED BY <2>1, <2>2, <2>3, <2>4 DEF MailInv
<1> QED BY <1>1, <1>2, <1>3, MailKinds

(* The envelopes of a sequence of frames.                                  *)
Places(s) == {i \in DOMAIN s : s[i].type = "Deliver"}
Seqs(s) == {s[i].seq : i \in Places(s)}
Ascends(s) == \A i, j \in Places(s) : i < j => s[i].seq < s[j].seq

(* s holds envelopes of t only, in the order of t.                         *)
Part(s, t) ==
    \E at \in [Places(s) -> Places(t)] :
        /\ \A i, j \in Places(s) : i < j => at[i] < at[j]
        /\ \A i \in Places(s) : s[i].seq = t[at[i]].seq

(* What is left of an ascending stream ascends.                            *)
LEMMA PartAscends ==
    ASSUME NEW s, NEW t, Part(s, t)
    PROVE  /\ Seqs(s) \subseteq Seqs(t)
           /\ Ascends(t) => Ascends(s)
<1>1. PICK at \in [Places(s) -> Places(t)] :
        /\ \A i, j \in Places(s) : i < j => at[i] < at[j]
        /\ \A i \in Places(s) : s[i].seq = t[at[i]].seq
  BY DEF Part
<1> QED BY <1>1 DEF Seqs, Ascends

(* Without a change every envelope stays where it is.                      *)
LEMMA PartSame ==
    ASSUME NEW s
    PROVE  Part(s, s)
<1>1. [i \in Places(s) |-> i] \in [Places(s) -> Places(s)]
  OBVIOUS
<1> QED BY <1>1 DEF Part

(* Where the frames of two sequences are in the one after the other.       *)
LEMMA Joined ==
    ASSUME NEW s \in Seq(Frame), NEW t \in Seq(Frame)
    PROVE  /\ s \o t \in Seq(Frame)
           /\ Len(s) \in Nat /\ Len(t) \in Nat
           /\ DOMAIN s = 1..Len(s) /\ DOMAIN t = 1..Len(t)
           /\ DOMAIN (s \o t) = 1..Len(s) + Len(t)
           /\ \A i \in 1..Len(s) : (s \o t)[i] = s[i]
           /\ \A i \in Len(s) + 1..Len(s) + Len(t) : (s \o t)[i] = t[i - Len(s)]
  BY ConcatProperties

(* Joining is associative.                                                 *)
LEMMA JoinedThrice ==
    ASSUME NEW r \in Seq(Frame), NEW s \in Seq(Frame), NEW t \in Seq(Frame)
    PROVE  /\ (r \o s) \o t = r \o (s \o t)
           /\ r \o s \in Seq(Frame) /\ s \o t \in Seq(Frame) /\ (r \o s) \o t \in Seq(Frame)
<1>1. (r \o s) \o t = r \o (s \o t)
  BY ConcatAssociative
<1>2. r \o s \in Seq(Frame) /\ s \o t \in Seq(Frame)
  BY ConcatProperties
<1>3. (r \o s) \o t \in Seq(Frame)
  BY <1>2, ConcatProperties
<1> QED BY <1>1, <1>2, <1>3

(* The writer ends or is aborted: what waited in the channel is gone.       *)
LEMMA PartCut ==
    ASSUME NEW s \in Seq(Frame), NEW t \in Seq(Frame)
    PROVE  Part(s \o <<>>, s \o t)
<1>1. /\ s \o <<>> = s /\ DOMAIN s = 1..Len(s) /\ Len(s) \in Nat /\ Len(t) \in Nat
      /\ DOMAIN (s \o t) = 1..Len(s) + Len(t) /\ \A i \in 1..Len(s) : (s \o t)[i] = s[i]
  BY Joined, ConcatEmptySeq
<1>2. \A i \in DOMAIN s : i \in DOMAIN (s \o t) /\ (s \o t)[i] = s[i]
  BY <1>1
<1> DEFINE at == [i \in Places(s) |-> i]
<1>3. at \in [Places(s) -> Places(s \o t)]
  BY <1>2 DEF Places
<1>4. \A i \in Places(s) : s[i].seq = (s \o t)[at[i]].seq
  BY <1>2 DEF Places
<1>5. Part(s, s \o t)
  BY <1>3, <1>4 DEF Part
<1> QED BY <1>1, <1>5

(* Notifications behind a stream add no envelope.                          *)
LEMMA PartNotified ==
    ASSUME NEW s \in Seq(Frame), NEW t \in Seq(Frame),
           \A i \in DOMAIN t : t[i].type = "Notify"
    PROVE  Part(s \o t, s)
<1>1. /\ DOMAIN s = 1..Len(s) /\ DOMAIN t = 1..Len(t) /\ Len(s) \in Nat /\ Len(t) \in Nat
      /\ DOMAIN (s \o t) = 1..Len(s) + Len(t) /\ \A i \in 1..Len(s) : (s \o t)[i] = s[i]
      /\ \A i \in Len(s) + 1..Len(s) + Len(t) : (s \o t)[i] = t[i - Len(s)]
  BY Joined
<1>2. ASSUME NEW i \in Places(s \o t)
      PROVE  i \in Places(s) /\ (s \o t)[i] = s[i]
  <2>1. i \in 1..Len(s) + Len(t) /\ (s \o t)[i].type = "Deliver"
    BY <1>1 DEF Places
  <2>2. CASE i \in 1..Len(s)
    BY <1>1, <2>1, <2>2 DEF Places
  <2>3. CASE i \notin 1..Len(s)
    <3>1. i \in Len(s) + 1..Len(s) + Len(t) /\ i - Len(s) \in DOMAIN t
      BY <1>1, <2>1, <2>3
    <3> QED BY <1>1, <2>1, <3>1
  <2> QED BY <2>2, <2>3
<1> DEFINE at == [i \in Places(s \o t) |-> i]
<1>3. at \in [Places(s \o t) -> Places(s)]
  BY <1>2
<1> QED BY <1>2, <1>3 DEF Part

(* The writer drops a notification that it has sent.                       *)
LEMMA PartSent ==
    ASSUME NEW s \in Seq(Frame), NEW t \in Seq(Frame), t # <<>>, Head(t).type # "Deliver"
    PROVE  Part(s \o Tail(t), s \o t)
<1> DEFINE u == Tail(t)
<1>1. /\ u \in Seq(Frame) /\ Len(t) \in Nat \ {0} /\ Len(u) = Len(t) - 1
      /\ \A i \in 1..Len(u) : u[i] = t[i + 1]
  BY HeadTailProperties
<1> HIDE DEF u
<1>a. /\ DOMAIN (s \o t) = 1..Len(s) + Len(t)
      /\ \A i \in 1..Len(s) : (s \o t)[i] = s[i]
      /\ \A i \in Len(s) + 1..Len(s) + Len(t) : (s \o t)[i] = t[i - Len(s)]
  BY Joined
<1>b. /\ DOMAIN (s \o u) = 1..Len(s) + Len(u) /\ Len(u) \in Nat /\ Len(s) \in Nat
      /\ \A i \in 1..Len(s) : (s \o u)[i] = s[i]
      /\ \A i \in Len(s) + 1..Len(s) + Len(u) : (s \o u)[i] = u[i - Len(s)]
  BY <1>1, Joined
<1>2. /\ Len(s) \in Nat /\ Len(u) \in Nat
      /\ DOMAIN (s \o t) = 1..Len(s) + Len(t) /\ DOMAIN (s \o u) = 1..Len(s) + Len(u)
      /\ \A i \in 1..Len(s) : (s \o t)[i] = s[i] /\ (s \o u)[i] = s[i]
      /\ \A i \in Len(s) + 1..Len(s) + Len(t) : (s \o t)[i] = t[i - Len(s)]
      /\ \A i \in Len(s) + 1..Len(s) + Len(u) : (s \o u)[i] = u[i - Len(s)]
  BY <1>a, <1>b
<1> DEFINE at == [i \in Places(s \o u) |-> IF i <= Len(s) THEN i ELSE i + 1]
<1>3. ASSUME NEW i \in DOMAIN (s \o u), NEW k, k = IF i <= Len(s) THEN i ELSE i + 1
      PROVE  k \in DOMAIN (s \o t) /\ (s \o u)[i] = (s \o t)[k]
  <2>1. CASE i <= Len(s)
    BY <1>1, <1>2, <1>3, <2>1
  <2>2. CASE i > Len(s)
    <3>1. /\ i \in Len(s) + 1..Len(s) + Len(u) /\ i - Len(s) \in 1..Len(u)
          /\ k = i + 1 /\ k \in Len(s) + 1..Len(s) + Len(t) /\ k - Len(s) = (i - Len(s)) + 1
      BY <1>1, <1>2, <1>3, <2>2
    <3>2. (s \o u)[i] = u[i - Len(s)] /\ u[i - Len(s)] = t[(i - Len(s)) + 1]
      BY <1>1, <1>2, <3>1
    <3>3. (s \o t)[k] = t[k - Len(s)] /\ k \in DOMAIN (s \o t)
      BY <1>1, <1>2, <3>1
    <3> QED BY <3>1, <3>2, <3>3
  <2> QED BY <1>2, <2>1, <2>2
<1>4. at \in [Places(s \o u) -> Places(s \o t)]
      /\ \A i \in Places(s \o u) : (s \o u)[i].seq = (s \o t)[at[i]].seq
  BY <1>3 DEF Places
<1>5. \A i, j \in Places(s \o u) : i < j => at[i] < at[j]
  BY <1>2 DEF Places
<1>6. Part(s \o u, s \o t)
  BY <1>4, <1>5 DEF Part
<1> QED BY <1>6 DEF u

(* The writer sends an envelope: the stream is what it was.                *)
LEMMA StreamSent ==
    ASSUME NEW s \in Seq(Frame), NEW t \in Seq(Frame), t # <<>>
    PROVE  Append(s, Head(t)) \o Tail(t) = s \o t
<1>1. /\ Head(t) \in Frame /\ Tail(t) \in Seq(Frame) /\ t = <<Head(t)>> \o Tail(t)
  BY HeadTailProperties
<1>2. Append(s, Head(t)) = s \o <<Head(t)>>
  BY <1>1, AppendIsConcat
<1> DEFINE h == <<Head(t)>>
           u == Tail(t)
<1>3. h \in Seq(Frame) /\ u \in Seq(Frame)
  BY <1>1
<1>4. Append(s, Head(t)) = s \o h /\ t = h \o u
  BY <1>1, <1>2
<1> HIDE DEF h, u
<1>5. (s \o h) \o u = s \o (h \o u)
  BY <1>3, ConcatAssociative
<1> QED BY <1>4, <1>5 DEF u

(* What one wallet's mailbox adds to the channel that gets it, and nothing  *)
(* where no wallet is routed: with one wallet per connection the fold over  *)
(* the wallets of a channel has no more to do.                             *)
LEMMA DrainedOne ==
    ASSUME NEW T, NEW c \in Conns, NEW w \in Wallets, T[w] = c,
           \A v \in Wallets : T[v] = c => v = w
    PROVE  Drained(T, c) = <<>> \o Frames(w)
<1> DEFINE S == {v \in Wallets : T[v] = c}
           e(f) == [s \in SUBSET S |->
                      IF s = {} THEN <<>>
                      ELSE f[s \ {CHOOSE x \in s : TRUE}] \o Frames(CHOOSE x \in s : TRUE)]
<1>1. S = {w}
  OBVIOUS
<1>2. \E f : f = e(f)
  <2> DEFINE h == [s \in SUBSET S |-> IF s = {} THEN <<>> ELSE <<>> \o Frames(w)]
  <2>1. SUBSET S = {{}, {w}}
    BY <1>1
  <2>2. (CHOOSE x \in {w} : TRUE) = w
    OBVIOUS
  <2>3. \A s \in SUBSET S : h[s] = e(h)[s]
    BY <1>1, <2>1, <2>2
  <2>4. h = e(h)
    BY <2>3
  <2> QED BY <2>4
<1> DEFINE it == CHOOSE f : f = e(f)
<1>3. it = e(it)
  BY <1>2
<1>4. Drained(T, c) = it[S]
  BY DEF Drained, FoldSet, MapThenFoldSet
<1>5. it[{}] = <<>> /\ it[{w}] = it[{}] \o Frames(w)
  <2>1. {} \in SUBSET S /\ {w} \in SUBSET S /\ {w} # {}
    BY <1>1
  <2>2. (CHOOSE x \in {w} : TRUE) = w /\ {w} \ {w} = {}
    OBVIOUS
  <2> QED BY <1>3, <2>1, <2>2
<1> QED BY <1>1, <1>4, <1>5

(* A channel to which no wallet is routed gets nothing.                    *)
LEMMA DrainedNone ==
    ASSUME NEW T, NEW c \in Conns, \A v \in Wallets : T[v] # c
    PROVE  Drained(T, c) = <<>>
<1> DEFINE S == {v \in Wallets : T[v] = c}
           e(f) == [s \in SUBSET S |->
                      IF s = {} THEN <<>>
                      ELSE f[s \ {CHOOSE x \in s : TRUE}] \o Frames(CHOOSE x \in s : TRUE)]
<1>1. S = {}
  OBVIOUS
<1>2. \E f : f = e(f)
  <2> DEFINE h == [s \in SUBSET S |-> <<>>]
  <2>1. \A s \in SUBSET S : s = {}
    BY <1>1
  <2>2. \A s \in SUBSET S : h[s] = e(h)[s]
    BY <2>1
  <2>3. h = e(h)
    BY <2>2
  <2> QED BY <2>3
<1> DEFINE it == CHOOSE f : f = e(f)
<1>3. it = e(it)
  BY <1>2
<1>4. Drained(T, c) = it[S]
  BY DEF Drained, FoldSet, MapThenFoldSet
<1>5. it[{}] = <<>>
  BY <1>1, <1>3
<1> QED BY <1>1, <1>4, <1>5

(* StreamInv of a connection, of the two streams and the mail as they are.  *)
LEMMA StreamParts ==
    StreamInv <=>
      /\ out \in [Conns -> Seq(Frame)] /\ received \in [Conns -> Seq(Frame)]
      /\ \A c \in Conns :
            /\ Ascends(Stream(c))
            /\ \A n \in Seqs(Stream(c)) : \E w \in Holds[c] : n \in Range(addressed[w])
            /\ \A w \in Holds[c] :
                  /\ \A n \in Seqs(Stream(c)), m \in Range(mailboxes[w]) : n < m
                  /\ \A e \in Conns \ {c} :
                        w \in Holds[e] => Seqs(Stream(c)) \cap Seqs(Stream(e)) = {}
  BY DEF StreamInv, Deliveries, DeliveredOn, Places, Seqs, Ascends

(* And in the next state.                                                  *)
LEMMA StreamPartsNext ==
    StreamInv' <=>
      /\ out' \in [Conns -> Seq(Frame)] /\ received' \in [Conns -> Seq(Frame)]
      /\ \A c \in Conns :
            /\ Ascends(Stream(c)')
            /\ \A n \in Seqs(Stream(c)') : \E w \in Holds[c] : n \in Range(addressed'[w])
            /\ \A w \in Holds[c] :
                  /\ \A n \in Seqs(Stream(c)'), m \in Range(mailboxes'[w]) : n < m
                  /\ \A e \in Conns \ {c} :
                        w \in Holds[e] => Seqs(Stream(c)') \cap Seqs(Stream(e)') = {}
  BY DEF StreamInv, Deliveries, DeliveredOn, Places, Seqs, Ascends

(* Steps that add no envelope to a stream and touch no mailbox.            *)
Thins ==
    /\ UNCHANGED <<mailboxes, addressed>>
    /\ out' \in [Conns -> Seq(Frame)] /\ received' \in [Conns -> Seq(Frame)]
    /\ \A c \in Conns : Part(Stream(c)', Stream(c))

(* They keep the streams as they should be.                                *)
LEMMA ThinsKeeps ==
    ASSUME StreamInv, Thins
    PROVE  StreamInv'
<1>1. \A c \in Conns : /\ Seqs(Stream(c)') \subseteq Seqs(Stream(c))
                       /\ Ascends(Stream(c)) => Ascends(Stream(c)')
  BY PartAscends DEF Thins
<1> QED BY <1>1, StreamParts, StreamPartsNext DEF Thins

(* Writer tasks, teardowns and notifications only thin.                    *)
LEMMA ThinsKinds ==
    ASSUME OneWalletEach, StreamInv, JobInv, [Next]_vars
    PROVE  \/ Thins
           \/ \E R \in Audiences : Addresses(R) /\ UNCHANGED <<out, received>>
           \/ \E c \in Conns : DeliverPending(c)
<1>0. out \in [Conns -> Seq(Frame)] /\ received \in [Conns -> Seq(Frame)]
  BY StreamParts
<1>1. ASSUME UNCHANGED <<mailboxes, addressed, out, received>>
      PROVE  Thins
  BY <1>0, <1>1, PartSame DEF Thins, Stream
<1>2. ASSUME NEW c \in Conns, Write(c) PROVE Thins
  <2>0. /\ out[c] \in Seq(Frame) /\ received[c] \in Seq(Frame) /\ out[c] # <<>>
        /\ UNCHANGED <<mailboxes, addressed>>
    BY <1>0, <1>2 DEF Write, service
  <2>1. Head(out[c]) \in Frame /\ Tail(out[c]) \in Seq(Frame)
    BY <2>0, HeadTailProperties
  <2>2. \A e \in Conns \ {c} : out'[e] = out[e] /\ received'[e] = received[e]
    BY <1>0, <1>2 DEF Write
  <2>3. \A e \in Conns \ {c} : Part(Stream(e)', Stream(e))
    BY <2>2, PartSame DEF Stream
  <2>4. CASE socket[c] # "open"
    <3>1. out'[c] = <<>> /\ received' = received /\ out' = [out EXCEPT ![c] = <<>>]
      BY <1>0, <1>2, <2>4 DEF Write
    <3>2. Part(Stream(c)', Stream(c))
      BY <2>0, <3>1, PartCut DEF Stream
    <3> QED BY <1>0, <2>0, <2>3, <3>1, <3>2 DEF Thins
  <2>5. CASE socket[c] = "open" /\ Head(out[c]).type = "Deliver"
    <3>1. /\ out' = [out EXCEPT ![c] = Tail(out[c])]
          /\ received' = [received EXCEPT ![c] = Append(received[c], Head(out[c]))]
      BY <1>2, <2>5 DEF Write
    <3>2. Append(received[c], Head(out[c])) \in Seq(Frame)
      BY <2>0, <2>1, AppendProperties
    <3>3. Append(received[c], Head(out[c])) \o Tail(out[c]) = received[c] \o out[c]
      BY <2>0, StreamSent
    <3>4. Stream(c)' = Stream(c)
      BY <1>0, <3>1, <3>3 DEF Stream
    <3>5. Part(Stream(c)', Stream(c))
      BY <3>4, PartSame
    <3>6. out' \in [Conns -> Seq(Frame)] /\ received' \in [Conns -> Seq(Frame)]
      BY <1>0, <2>1, <3>1, <3>2
    <3> QED BY <2>0, <2>3, <3>5, <3>6 DEF Thins
  <2>6. CASE socket[c] = "open" /\ Head(out[c]).type # "Deliver"
    <3>1. out' = [out EXCEPT ![c] = Tail(out[c])] /\ received' = received
      BY <1>2, <2>6 DEF Write
    <3>2. Part(received[c] \o Tail(out[c]), received[c] \o out[c])
      BY <2>0, <2>6, PartSent
    <3>3. Part(Stream(c)', Stream(c))
      BY <1>0, <3>1, <3>2 DEF Stream
    <3> QED BY <1>0, <2>0, <2>1, <2>3, <3>1, <3>3 DEF Thins
  <2> QED BY <2>4, <2>5, <2>6
<1>3. ASSUME NEW c \in Conns, Abort(c) PROVE Thins
  <2>1. /\ out' = [out EXCEPT ![c] = <<>>] /\ received' = received
        /\ UNCHANGED <<mailboxes, addressed>>
    BY <1>3 DEF Abort, service
  <2>2. Part(received[c] \o <<>>, received[c] \o out[c])
    BY <1>0, PartCut
  <2>3. Part(Stream(c)', Stream(c))
    BY <1>0, <2>1, <2>2 DEF Stream
  <2>4. \A e \in Conns \ {c} : Part(Stream(e)', Stream(e))
    BY <1>0, <2>1, PartSame DEF Stream
  <2> QED BY <1>0, <2>1, <2>3, <2>4 DEF Thins
<1>4. ASSUME NEW c \in Conns, NotifyRecipients(c) PROVE Thins
  <2>1. /\ received' = received /\ UNCHANGED <<mailboxes, addressed>>
        /\ job[c].seq \in Nat /\ job[c].recipients \subseteq Wallets
        /\ \A w \in Wallets : registry[w] # None => w \in Holds[registry[w]]
    BY <1>4 DEF NotifyRecipients, service, JobInv, Routes
  <2> DEFINE K(d) == Cardinality({w \in job[c].recipients \ {authed[c]} : registry[w] = d})
             F(d) == [i \in 1..K(d) |-> Notify(job[c].seq)]
  <2>2. out' = [d \in Conns |-> Sent(d, F(d))]
    BY <1>4 DEF NotifyRecipients
  <2>a. ASSUME NEW d \in Conns PROVE K(d) \in Nat
    <3> DEFINE W == {w \in job[c].recipients \ {authed[c]} : registry[w] = d}
    <3>1. \A v, w \in W : v = w
      BY <2>1, NoneAssumption DEF OneWalletEach
    <3>2. W = {} \/ \E v : W = {v}
      BY <3>1
    <3>3. K(d) = Cardinality(W)
      OBVIOUS
    <3> HIDE DEF W, K
    <3>4. IsFiniteSet(W)
      BY <3>2, FS_EmptySet, FS_Singleton
    <3> QED BY <3>3, <3>4, FS_CardinalityType
  <2> HIDE DEF K
  <2>3. ASSUME NEW d \in Conns
        PROVE  Sent(d, F(d)) \in Seq(Frame) /\ Part(received[d] \o Sent(d, F(d)), Stream(d))
    <3>1. /\ F(d) \in Seq(Frame)
          /\ \A i \in DOMAIN F(d) : F(d)[i].type = "Notify"
      <4> DEFINE k == K(d)
                 m == Notify(job[c].seq)
      <4>1. m \in Frame /\ m.type = "Notify"
        BY <2>1 DEF Notify, Frame
      <4>2. k \in Nat /\ F(d) = [i \in 1..k |-> m]
        BY <2>a
      <4> HIDE DEF F, k, m
      <4>3. [i \in 1..k |-> m] \in Seq(Frame) /\ DOMAIN [i \in 1..k |-> m] = 1..k
        BY <4>1, <4>2
      <4> QED BY <4>1, <4>2, <4>3
    <3> HIDE DEF F
    <3>2. /\ out[d] \in Seq(Frame) /\ received[d] \in Seq(Frame)
          /\ out[d] \o F(d) \in Seq(Frame) /\ received[d] \o out[d] \in Seq(Frame)
      BY <1>0, <3>1, ConcatProperties
    <3>3. Part((received[d] \o out[d]) \o F(d), received[d] \o out[d])
      BY <3>1, <3>2, PartNotified
    <3>4. (received[d] \o out[d]) \o F(d) = received[d] \o (out[d] \o F(d))
      <4> DEFINE x == received[d]
                 y == out[d]
                 z == F(d)
      <4>1. x \in Seq(Frame) /\ y \in Seq(Frame) /\ z \in Seq(Frame)
        BY <3>1, <3>2
      <4> HIDE DEF x, y, z
      <4>2. (x \o y) \o z = x \o (y \o z)
        BY <4>1, JoinedThrice
      <4> QED BY <4>2 DEF x, y, z
    <3>5. Part(received[d] \o out[d], received[d] \o out[d])
      BY PartSame
    <3> QED BY <3>2, <3>3, <3>4, <3>5 DEF Sent, Stream
  <2> HIDE DEF F
  <2> QED BY <2>1, <2>2, <2>3, <1>0 DEF Thins, Stream
<1> QED BY <1>1, <1>2, <1>3, <1>4 DEF Next, Continue, Accept, Disconnect, Register, Refuse,
     Targets, CloseSeen, Unregister, EndSession, Submit, Offboard,
     Accepted, Authenticate, Dispatch, SetPaused, service, vars, Addresses

(* A whole mailbox behind a stream that is older than it.                  *)
LEMMA StreamDrains ==
    ASSUME NEW s \in Seq(Frame), Ascends(s), NEW q \in Seq(Nat), Rising(q),
           NEW t \in Seq(Frame), DOMAIN t = DOMAIN q, \A i \in DOMAIN q : t[i] = Deliver(q[i]),
           \A n \in Seqs(s), m \in Range(q) : n < m
    PROVE  Ascends(s \o t) /\ Seqs(s \o t) = Seqs(s) \cup Range(q)
<1>1. /\ DOMAIN s = 1..Len(s) /\ DOMAIN t = 1..Len(t) /\ Len(s) \in Nat /\ Len(t) \in Nat
      /\ DOMAIN (s \o t) = 1..Len(s) + Len(t) /\ \A i \in 1..Len(s) : (s \o t)[i] = s[i]
      /\ \A i \in Len(s) + 1..Len(s) + Len(t) : (s \o t)[i] = t[i - Len(s)]
  BY Joined
<1>2. \A i \in DOMAIN t : t[i].type = "Deliver" /\ t[i].seq = q[i]
  BY DEF Deliver
<1>3. ASSUME NEW i \in Places(s \o t)
      PROVE  /\ i \in Nat
             /\ i <= Len(s) => i \in Places(s) /\ (s \o t)[i] = s[i]
             /\ i > Len(s) => /\ i - Len(s) \in DOMAIN q
                              /\ (s \o t)[i].seq = q[i - Len(s)]
  <2>1. i \in 1..Len(s) + Len(t) /\ (s \o t)[i].type = "Deliver"
    BY <1>1 DEF Places
  <2>2. CASE i <= Len(s)
    <3>1. i \in 1..Len(s) /\ i \in Nat /\ ~(i > Len(s))
      BY <1>1, <2>1, <2>2
    <3> QED BY <1>1, <2>1, <3>1 DEF Places
  <2>3. CASE i > Len(s)
    <3>1. i \in Len(s) + 1..Len(s) + Len(t) /\ i - Len(s) \in DOMAIN t
      BY <1>1, <2>1, <2>3
    <3>2. (s \o t)[i] = t[i - Len(s)] /\ i - Len(s) \in DOMAIN q
      BY <1>1, <3>1
    <3>3. t[i - Len(s)].seq = q[i - Len(s)]
      BY <1>2, <3>1
    <3>4. i \in Nat /\ ~(i <= Len(s))
      BY <1>1, <2>1, <2>3
    <3> QED BY <3>2, <3>3, <3>4
  <2>4. i <= Len(s) \/ i > Len(s)
    BY <1>1, <2>1
  <2> QED BY <2>2, <2>3, <2>4
<1>4. ASSUME NEW i \in Places(s \o t), NEW j \in Places(s \o t), i < j
      PROVE  (s \o t)[i].seq < (s \o t)[j].seq
  <2>0. i \in Nat /\ j \in Nat /\ Len(s) \in Nat
    BY <1>1, <1>3
  <2>1. CASE j <= Len(s)
    <3>1. i <= Len(s)
      BY <1>4, <2>0, <2>1
    <3> QED BY <1>3, <1>4, <2>1, <3>1 DEF Ascends
  <2>2. CASE i <= Len(s) /\ j > Len(s)
    <3>1. (s \o t)[i].seq \in Seqs(s)
      BY <1>3, <2>2 DEF Seqs
    <3>2. (s \o t)[j].seq \in Range(q)
      BY <1>3, <2>2 DEF Range
    <3> QED BY <3>1, <3>2
  <2>3. CASE i > Len(s)
    <3>1. j > Len(s) /\ i - Len(s) < j - Len(s)
      BY <1>4, <2>0, <2>3
    <3>2. /\ i - Len(s) \in DOMAIN q /\ (s \o t)[i].seq = q[i - Len(s)]
          /\ j - Len(s) \in DOMAIN q /\ (s \o t)[j].seq = q[j - Len(s)]
      BY <1>3, <2>3, <3>1
    <3> QED BY <3>1, <3>2 DEF Rising
  <2>4. j <= Len(s) \/ (i <= Len(s) /\ j > Len(s)) \/ i > Len(s)
    BY <2>0
  <2> QED BY <2>1, <2>2, <2>3, <2>4
<1>5. Seqs(s \o t) \subseteq Seqs(s) \cup Range(q)
  <2>1. ASSUME NEW i \in Places(s \o t)
        PROVE  (s \o t)[i].seq \in Seqs(s) \cup Range(q)
    <3>1. i <= Len(s) \/ i > Len(s)
      BY <1>1, <1>3
    <3> QED BY <1>3, <3>1 DEF Seqs, Range
  <2> QED BY <2>1 DEF Seqs
<1>6. Seqs(s) \subseteq Seqs(s \o t)
  <2>1. ASSUME NEW i \in Places(s) PROVE i \in Places(s \o t) /\ (s \o t)[i] = s[i]
    BY <1>1 DEF Places
  <2> QED BY <2>1 DEF Seqs
<1>7. Range(q) \subseteq Seqs(s \o t)
  <2>1. ASSUME NEW k \in DOMAIN q PROVE \E i \in Places(s \o t) : (s \o t)[i].seq = q[k]
    <3>1. /\ Len(s) + k \in DOMAIN (s \o t) /\ Len(s) + k \in Len(s) + 1..Len(s) + Len(t)
          /\ (Len(s) + k) - Len(s) = k
      BY <1>1
    <3>2. (s \o t)[Len(s) + k] = t[k]
      BY <1>1, <3>1
    <3> QED BY <1>2, <3>1, <3>2 DEF Places
  <2> QED BY <2>1 DEF Range, Seqs
<1> QED BY <1>4, <1>5, <1>6, <1>7 DEF Ascends

(* Every step keeps the streams in order and apart.                        *)
LEMMA StreamStep ==
    ASSUME OneWalletEach, JobInv, MailInv, StreamInv, [Next]_vars
    PROVE  StreamInv'
<1>0. /\ out \in [Conns -> Seq(Frame)] /\ received \in [Conns -> Seq(Frame)]
      /\ mailboxes \in [Wallets -> Seq(Nat)] /\ addressed \in [Wallets -> Seq(Nat)]
      /\ accepted \in Nat /\ Holds \in [Conns -> SUBSET Wallets]
      /\ \A w \in Wallets : Range(mailboxes[w]) \subseteq Range(addressed[w])
      /\ \A w \in Wallets : \A n \in Range(addressed[w]) : n <= accepted
  BY StreamParts, HoldsAssumption DEF MailInv
<1>1. \A c \in Conns :
          /\ Ascends(Stream(c))
          /\ \A n \in Seqs(Stream(c)) : \E w \in Holds[c] : n \in Range(addressed[w])
          /\ \A w \in Holds[c] :
                /\ \A n \in Seqs(Stream(c)), m \in Range(mailboxes[w]) : n < m
                /\ \A e \in Conns \ {c} :
                      w \in Holds[e] => Seqs(Stream(c)) \cap Seqs(Stream(e)) = {}
  BY StreamParts
<1>2. CASE Thins
  BY <1>2, ThinsKeeps
<1>3. ASSUME NEW R \in Audiences, Addresses(R), UNCHANGED <<out, received>>
      PROVE  StreamInv'
  <2>1. \A c \in Conns : Stream(c)' = Stream(c)
    BY <1>3 DEF Stream
  <2>2. ASSUME NEW w \in Wallets
        PROVE  /\ Range(addressed[w]) \subseteq Range(addressed'[w])
               /\ Range(mailboxes'[w]) \subseteq Range(mailboxes[w]) \cup {accepted + 1}
    <3>1. CASE w \in R
      <4>1. /\ mailboxes'[w] = Append(mailboxes[w], accepted + 1)
            /\ addressed'[w] = Append(addressed[w], accepted + 1)
        BY <1>3, <3>1 DEF Addresses, FannedOut
      <4>2. /\ mailboxes[w] \in Seq(Nat) /\ addressed[w] \in Seq(Nat) /\ accepted + 1 \in Nat
        BY <1>0
      <4>3. /\ Range(Append(mailboxes[w], accepted + 1)) = Range(mailboxes[w]) \cup {accepted + 1}
            /\ Range(Append(addressed[w], accepted + 1)) = Range(addressed[w]) \cup {accepted + 1}
        BY <4>2, Appended
      <4> QED BY <4>1, <4>3
    <3>2. CASE w \notin R
      BY <1>3, <3>2 DEF Addresses, FannedOut
    <3> QED BY <3>1, <3>2
  <2>3. ASSUME NEW c \in Conns, NEW n \in Seqs(Stream(c))
        PROVE  n < accepted + 1
    <3>1. PICK w \in Holds[c] : n \in Range(addressed[w])
      BY <1>1
    <3>2. n <= accepted /\ n \in Nat
      BY <1>0, <3>1 DEF Range
    <3> QED BY <1>0, <3>2
  <2>4. \A c \in Conns : \A w \in Holds[c] :
           \A n \in Seqs(Stream(c)), m \in Range(mailboxes'[w]) : n < m
    BY <1>0, <1>1, <2>2, <2>3
  <2>5. \A c \in Conns : \A n \in Seqs(Stream(c)) : \E w \in Holds[c] : n \in Range(addressed'[w])
    BY <1>0, <1>1, <2>2
  <2> QED BY <1>0, <1>1, <1>3, <2>1, <2>4, <2>5, StreamPartsNext
<1>4. ASSUME NEW c \in Conns, DeliverPending(c) PROVE StreamInv'
  <2> DEFINE T == job[c].targets
  <2>1. /\ T \in [Wallets -> Conns \cup {None}]
        /\ \A w \in Wallets : T[w] # None => w \in Holds[T[w]]
    BY <1>4 DEF DeliverPending, JobInv, Routes
  <2>2. /\ out' = [d \in Conns |-> Sent(d, Drained(T, d))]
        /\ mailboxes' = [w \in Wallets |-> IF T[w] = None THEN mailboxes[w] ELSE <<>>]
        /\ UNCHANGED <<addressed, received>>
    BY <1>4 DEF DeliverPending, Left
  <2> HIDE DEF T
  <2>3. \A w \in Wallets : Range(mailboxes'[w]) \subseteq Range(mailboxes[w])
    <3>1. Range(<<>>) = {}
      BY DEF Range
    <3> QED BY <2>2, <3>1
  <2> DEFINE Same(d) == Stream(d)' = Stream(d)
             Gets(d, w) ==
                /\ w \in Wallets /\ T[w] = d /\ w \in Holds[d]
                /\ Stream(d)' \in Seq(Frame) /\ out'[d] \in Seq(Frame)
                /\ Ascends(Stream(d)')
                /\ Seqs(Stream(d)') = Seqs(Stream(d)) \cup Range(mailboxes[w])
  <2>4. ASSUME NEW d \in Conns
        PROVE  /\ out'[d] \in Seq(Frame)
               /\ Same(d) \/ \E w \in Wallets : Gets(d, w)
    <3>1. CASE ~writer[d]
      BY <1>0, <2>2, <3>1 DEF Sent, Stream
    <3>2. CASE writer[d] /\ \A w \in Wallets : T[w] # d
      <4>1. out'[d] = out[d] \o <<>>
        BY <2>2, <3>2, DrainedNone DEF Sent
      <4>2. out[d] \o <<>> = out[d]
        BY <1>0, ConcatEmptySeq
      <4> QED BY <1>0, <2>2, <4>1, <4>2 DEF Stream
    <3>3. ASSUME NEW w \in Wallets, writer[d], T[w] = d
          PROVE  out'[d] \in Seq(Frame) /\ Gets(d, w)
      <4>1. w \in Holds[d] /\ \A v \in Wallets : T[v] = d => v = w
        BY <2>1, <3>3, NoneAssumption DEF OneWalletEach
      <4>2. Drained(T, d) = <<>> \o Frames(w)
        BY <3>3, <4>1, DrainedOne
      <4>3. /\ Frames(w) \in Seq(Frame) /\ DOMAIN Frames(w) = DOMAIN mailboxes[w]
            /\ \A i \in DOMAIN mailboxes[w] : Frames(w)[i] = Deliver(mailboxes[w][i])
        <5>1. /\ mailboxes[w] \in Seq(Nat) /\ DOMAIN mailboxes[w] = 1..Len(mailboxes[w])
              /\ Len(mailboxes[w]) \in Nat
              /\ \A i \in 1..Len(mailboxes[w]) : mailboxes[w][i] \in Nat
          BY <1>0
        <5> QED BY <5>1 DEF Frames, Deliver, Frame
      <4> DEFINE f == Frames(w)
                 s == Stream(d)
      <4>4. f \in Seq(Frame) /\ <<>> \o f = f /\ Drained(T, d) = f
        BY <4>2, <4>3, ConcatEmptySeq
      <4>5. /\ s = received[d] \o out[d] /\ received[d] \in Seq(Frame) /\ out[d] \in Seq(Frame)
            /\ s \in Seq(Frame)
        BY <1>0, Joined DEF Stream
      <4>6. out'[d] = out[d] \o f /\ received'[d] = received[d]
        BY <2>2, <3>3, <4>4 DEF Sent
      <4>7. /\ DOMAIN f = DOMAIN mailboxes[w]
            /\ \A i \in DOMAIN mailboxes[w] : f[i] = Deliver(mailboxes[w][i])
        BY <4>3
      <4>8. Ascends(s) /\ Rising(mailboxes[w]) /\ mailboxes[w] \in Seq(Nat)
            /\ \A n \in Seqs(s), m \in Range(mailboxes[w]) : n < m
        BY <1>0, <1>1, <4>1 DEF MailInv
      <4>9. Stream(d)' = received[d] \o (out[d] \o f)
        BY <4>6 DEF Stream
      <4> HIDE DEF f, s
      <4>10. /\ received[d] \o (out[d] \o f) = s \o f
             /\ s \o f \in Seq(Frame) /\ out[d] \o f \in Seq(Frame)
        <5> DEFINE x == received[d]
                   y == out[d]
        <5>1. x \in Seq(Frame) /\ y \in Seq(Frame) /\ f \in Seq(Frame) /\ s = x \o y
          BY <4>4, <4>5
        <5> HIDE DEF x, y
        <5>2. x \o (y \o f) = s \o f /\ s \o f \in Seq(Frame) /\ y \o f \in Seq(Frame)
          BY <5>1, JoinedThrice
        <5> QED BY <5>2 DEF x, y
      <4>11. Ascends(s \o f) /\ Seqs(s \o f) = Seqs(s) \cup Range(mailboxes[w])
        BY <4>4, <4>5, <4>7, <4>8, StreamDrains
      <4> QED BY <3>3, <4>1, <4>6, <4>9, <4>10, <4>11 DEF s
    <3> QED BY <3>1, <3>2, <3>3
  <2>5. ASSUME NEW d \in Conns
        PROVE  /\ Ascends(Stream(d)')
               /\ \A n \in Seqs(Stream(d)') : \E w \in Holds[d] : n \in Range(addressed'[w])
    BY <1>0, <1>1, <2>2, <2>4
  <2>6. ASSUME NEW d \in Conns, NEW w \in Holds[d],
               NEW n \in Seqs(Stream(d)'), NEW m \in Range(mailboxes'[w])
        PROVE  n < m
    <3>1. n \in Seqs(Stream(d)) => n < m
      BY <1>0, <1>1, <2>3
    <3>2. ASSUME NEW v \in Wallets, Gets(d, v) PROVE Range(mailboxes'[w]) = {}
      <4>1. v = w
        BY <3>2 DEF OneWalletEach
      <4>2. mailboxes'[w] = <<>>
        BY <2>2, <3>2, <4>1, NoneAssumption
      <4> QED BY <4>2 DEF Range
    <3> QED BY <2>4, <3>1, <3>2
  <2>7. ASSUME NEW d \in Conns, NEW e \in Conns \ {d}, NEW w \in Holds[d], w \in Holds[e],
               NEW v \in Wallets, Gets(d, v)
        PROVE  Seqs(Stream(d)') \cap Seqs(Stream(e)') = {}
    <3>1. v = w
      BY <2>7 DEF OneWalletEach
    <3>2. Same(e)
      BY <2>4, <2>7, <3>1 DEF OneWalletEach
    <3>3. Seqs(Stream(d)) \cap Seqs(Stream(e)) = {}
      BY <1>1, <2>7
    <3>4. \A n \in Seqs(Stream(e)), m \in Range(mailboxes[w]) : n < m
      BY <1>1, <2>7
    <3>5. Range(mailboxes[w]) \subseteq Nat
      BY <1>0, <2>7, <3>1 DEF Range
    <3>6. \A m \in Range(mailboxes[w]) : m \notin Seqs(Stream(e))
      <4>1. \A m \in Range(mailboxes[w]) : ~(m < m)
        BY <3>5
      <4> QED BY <3>4, <4>1
    <3> QED BY <2>7, <3>1, <3>2, <3>3, <3>6
  <2>8. \A d \in Conns, e \in Conns : \A w \in Holds[d] :
           d # e /\ w \in Holds[e] => Seqs(Stream(d)') \cap Seqs(Stream(e)') = {}
    BY <1>1, <2>4, <2>7
  <2>9. out' \in [Conns -> Seq(Frame)] /\ received' \in [Conns -> Seq(Frame)]
    BY <1>0, <2>2, <2>4
  <2> HIDE DEF Same, Gets
  <2> QED BY <2>5, <2>6, <2>8, <2>9, StreamPartsNext
<1> QED BY <1>2, <1>3, <1>4, ThinsKinds

(* ConnectionsServedHolds: connections are counted as they are, and each    *)
(* one gets its own wallets' envelopes once and in order, however logins,   *)
(* deliveries on older copies of the registry, offboards, writers and       *)
(* teardowns interleave, for any number of connections and wallets.        *)
THEOREM ConnectionsServedHolds ==
    ASSUME OneWalletEach
    PROVE  Spec => []ConnectionsServed
<1>1. Init => ServedInv
  <2> SUFFICES ASSUME Init PROVE ServedInv
    OBVIOUS
  <2>1. CountInv
    <3> DEFINE L == {c \in Conns : Live(c)}
    <3>1. L = {}
      BY DEF Init, Live
    <3>2. IsFiniteSet(L) /\ Cardinality(L) = 0
      BY <3>1, FS_EmptySet
    <3>3. conns = Cardinality(L) /\ conns <= MAX_CONNECTIONS
      BY <3>2, LimitAssumption DEF Init
    <3> HIDE DEF L
    <3>4. IsFiniteSet({c \in Conns : Live(c)}) /\ conns = Cardinality({c \in Conns : Live(c)})
      BY <3>2, <3>3 DEF L
    <3>5. /\ pc \in [Conns -> Steps] /\ authed \in [Conns -> Wallets \cup {None}]
          /\ socket \in [Conns -> {"open", "closed"}] /\ writer \in [Conns -> BOOLEAN]
          /\ registry \in [Wallets -> Conns \cup {None}] /\ sessions \subseteq Wallets
      BY DEF Init, Steps
    <3> QED BY <3>3, <3>4, <3>5 DEF CountInv, TypeOK, Steps
  <2>2. JobInv
    BY DEF Init, JobInv, Routes
  <2>3. MailInv
    <3>1. Rising(<<>>) /\ Range(<<>>) = {} /\ <<>> \in Seq(Nat)
      BY DEF Rising, Range
    <3> QED BY <3>1 DEF Init, MailInv
  <2>4. StreamInv
    <3>1. \A c \in Conns : Stream(c) = <<>>
      <4>1. <<>> \in Seq(Frame) /\ <<>> \o <<>> = <<>>
        BY ConcatEmptySeq
      <4> QED BY <4>1 DEF Init, Stream
    <3>2. Places(<<>>) = {}
      BY DEF Places
    <3>3. Seqs(<<>>) = {} /\ Ascends(<<>>)
      BY <3>2 DEF Seqs, Ascends
    <3> QED BY <3>1, <3>3, StreamParts DEF Init
  <2> QED BY <2>1, <2>2, <2>3, <2>4 DEF ServedInv
<1>2. ServedInv /\ [Next]_vars => ServedInv'
  BY CountStep, JobStep, MailStep, StreamStep DEF ServedInv
<1>3. ServedInv => ConnectionsServed
  <2> SUFFICES ASSUME ServedInv PROVE ConnectionsServed
    OBVIOUS
  <2>1. TypeOK
    BY DEF ServedInv, CountInv
  <2>2. ASSUME NEW c \in Conns, NEW w \in Holds[c]
        PROVE  DeliveredOn(c) \cap Range(mailboxes[w]) = {}
    <3>1. Range(mailboxes[w]) \subseteq Nat
      BY HoldsAssumption DEF ServedInv, MailInv, Range
    <3>2. \A m \in Range(mailboxes[w]) : ~(m < m)
      BY <3>1
    <3> QED BY <3>2 DEF ServedInv, StreamInv
  <2>3. DeliveredInOrder
    BY <2>2 DEF ServedInv, StreamInv, DeliveredInOrder
  <2> QED BY <2>1, <2>3 DEF ConnectionsServed
<1> QED BY <1>1, <1>2, <1>3, PTL DEF Spec
=============================================================================

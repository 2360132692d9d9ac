------------------------------ MODULE RelayWs ------------------------------
(***************************************************************************)
(* The relay's WebSocket transport (src/crates/comms-relay/src/ws.rs, with *)
(* the pause switch of admin.rs): one task per connection that reads       *)
(* frames and dispatches them in turn, one writer task per connection that *)
(* empties its outgoing channel, and the registry that maps a wallet to    *)
(* the channel of the connection it authenticated on.  The registry lock   *)
(* and the service lock are taken one after the other, never together, so  *)
(* every stretch of a handler under one lock is a step of its own.         *)
(*                                                                         *)
(* The delivery service is reduced to what the transport reads and writes  *)
(* of it: the sessions and the mailboxes (module Relay has the rest).  An  *)
(* accepted envelope is named by its number; the wallets it is addressed   *)
(* to are a choice, each named once (Relay counts the copies of a wallet   *)
(* that is named twice).  A connection's socket may break at any time, and *)
(* the reading task finds out when it has read what came before.  Answers  *)
(* to requests (Ack, Error, Authenticated, ...) go out on the same         *)
(* channel, read by nobody here, and are left out of it.                   *)
(***************************************************************************)
EXTENDS Naturals, Sequences, FiniteSets, SequencesExt

CONSTANTS Conns, Wallets, None,
          MAX_CONNECTIONS,
          MaxEnvelopes,      \* bound on accepted envelopes
          Holds,             \* conn -> the wallets its peer can sign for
          Ops,               \* the fan-out operations peers use
          Audiences,         \* the sets of wallets they address
          Switch             \* the values the operator gives the pause flag

ASSUME NoneAssumption == None \notin Wallets \cup Conns
ASSUME HoldsAssumption == Holds \in [Conns -> SUBSET Wallets]
ASSUME WorkloadAssumption ==
    /\ Ops \subseteq {"submit", "onboard", "offboard"}
    /\ Audiences \subseteq SUBSET Wallets /\ Switch \subseteq BOOLEAN
ASSUME LimitAssumption == MAX_CONNECTIONS \in Nat /\ MaxEnvelopes \in Nat

VARIABLES
    pc,         \* conn -> where its reading task is
    authed,     \* conn -> the wallet it authenticated as, or None
    socket,     \* conn -> "open" or "closed"
    writer,     \* conn -> is the writer task running?
    out,        \* conn -> its outgoing channel
    job,        \* conn -> what the dispatch in progress carries over its steps
    conns,      \* live connections, as counted by the accept loop
    registry,   \* wallet -> conn, or None
    sessions,   \* DeliveryService.sessions
    mailboxes,  \* DeliveryService.mailboxes
    paused,     \* the admin switch
    accepted,   \* number of accepted envelopes
    addressed,  \* history: wallet -> the envelopes addressed to it
    received    \* history: conn -> Deliver frames its peer has received

service == <<sessions, mailboxes, accepted, addressed>>
vars == <<pc, authed, socket, writer, out, job, conns, registry, sessions,
          mailboxes, paused, accepted, addressed, received>>

Deliver(n) == [type |-> "Deliver", seq |-> n]
Notify(n) == [type |-> "Notify", seq |-> n]
NoJob == [op |-> "none"]

(* A frame sent on a channel whose writer has gone is dropped.             *)
Sent(c, frames) == IF writer[c] THEN out[c] \o frames ELSE out[c]

Init ==
    /\ pc = [c \in Conns |-> "new"] /\ authed = [c \in Conns |-> None]
    /\ socket = [c \in Conns |-> "open"] /\ writer = [c \in Conns |-> FALSE]
    /\ out = [c \in Conns |-> <<>>] /\ job = [c \in Conns |-> NoJob]
    /\ conns = 0 /\ registry = [w \in Wallets |-> None]
    /\ sessions = {} /\ mailboxes = [w \in Wallets |-> <<>>]
    /\ paused = FALSE /\ accepted = 0
    /\ addressed = mailboxes /\ received = [c \in Conns |-> <<>>]

---------------------------------------------------------------------------
(* bind's accept loop, and handle_conn up to its reading loop.              *)
Accept(c) ==
    /\ pc[c] = "new" /\ conns < MAX_CONNECTIONS
    /\ conns' = conns + 1
    /\ pc' = [pc EXCEPT ![c] = "reading"]
    /\ writer' = [writer EXCEPT ![c] = TRUE]
    /\ UNCHANGED <<authed, socket, out, job, registry, service, paused, received>>

(* The peer goes away, or the network does. *)
Disconnect(c) ==
    /\ pc[c] \notin {"new", "gone"} /\ socket[c] = "open"
    /\ socket' = [socket EXCEPT ![c] = "closed"]
    /\ UNCHANGED <<pc, authed, writer, out, job, conns, registry, service, paused, received>>

(* The writer task takes one frame; when the socket refuses it, it ends.    *)
Write(c) ==
    /\ writer[c] /\ out[c] # <<>>
    /\ IF socket[c] = "open"
       THEN /\ out' = [out EXCEPT ![c] = Tail(@)]
            /\ received' = IF Head(out[c]).type = "Deliver"
                           THEN [received EXCEPT ![c] = Append(@, Head(out[c]))]
                           ELSE received
            /\ UNCHANGED writer
       ELSE /\ writer' = [writer EXCEPT ![c] = FALSE]
            /\ out' = [out EXCEPT ![c] = <<>>]
            /\ UNCHANGED received
    /\ UNCHANGED <<pc, authed, socket, job, conns, registry, service, paused>>

---------------------------------------------------------------------------
(* Authenticate: the service lock, then the registry lock.                  *)

Authenticate(c, w) ==
    /\ pc[c] = "reading" /\ w \in Holds[c]
    /\ sessions' = sessions \cup {w}
    /\ job' = [job EXCEPT ![c] = [op |-> "authenticate", wallet |-> w]]
    /\ pc' = [pc EXCEPT ![c] = "register"]
    /\ UNCHANGED <<authed, socket, writer, out, conns, registry, mailboxes,
                   paused, accepted, addressed, received>>

Register(c) ==
    /\ pc[c] = "register"
    /\ registry' = [registry EXCEPT ![job[c].wallet] = c]
    /\ authed' = [authed EXCEPT ![c] = job[c].wallet]
    /\ job' = [job EXCEPT ![c] = NoJob]
    /\ pc' = [pc EXCEPT ![c] = "reading"]
    /\ UNCHANGED <<socket, writer, out, conns, service, paused, received>>

---------------------------------------------------------------------------
(* Mutating frames: the pause gate, the service call, the fan-out.          *)

(* dispatch reads the pause flag once, before it waits for the lock.        *)
Dispatch(c, op) ==
    /\ pc[c] = "reading" /\ authed[c] # None /\ ~paused
    /\ job' = [job EXCEPT ![c] = [op |-> op]]
    /\ pc' = [pc EXCEPT ![c] = "gated"]
    /\ UNCHANGED <<authed, socket, writer, out, conns, registry, service, paused, received>>

(* The service accepts the envelope and fans it out to the mailboxes of R.   *)
FannedOut(R, n) == [w \in Wallets |-> IF w \in R THEN Append(mailboxes[w], n) ELSE mailboxes[w]]

Accepted(c, R) ==
    /\ pc[c] = "gated" /\ authed[c] \in sessions /\ accepted < MaxEnvelopes
    /\ accepted' = accepted + 1
    /\ mailboxes' = FannedOut(R, accepted + 1)
    /\ addressed' = [w \in Wallets |-> IF w \in R THEN Append(addressed[w], accepted + 1)
                                       ELSE addressed[w]]
    /\ job' = [job EXCEPT ![c] = [op |-> job[c].op, recipients |-> R, seq |-> accepted + 1]]
    /\ pc' = [pc EXCEPT ![c] = "targets"]
    /\ UNCHANGED <<authed, socket, writer, out, conns, registry, paused, received>>

(* submit_as and onboard. *)
Submit(c, R) ==
    /\ Accepted(c, R) /\ job[c].op \in {"submit", "onboard"}
    /\ UNCHANGED sessions

(* offboard also ends the session of the wallet it removes. *)
Offboard(c, R, removed) ==
    /\ Accepted(c, R) /\ job[c].op = "offboard"
    /\ sessions' = sessions \ {removed}

(* The service refuses (no session, order, roster, ...), or the frame is    *)
(* one of those that fan nothing out.                                      *)
Refuse(c) ==
    /\ pc[c] = "gated"
    /\ job' = [job EXCEPT ![c] = NoJob]
    /\ pc' = [pc EXCEPT ![c] = "reading"]
    /\ UNCHANGED <<authed, socket, writer, out, conns, registry, service, paused, received>>

(* deliver_pending, under the registry lock: a copy of the registry.        *)
(* Mutant: the sender is left out, as in notify_recipients. *)
SnapshotOfOthers(c) == [w \in Wallets |-> IF w = authed[c] THEN None ELSE registry[w]]
Snapshot(c) == registry

Targets(c) ==
    /\ pc[c] = "targets"
    /\ job' = [job EXCEPT ![c] = [op |-> job[c].op, recipients |-> job[c].recipients,
                                  seq |-> job[c].seq, targets |-> Snapshot(c)]]
    /\ pc' = [pc EXCEPT ![c] = "deliver"]
    /\ UNCHANGED <<authed, socket, writer, out, conns, registry, service, paused, received>>

Frames(w) == [i \in 1..Len(mailboxes[w]) |-> Deliver(mailboxes[w][i])]

(* What connection c gets of a fetch for the targets T.  (The order between *)
(* two wallets registered on one channel is the hash map's; no property     *)
(* checked with such a channel depends on it.)                             *)
Drained(T, c) ==
    FoldSet(LAMBDA w, fs : fs \o Frames(w), <<>>, {w \in Wallets : T[w] = c})

(* What fetch leaves in the mailboxes. *)
LeftUndrained(T) == mailboxes
Left(T) == [w \in Wallets |-> IF T[w] = None THEN mailboxes[w] ELSE <<>>]

(* deliver_pending, under the service lock: fetch drains, the channel takes. *)
DeliverPending(c) ==
    /\ pc[c] = "deliver"
    /\ LET T == job[c].targets IN
          /\ out' = [d \in Conns |-> Sent(d, Drained(T, d))]
          /\ mailboxes' = Left(T)
    /\ IF job[c].op = "submit"
       THEN pc' = [pc EXCEPT ![c] = "notify"] /\ UNCHANGED job
       ELSE pc' = [pc EXCEPT ![c] = "reading"] /\ job' = [job EXCEPT ![c] = NoJob]
    /\ UNCHANGED <<authed, socket, writer, conns, registry, sessions, paused,
                   accepted, addressed, received>>

(* notify_recipients, under the registry lock. *)
NotifyRecipients(c) ==
    /\ pc[c] = "notify"
    /\ out' = [d \in Conns |->
                  Sent(d, [i \in 1..Cardinality({w \in job[c].recipients \ {authed[c]} :
                                                    registry[w] = d}) |-> Notify(job[c].seq)])]
    /\ job' = [job EXCEPT ![c] = NoJob]
    /\ pc' = [pc EXCEPT ![c] = "reading"]
    /\ UNCHANGED <<authed, socket, writer, conns, registry, service, paused, received>>

---------------------------------------------------------------------------
(* The reading loop ends when the socket does; the teardown takes the       *)
(* registry lock, the service lock, and aborts the writer.                  *)

AfterCloseReads(c) == IF authed[c] = None THEN "reading" ELSE "unregister"
AfterClose(c) == IF authed[c] = None THEN "abort" ELSE "unregister"

CloseSeen(c) ==
    /\ pc[c] = "reading" /\ socket[c] = "closed"
    /\ pc' = [pc EXCEPT ![c] = AfterClose(c)]
    /\ UNCHANGED <<authed, socket, writer, out, job, conns, registry, service, paused, received>>

UnregisteredKeeps(c) == registry
Unregistered(c) == [registry EXCEPT ![authed[c]] = None]

Unregister(c) ==
    /\ pc[c] = "unregister"
    /\ registry' = Unregistered(c)
    /\ pc' = [pc EXCEPT ![c] = "end_session"]
    /\ UNCHANGED <<authed, socket, writer, out, job, conns, service, paused, received>>

SessionKept(c) == sessions
SessionEnded(c) == sessions \ {authed[c]}

EndSession(c) ==
    /\ pc[c] = "end_session"
    /\ sessions' = SessionEnded(c)
    /\ pc' = [pc EXCEPT ![c] = "abort"]
    /\ UNCHANGED <<authed, socket, writer, out, job, conns, registry, mailboxes,
                   paused, accepted, addressed, received>>

SlotKept == conns
SlotFreed == conns - 1

(* writer.abort(), and the accept loop's count goes down. *)
Abort(c) ==
    /\ pc[c] = "abort"
    /\ writer' = [writer EXCEPT ![c] = FALSE]
    /\ out' = [out EXCEPT ![c] = <<>>]
    /\ conns' = SlotFreed
    /\ pc' = [pc EXCEPT ![c] = "gone"]
    /\ UNCHANGED <<authed, socket, job, registry, service, paused, received>>

(* POST /pause and POST /resume. *)
SetPaused(p) ==
    /\ paused # p
    /\ paused' = p
    /\ UNCHANGED <<pc, authed, socket, writer, out, job, conns, registry, service, received>>

---------------------------------------------------------------------------
(* The steps of a connection's task that nothing but the scheduler delays.  *)
Continue(c) ==
    \/ Register(c) \/ Refuse(c) \/ Targets(c) \/ DeliverPending(c)
    \/ NotifyRecipients(c) \/ CloseSeen(c) \/ Unregister(c) \/ EndSession(c) \/ Abort(c)
    \/ \E R \in Audiences :
          Submit(c, R) \/ \E w \in Wallets : Offboard(c, R, w)

Next ==
    \/ \E c \in Conns :
          \/ Accept(c) \/ Disconnect(c) \/ Write(c) \/ Continue(c)
          \/ \E w \in Wallets : Authenticate(c, w)
          \/ \E op \in Ops : Dispatch(c, op)
    \/ \E p \in Switch : SetPaused(p)

Spec == Init /\ [][Next]_vars

(* The runtime polls every task that is ready, and its mutex is granted in  *)
(* the order of the requests: no task is starved.  A closed socket yields   *)
(* the frames it had buffered, of which there are finitely many, and then   *)
(* its end: the reading loop comes to see the close.  Peers owe nothing.    *)
FairSpec ==
    Spec /\ \A c \in Conns :
              WF_vars(Continue(c)) /\ WF_vars(Write(c)) /\ SF_vars(CloseSeen(c))

---------------------------------------------------------------------------
(* Properties.                                                             *)

Live(c) == pc[c] \notin {"new", "gone"}

(* What a connection has been sent: the envelopes its peer has, then what   *)
(* waits in its channel.                                                    *)
Stream(c) == received[c] \o out[c]
Deliveries(c) == {i \in DOMAIN Stream(c) : Stream(c)[i].type = "Deliver"}
DeliveredOn(c) == {Stream(c)[i].seq : i \in Deliveries(c)}

(* Every variable has its type, and conns, the count that enforces          *)
(* MAX_CONNECTIONS, counts the connections whose task has not returned.     *)
TypeOK ==
    /\ pc \in [Conns -> {"new", "reading", "register", "gated", "targets", "deliver",
                         "notify", "unregister", "end_session", "abort", "gone"}]
    /\ authed \in [Conns -> Wallets \cup {None}]
    /\ socket \in [Conns -> {"open", "closed"}] /\ writer \in [Conns -> BOOLEAN]
    /\ registry \in [Wallets -> Conns \cup {None}] /\ sessions \subseteq Wallets
    /\ conns = Cardinality({c \in Conns : Live(c)}) /\ conns <= MAX_CONNECTIONS

(* Whatever connections and deliveries interleave, a connection is sent the  *)
(* envelopes of the wallet it authenticated as and no others, in the order  *)
(* the relay accepted them, and an envelope is sent to a wallet once, also  *)
(* when it has changed connections and an older copy of the registry is     *)
(* still in use: what one channel has is neither in another channel nor in  *)
(* the mailbox (deliver_pending fetches and sends under one lock).          *)
DeliveredInOrder ==
    \A c \in Conns :
        /\ \A i, j \in Deliveries(c) : i < j => Stream(c)[i].seq < Stream(c)[j].seq
        /\ \A n \in DeliveredOn(c) : \E w \in Holds[c] : n \in Range(addressed[w])
        /\ \A w \in Holds[c] :
              /\ DeliveredOn(c) \cap Range(mailboxes[w]) = {}
              /\ \A e \in Conns \ {c} :
                    w \in Holds[e] => DeliveredOn(c) \cap DeliveredOn(e) = {}

(* The registry holds no channel of a connection that has been torn down.   *)
RegistryLive ==
    \A w \in Wallets : registry[w] # None =>
        pc[registry[w]] \notin {"end_session", "abort", "gone"}

(* A session lasts no longer than the connections that authenticated as its *)
(* wallet: "end the authenticated session on disconnect so it does not      *)
(* persist for the process lifetime" (ws.rs:206).                           *)
SessionHasConnection ==
    \A w \in sessions : \E c \in Conns :
        /\ w \in Holds[c] /\ (authed[c] # None \/ pc[c] = "register")
        /\ pc[c] \notin {"abort", "gone"}

(* A connection that ends leaves nothing behind.                            *)
TeardownClean == RegistryLive /\ SessionHasConnection

(* Connections are counted as they are, and each one gets its own wallets'  *)
(* envelopes once and in order.                                             *)
ConnectionsServed == TypeOK /\ DeliveredInOrder

(* A delivery under way would drain w's mailbox into a channel other than   *)
(* d's: its copy of the registry is older than d's registration.            *)
Overtaken(w, d) ==
    \E c \in Conns : pc[c] = "deliver" /\ job[c].targets[w] \notin {d, None}

(* An envelope just accepted whose recipient is registered on an open        *)
(* connection reaches it there, unless that connection breaks, or the wallet *)
(* loses its registry entry before the envelope leaves the mailbox: it       *)
(* authenticated again elsewhere, or the teardown of an earlier connection   *)
(* of its removed the entry (ws.rs:205 removes whatever entry the wallet     *)
(* has).  Then the envelope waits in the mailbox.  The one case left out is  *)
(* a delivery that took its copy of the registry before the registration.    *)
AcceptedReaches ==
    \A d \in Conns, w \in Wallets : \A n \in 1..MaxEnvelopes :
        (/\ n \in Range(mailboxes[w]) /\ \E c \in Conns : pc[c] = "targets" /\ job[c].seq = n
         /\ registry[w] = d /\ socket[d] = "open" /\ ~Overtaken(w, d))
        ~> \/ Deliver(n) \in Range(received[d])
           \/ socket[d] = "closed"
           \/ registry[w] # d /\ n \in Range(mailboxes[w])

(* A connection whose socket closes gives its slot back.                    *)
SlotsFreed ==
    \A c \in Conns : (Live(c) /\ socket[c] = "closed") ~> pc[c] = "gone"

-----------------------------------------------------------------------------
(* Statements of the repository that the code does not meet; the README says *)
(* how each one fails.                                                       *)

(* An envelope addressed to a wallet is in its mailbox, on its way, or       *)
(* received: "the envelope itself still waits in their mailbox, so nothing  *)
(* is lost but latency" (ws.rs:553).                                       *)
NothingLost ==
    \A w \in Wallets : \A n \in Range(addressed[w]) :
        \/ n \in Range(mailboxes[w])
        \/ \E c \in Conns : w \in Holds[c] /\ n \in DeliveredOn(c)

(* connected() is "Number of currently-connected, authenticated wallets"    *)
(* (ws.rs:98), whenever no connection is between two of its steps.          *)
ConnectedCounts ==
    (\A c \in Conns : \/ pc[c] \in {"new", "gone"}
                      \/ pc[c] = "reading" /\ socket[c] = "open")
    => Cardinality({w \in Wallets : registry[w] # None})
         = Cardinality({authed[c] : c \in {d \in Conns : Live(d)}} \ {None})
=============================================================================

---------------------------- MODULE MCConnection ----------------------------
(* Both ends of a connection for TLC, under fair scheduling: WireClient at  *)
(* the member's end, RelayWs at the relay's.  They share no state here, so  *)
(* one run explores either the one or the other, as "end" says.             *)
EXTENDS WireClient, TLC

CONSTANTS c1, c2, w1, none

VARIABLES end, pc, authed, socket, writer, channel, job, conns, registry,
          sessions, mailboxes, paused, accepted, addressed, received

relayVars == <<pc, authed, socket, writer, channel, job, conns, registry,
               sessions, mailboxes, paused, accepted, addressed, received>>

(* One wallet on two connections, each replacing the other in the registry   *)
(* and writing to the wallet, and an operator who pauses and resumes.       *)
Ws == INSTANCE RelayWs WITH
    out <- channel, None <- none, Conns <- {c1, c2}, Wallets <- {w1},
    Holds <- c1 :> {w1} @@ c2 :> {w1}, MAX_CONNECTIONS <- 2, MaxEnvelopes <- 2,
    Ops <- {"submit"}, Audiences <- {{w1}},
    Switch <- BOOLEAN

allVars == <<end, clientVars, relayVars>>

ConnectionInit == end \in {"client", "relay"} /\ ClientInit /\ Ws!Init

Client(A) == end = "client" /\ A /\ UNCHANGED <<end, relayVars>>
Relay(A) == end = "relay" /\ A /\ UNCHANGED <<end, clientVars>>

ConnectionSpec ==
    /\ ConnectionInit
    /\ [][Client(ClientNext) \/ Relay(Ws!Next)]_allVars
    /\ WF_allVars(Client(\E kind \in {"Challenge", "Ack", "KeyPackage", "Error"} : Answer(kind)))
    /\ WF_allVars(Client(Read)) /\ WF_allVars(Client(Receive))
    /\ WF_allVars(Client(ReceiveClosed))
    /\ \A c \in {c1, c2} :
          /\ WF_allVars(Relay(Ws!Continue(c))) /\ WF_allVars(Relay(Ws!Write(c)))
          /\ SF_allVars(Relay(Ws!CloseSeen(c)))

(* An envelope accepted while its recipient is connected reaches that       *)
(* connection, unless it breaks or loses its registry entry first.          *)
AcceptedReaches == Ws!AcceptedReaches

(* Nobody waits for ever: every request returns, and a connection whose     *)
(* socket is closed gives its slot back.                                    *)
ConnectionEnds == RequestEnds /\ Ws!SlotsFreed
=============================================================================

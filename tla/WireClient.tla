----------------------------- MODULE WireClient -----------------------------
(***************************************************************************)
(* RelayClient (src/crates/comms-wire/src/client.rs) as WsRelay drives it  *)
(* (src/crates/comms-member-daemon/src/relay.rs): one request at a time on *)
(* a socket on which the relay also pushes envelopes and notifications,    *)
(* and a health probe that gives up on its answer after 500 ms.            *)
(*                                                                         *)
(* The relay answers the frames of a connection in order (RelayWs).  A     *)
(* request is known by its number: the frame, its answer and its result    *)
(* carry it, so that the properties can tell whose answer was taken.       *)
(* Answers carry their frame kind, which is all that the request methods   *)
(* look at; Error answers, which every method accepts, are one more kind.  *)
(***************************************************************************)
EXTENDS Naturals, Sequences

CONSTANTS Requests,     \* the kinds of request callers make
          MAX_CHALLENGES_PER_CONN,
          MaxRequests, MaxPushes    \* bounds

(* What each method expects. *)
Expected == [Challenge |-> "Challenge", Submit |-> "Ack", RegisterGroup |-> "Ack",
             TakeKeyPackage |-> "KeyPackage"]

ASSUME WireAssumption == Requests \subseteq DOMAIN Expected

VARIABLES
    open,       \* the socket
    out,        \* out_tx and the socket's upstream: request frames
    challenges, \* relay: challenge_count of this connection
    down,       \* the socket's downstream: answers and pushes
    resp,       \* resp_rx
    deliver,    \* deliver_rx
    notify,     \* notify_rx
    pending,    \* the request in progress, or None
    asked,      \* requests made so far
    results,    \* history: request -> its result
    pushed,     \* history: envelopes the relay has pushed on this socket
    drained     \* history: envelopes next_delivered has returned

clientVars == <<open, out, challenges, down, resp, deliver, notify, pending, asked, results,
                pushed, drained>>

None == [n |-> 0]

ClientInit ==
    /\ open = TRUE
    /\ out = <<>> /\ down = <<>>
    /\ challenges = 1
    /\ resp = <<>> /\ deliver = <<>> /\ notify = <<>>
    /\ pending = None
    /\ asked = 0
    /\ results = <<>>
    /\ pushed = 0
    /\ drained = <<>>

(* request: the frame goes out; probe marks is_connected's challenge. *)
Request(kind, probe) ==
    /\ pending = None
    /\ asked < MaxRequests
    /\ asked' = asked + 1
    /\ pending' = [n |-> asked', kind |-> kind, probe |-> probe]
    /\ out' = IF open THEN Append(out, [n |-> asked', kind |-> kind]) ELSE out
    /\ UNCHANGED <<challenges, open, down, resp, deliver, notify, results,
                   pushed, drained>>

(* The relay answers the next frame: a Challenge until the connection has  *)
(* asked for too many, anything else with what was asked for or an Error.  *)
Answer(kind) ==
    /\ open /\ out # <<>>
    /\ LET f == Head(out) IN
         /\ challenges' = IF f.kind = "Challenge" THEN challenges + 1 ELSE challenges
         /\ kind \in CASE f.kind # "Challenge" -> {Expected[f.kind], "Error"}
                       [] f.kind = "Challenge" ->
                            {IF challenges' > MAX_CHALLENGES_PER_CONN THEN "Error"
                                                                      ELSE "Challenge"}
         /\ down' = Append(down, [type |-> kind, n |-> f.n])
    /\ out' = Tail(out)
    /\ UNCHANGED <<open, resp, deliver, notify, pending, asked, results, pushed,
                   drained>>

(* The relay pushes an envelope, with or without a Notify next to it. *)
Push ==
    /\ open
    /\ pushed < MaxPushes
    /\ pushed' = pushed + 1
    /\ LET d == [type |-> "Deliver", n |-> pushed']
           p == [type |-> "Notify", n |-> pushed']
       IN \E fs \in {<<d>>, <<d, p>>, <<p, d>>} : down' = down \o fs
    /\ UNCHANGED <<open, out, challenges, resp, deliver, notify, pending, asked,
                   results, drained>>

(* Mutant: pushes share the response channel. *)
RouteNotifyToResponses(f) ==
    /\ deliver' = IF f.type = "Deliver" THEN Append(deliver, f.n) ELSE deliver
    /\ notify' = notify
    /\ resp' = IF f.type # "Deliver" THEN Append(resp, f) ELSE resp

(* The read task puts each frame on its channel. *)
Route(f) ==
    /\ deliver' = IF f.type = "Deliver" THEN Append(deliver, f.n) ELSE deliver
    /\ notify' = IF f.type = "Notify" THEN Append(notify, f.n) ELSE notify
    /\ resp' = IF f.type \notin {"Deliver", "Notify"} THEN Append(resp, f) ELSE resp

Read ==
    /\ open /\ down # <<>>
    /\ Route(Head(down))
    /\ down' = Tail(down)
    /\ UNCHANGED <<challenges, open, out, pending, asked, results, pushed, drained>>

(* The result a method computes from the answer it takes. *)
Outcome(kind, f) ==
    CASE f.type = Expected[kind] -> "Ok"
      [] f.type = "Error"        -> "Server"
      [] OTHER                   -> "Protocol"

Finish(r) ==
    /\ pending' = None
    /\ results' = Append(results, r)

(* next_response: the first answer on the channel is this request's. *)
Receive ==
    /\ pending # None
    /\ resp # <<>>
    /\ Finish([n |-> pending.n, probe |-> pending.probe, of |-> Head(resp).n,
               res |-> Outcome(pending.kind, Head(resp))])
    /\ resp' = Tail(resp)
    /\ UNCHANGED <<open, out, challenges, down, deliver, notify, asked, pushed,
                   drained>>

(* Mutant: resp_tx outlives the read task, so the channel never ends. *)
ReceiveClosedNever == FALSE /\ UNCHANGED clientVars

(* The channel is empty and the read task gone: Closed. *)
ReceiveClosed ==
    /\ pending # None
    /\ ~open /\ resp = <<>>
    /\ Finish([n |-> pending.n, probe |-> pending.probe, of |-> pending.n, res |-> "Closed"])
    /\ UNCHANGED <<open, out, challenges, down, resp, deliver, notify, asked,
                   pushed, drained>>

(* is_connected: 500 ms pass first, and the future is dropped. *)
ProbeTimeout ==
    /\ pending # None
    /\ pending.probe
    /\ resp = <<>>
    /\ Finish([n |-> pending.n, probe |-> pending.probe, of |-> pending.n, res |-> "Timeout"])
    /\ UNCHANGED <<open, out, challenges, down, resp, deliver, notify, asked,
                   pushed, drained>>

(* next_delivered, one turn of fetch's loop. *)
NextDelivered ==
    /\ pending = None
    /\ deliver # <<>>
    /\ drained' = Append(drained, Head(deliver))
    /\ deliver' = Tail(deliver)
    /\ UNCHANGED <<open, out, challenges, down, resp, notify, pending, asked,
                   results, pushed>>

NextNotify ==
    /\ notify # <<>>
    /\ notify' = Tail(notify)
    /\ UNCHANGED <<open, out, challenges, down, resp, deliver, pending, asked,
                   results, pushed, drained>>

(* The socket dies with what is in flight on it. *)
Close ==
    /\ open
    /\ open' = FALSE
    /\ out' = <<>> /\ down' = <<>>
    /\ UNCHANGED <<challenges, resp, deliver, notify, pending, asked, results,
                   pushed, drained>>

ClientNext ==
    \/ \E kind \in Requests : Request(kind, FALSE)
    \/ Request("Challenge", TRUE)
    \/ \E kind \in {"Challenge", "Ack", "KeyPackage", "Error"} : Answer(kind)
    \/ Push
    \/ Read
    \/ Receive
    \/ ReceiveClosed
    \/ ProbeTimeout
    \/ NextDelivered
    \/ NextNotify
    \/ Close

ClientSpec == ClientInit /\ [][ClientNext]_clientVars

(* The relay answers, the read task runs, and an awaited channel wakes.    *)
FairSpec ==
    /\ ClientSpec
    /\ WF_clientVars(\E kind \in {"Challenge", "Ack", "KeyPackage", "Error"} : Answer(kind))
    /\ WF_clientVars(Read)
    /\ WF_clientVars(Receive)
    /\ WF_clientVars(ReceiveClosed)

-----------------------------------------------------------------------------
(* Properties.                                                             *)

(* NeverOffset: until a health probe has timed out, every request takes    *)
(* the relay's answer to that very request, none is left on the channel    *)
(* when it has returned, none is of the wrong kind, and pushes that arrive *)
(* inside a round trip displace nothing.                                   *)
NeverOffset ==
    (\A i \in DOMAIN results : results[i].res # "Timeout")
    => /\ \A i \in DOMAIN results : results[i].of = results[i].n
                                    /\ results[i].res # "Protocol"
       /\ pending = None => resp = <<>>

(* DeliveredInOrder: next_delivered returns the pushed envelopes in order, *)
(* without a gap, however requests, timeouts and pushes interleave; on an  *)
(* open socket the rest is on its way, in order, each once.                *)
DeliveredInOrder ==
    LET seen == drained \o deliver
        coming == {i \in DOMAIN down : down[i].type = "Deliver"}
    IN /\ \A i \in DOMAIN seen : seen[i] = i
       /\ \A i, j \in coming : i < j => down[i].n < down[j].n
       /\ {down[i].n : i \in coming} = IF open THEN Len(seen) + 1..pushed ELSE {}

(* What call and next_delivered return is what the relay sent for them.     *)
AnswersMatch == NeverOffset /\ DeliveredInOrder

(* RequestEnds: a request always returns: with an answer or with Closed.   *)
RequestEnds == (pending # None) ~> (pending = None)

-----------------------------------------------------------------------------
(* Statements of the repository that the code does not meet; the README says *)
(* how each one fails.                                                       *)

(* OwnAnswer: every request method returns what the relay answered to that *)
(* very request, or says that it got no answer ("Request methods serialize *)
(* one round trip").                                                       *)
OwnAnswer == \A i \in DOMAIN results : results[i].of = results[i].n

(* ProbeIsTrue: a health probe that the relay answered in time reports the *)
(* link as up ("reflects the live socket"; it "works regardless of session *)
(* state"), however often it has been asked before.                        *)
ProbeIsTrue ==
    \A i \in DOMAIN results :
        results[i].probe /\ results[i].of = results[i].n => results[i].res # "Server"
=============================================================================

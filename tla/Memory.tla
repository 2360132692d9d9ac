------------------------------- MODULE Memory -------------------------------
(***************************************************************************)
(* The knowledge graph (lib/memory): the mem-gateway when a probe found it *)
(* healthy, remembered for a while, and the Neon store otherwise and when  *)
(* a gateway call fails. Approved findings are asserted, and approved      *)
(* again when that failed; agents and record pages recall. The gateway is  *)
(* external: what it takes and answers is chosen freely. A call of either  *)
(* store whose answer is lost may have been served.                        *)
(***************************************************************************)
EXTENDS Naturals, FiniteSets

CONSTANTS Facts,            \* findings agents propose
          Derived,          \* facts the gateway has from elsewhere
          Budget,           \* how many items a recall returns
          MaxRecalls,       \* bound on recalls
          MaxTurns,         \* bound on probes that end the cached choice
          MaxTries          \* bound on approvals that are executed

VARIABLES
    cached,     \* the store getMemoryStore remembers: "none" | "gateway" | "neon"
    gateway,    \* facts the gateway holds
    neon,       \* rows of memory_nodes: [no, fact, vec], vec when it was embedded
    asserts,    \* fact -> "pending" | "gateway" | "neon" | "fallback" | "approved"
    lost,       \* history: facts a store took without its answer being heard
    tries,      \* approvals executed so far
    recalls,    \* recalls under way: [by, floor, at], by an agent or a record's page
    answers,    \* what recalls returned: [floor, source, items]
    asked,      \* recalls so far
    turns       \* expired choices so far

memVars == <<cached, gateway, neon, asserts, lost, tries, recalls, answers, asked, turns>>

TRUST_ORDER == <<"derived-deterministic", "human-confirmed", "agent-asserted", "inferred-advisory">>

trustRank(t) == CHOOSE i \in DOMAIN TRUST_ORDER : TRUST_ORDER[i] = t

Floors == {"none"} \union {TRUST_ORDER[i] : i \in DOMAIN TRUST_ORDER}

(* Mutant: the floor is a ceiling. *)
meetsTrustCeiling(tier, floor) == floor # "none" => trustRank(tier) >= trustRank(floor)

meetsTrustFloor(tier, floor) == floor # "none" => trustRank(tier) <= trustRank(floor)

(* Findings are asserted by agents; the gateway's own are derived. *)
TierOf(f) == IF f \in Derived THEN "derived-deterministic" ELSE "agent-asserted"

MemInit ==
    /\ cached = "none" /\ gateway = Derived /\ neon = {}
    /\ asserts = [f \in Facts |-> "pending"]
    /\ lost = {} /\ tries = 0 /\ recalls = {} /\ answers = {} /\ asked = 0 /\ turns = 0

(* gatewayHealthy: the probe is answered in time or not. *)
gatewayHealthy == {TRUE, FALSE}

(* The store a caller gets, and what stays remembered for the next ones. *)
getMemoryStore(store) ==
    /\ \/ cached # "none" /\ store = cached
       \/ cached = "none" /\ \E healthy \in gatewayHealthy : store = IF healthy THEN "gateway" ELSE "neon"
    /\ cached' = store

(* The remembered choice is a minute old. *)
CacheExpires ==
    /\ cached # "none" /\ turns < MaxTurns
    /\ cached' = "none" /\ turns' = turns + 1
    /\ UNCHANGED <<gateway, neon, asserts, lost, tries, recalls, answers, asked>>

(* A pending memory.assert is approved and executed: the store is chosen.  *)
applyAssert(f) ==
    /\ asserts[f] = "pending" /\ tries < MaxTries
    /\ \E s \in {"gateway", "neon"} :
          /\ getMemoryStore(s)
          /\ asserts' = [asserts EXCEPT ![f] = s]
    /\ tries' = tries + 1
    /\ UNCHANGED <<gateway, neon, lost, recalls, answers, asked, turns>>

(* A store that failed has taken the finding all the same, or has not. *)
Taken(f) == lost' = lost \union {f}
NotTaken == UNCHANGED lost

(* Mutant: a gateway error counts as done. *)
GatewayErrorDone(f) ==
    /\ asserts' = [asserts EXCEPT ![f] = "approved"]
    /\ \/ NotTaken /\ UNCHANGED gateway
       \/ Taken(f) /\ gateway' = gateway \union {f}

(* The gateway refuses, or is out of reach, or answers too late: the       *)
(* finding goes to Neon.                                                   *)
GatewayError(f) ==
    /\ asserts' = [asserts EXCEPT ![f] = "fallback"]
    /\ \/ NotTaken /\ UNCHANGED gateway
       \/ Taken(f) /\ gateway' = gateway \union {f}

gatewayAssert(f) ==
    /\ asserts[f] = "gateway"
    /\ \/ /\ gateway' = gateway \union {f} /\ asserts' = [asserts EXCEPT ![f] = "approved"] /\ UNCHANGED lost
       \/ GatewayError(f)
    /\ UNCHANGED <<cached, neon, tries, recalls, answers, asked, turns>>

(* The embeddings endpoint gives a vector of the right width, or nothing:  *)
(* not configured, an error, a timeout, another width.                     *)
embed == {TRUE, FALSE}

InsertNode(f) ==
    \E v \in embed : neon' = neon \union {[no |-> Cardinality(neon), fact |-> f, vec |-> v]}

(* The store that was chosen gave up, Neon too: Neon is asked (again). When *)
(* that fails, the action has failed and the claim on the approval is      *)
(* released: it can be approved again.                                     *)
AfterNeonError(f) == IF asserts[f] = "neon" THEN "fallback" ELSE "pending"

(* Neon: the row is inserted, with a vector when the text was embedded; or *)
(* an error comes instead of the answer.                                   *)
neonAssert(f) ==
    /\ asserts[f] \in {"neon", "fallback"}
    /\ \/ InsertNode(f) /\ asserts' = [asserts EXCEPT ![f] = "approved"] /\ UNCHANGED lost
       \/ /\ asserts' = [asserts EXCEPT ![f] = AfterNeonError(f)]
          /\ \/ NotTaken /\ UNCHANGED neon
             \/ Taken(f) /\ InsertNode(f)
    /\ UNCHANGED <<cached, gateway, tries, recalls, answers, asked, turns>>

Recall(by, floor) ==
    /\ asked < MaxRecalls /\ asked' = asked + 1
    /\ \E s \in {"gateway", "neon"} :
          /\ getMemoryStore(s)
          /\ recalls' = recalls \union {[by |-> by, floor |-> floor, at |-> s]}
    /\ UNCHANGED <<gateway, neon, asserts, lost, tries, answers, turns>>

(* An agent recalls, with or without a floor. *)
RecallTool(floor) == Recall("agent", floor)

(* The page of a record recalls what is anchored to it, with no floor. *)
recallMemories == Recall("page", "none")

Answered(q, source, items) ==
    /\ recalls' = recalls \ {q}
    /\ answers' = answers \union {[floor |-> q.floor, source |-> source, items |-> items]}

(* The gateway applies the floor it is told, its items are taken as they   *)
(* come; when the call fails, an agent asks Neon and a page shows none.    *)
gatewayRecall(q) ==
    /\ q.at = "gateway"
    /\ \/ \E items \in SUBSET {f \in gateway : meetsTrustFloor(TierOf(f), q.floor)} :
             Cardinality(items) <= Budget /\ Answered(q, "gateway", items)
       \/ /\ q.by = "agent" /\ recalls' = (recalls \ {q}) \union {[q EXCEPT !.at = "neon"]}
          /\ UNCHANGED answers
       \/ q.by = "page" /\ Answered(q, "none", {})
    /\ UNCHANGED <<cached, gateway, neon, asserts, lost, tries, asked, turns>>

(* What passes the floor, best first: at most Budget rows of it. *)
Ranked(rows, floor) ==
    LET good == {x \in rows : meetsTrustFloor(TierOf(x.fact), floor)}
    IN  {{r.fact : r \in best} : best \in {some \in SUBSET good :
            Cardinality(some) = IF Cardinality(good) <= Budget THEN Cardinality(good) ELSE Budget}}

(* Neon: by similarity among the rows with a vector when the query embeds, *)
(* by words among all of them when it does not or when that found nothing  *)
(* (an agent's finding that shares no word still scores, by its tier).     *)
neonRecall(q) ==
    /\ q.at = "neon"
    /\ \E embedded \in embed :
          LET near == {r \in neon : r.vec}
              near1 == {i \in Ranked(near, q.floor) : embedded /\ i # {}}
          IN  \E items \in (IF near1 # {} THEN near1 ELSE Ranked(neon, q.floor)) : Answered(q, "neon", items)
    /\ UNCHANGED <<cached, gateway, neon, asserts, lost, tries, asked, turns>>

MemNext ==
    \/ CacheExpires
    \/ \E f \in Facts : applyAssert(f) \/ gatewayAssert(f) \/ neonAssert(f)
    \/ \E floor \in Floors : RecallTool(floor)
    \/ recallMemories
    \/ \E q \in recalls : gatewayRecall(q) \/ neonRecall(q)

MemSpec == MemInit /\ [][MemNext]_memVars

(* A finding whose approval went through is in a store, whatever failed on *)
(* the way and however often it was approved; it is stored twice, or while *)
(* its approval waits again, only after a store took it and its answer was *)
(* lost; and no recall, from either store or after the fallback, returns a *)
(* finding below the floor it was asked with.                              *)
FindingsKept ==
    /\ \A f \in Facts :
          LET rows == {r \in neon : r.fact = f}
          IN  /\ asserts[f] = "approved" => f \in gateway \/ rows # {}
              /\ f \notin lost =>
                    /\ f \in gateway => rows = {}
                    /\ \A r, s \in rows : r = s
                    /\ asserts[f] = "pending" => f \notin gateway /\ rows = {}
    /\ \A a \in answers : a.floor \in {"derived-deterministic", "human-confirmed"} => a.items \intersect Facts = {}

=============================================================================

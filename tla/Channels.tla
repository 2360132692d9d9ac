------------------------------ MODULE Channels ------------------------------
(***************************************************************************)
(* One channel of the web application: seats (channels.ts), messages,      *)
(* pins and read cursors (messages.ts), the witness ledger (ledger.ts),    *)
(* replies of an agent called into it (channel-agent.ts) and the view each *)
(* person has of it (ChannelView.tsx).                                     *)
(*                                                                         *)
(* An insert reads MAX(seq) and commits in two steps: nothing makes seq    *)
(* unique.  Answers to a view are in flight until they arrive, in any      *)
(* order.  Bodies are left out.                                            *)
(***************************************************************************)
EXTENDS Naturals, FiniteSets, Sequences, FiniteSetsExt

CONSTANTS People, Agent,      \* identities that may be seated; the agent
          Outside,            \* those of People who are Partners
          PageSize,           \* the limit of a list (200)
          ContextTurns,       \* messages an agent is given (15)
          MaxPosts,           \* bound on messages
          MaxRequests         \* bound on requests and changes of standing

ASSUME PageAssumption == {PageSize, ContextTurns, MaxPosts, MaxRequests} \subseteq Nat

VARIABLES
    seated,     \* who sits in the channel; empty until it is made
    standing,   \* person -> "internal", "external" or "gone"
    posts,      \* messages as they were committed: [by, seq, fit]
    views,      \* person -> the channel view of their browser
    readSeq,    \* person -> lastReadSeq
    pinned,     \* messages pinned
    ledger,     \* entry -> [of, status]
    reply,      \* the agent's reply in the making
    requested   \* requests and changes of standing so far

chanVars == <<seated, standing, posts, views, readSeq, pinned, ledger, reply, requested>>

MessageRow == [by : People \union {Agent}, seq : 1..MaxPosts, fit : BOOLEAN]

ChannelMemberRow == [People -> 0..MaxPosts]

NoView == [open |-> FALSE, shown |-> {}, last |-> 0, answers |-> {}, send |-> "idle", at |-> 0,
           jumped |-> FALSE]

NoReply == [pc |-> "idle"]

ChanInit ==
    /\ seated = {} /\ posts = <<>> /\ pinned = {} /\ ledger = <<>> /\ requested = 0
    /\ standing = [p \in People |-> IF p \in Outside THEN "external" ELSE "internal"]
    /\ views = [p \in People |-> NoView]
    /\ readSeq = [p \in People |-> 0]
    /\ reply = NoReply

Call == requested < MaxRequests /\ requested' = requested + 1

(* The audience an agent's reply was checked for is not the one now. *)
Unsettled == reply' = IF reply.pc = "insert" THEN [reply EXCEPT !.raced = TRUE] ELSE reply

-----------------------------------------------------------------------------
(* Seats. *)

(* POST channels: the creator and those asked for who are active. *)
createChannel(creator, asked) ==
    /\ seated = {} /\ standing[creator] = "internal"
    /\ seated' = {creator} \union {p \in asked : standing[p] # "gone"}
    /\ UNCHANGED <<standing, posts, views, readSeq, pinned, ledger, reply, requested>>

(* requireChannel: an active member who is seated. *)
requireChannel(p) == p \in seated /\ standing[p] # "gone"

addChannelMembers(p) ==
    /\ seated # {} /\ p \notin seated /\ standing[p] # "gone" /\ Call
    /\ seated' = seated \union {p}
    /\ Unsettled
    /\ UNCHANGED <<standing, posts, views, readSeq, pinned, ledger>>

(* Offboarding, joining again, a change of role: the seat stays. *)
Restand(p, s) ==
    /\ standing[p] # s /\ Call
    /\ standing' = [standing EXCEPT ![p] = s]
    /\ Unsettled
    /\ UNCHANGED <<seated, posts, views, readSeq, pinned, ledger>>

-----------------------------------------------------------------------------
(* Messages. *)

nextSeq == 1 + Max({0} \union {posts[i].seq : i \in DOMAIN posts})

BySeq(i, j) == posts[i].seq < posts[j].seq \/ (posts[i].seq = posts[j].seq /\ i < j)

MessagesAfter(seq) == {i \in DOMAIN posts : posts[i].seq > seq}

(* Mutant: the newest page instead of the oldest. *)
listMessagesNewest(after, limit) ==
    {i \in MessagesAfter(after) : Cardinality({j \in MessagesAfter(after) : BySeq(i, j)}) < limit}

(* Ascending by seq, the first "limit" of them: a set, since its order is  *)
(* known.                                                                  *)
listMessages(after, limit) ==
    {i \in MessagesAfter(after) : Cardinality({j \in MessagesAfter(after) : BySeq(j, i)}) < limit}

(* The seq of the last one. *)
LastSeq(list, else) == IF list = {} THEN else ELSE Max({posts[i].seq : i \in list})

sendMessage(by, seq, fit) ==
    /\ Len(posts) < MaxPosts
    /\ posts' = Append(posts, [by |-> by, seq |-> seq, fit |-> fit])

(* The server's cursor never goes back. *)
markChannelRead(p, seq) == readSeq' = [readSeq EXCEPT ![p] = Max({@, seq})]

(* The page: the first messages, and the view is marked read. *)
ChannelPage(p) ==
    /\ requireChannel(p) /\ ~views[p].open /\ Call
    /\ LET list == listMessages(0, PageSize)
       IN  /\ views' = [views EXCEPT ![p].open = TRUE, ![p].shown = list, ![p].last = LastSeq(list, 0)]
           /\ markChannelRead(p, LastSeq(list, 0))
    /\ UNCHANGED <<seated, standing, posts, pinned, ledger, reply>>

Leave(p) ==
    /\ views[p].open /\ views[p].send = "idle"
    /\ views' = [views EXCEPT ![p] = NoView]
    /\ UNCHANGED <<seated, standing, posts, readSeq, pinned, ledger, reply, requested>>

(* The poll, every three seconds, and the nudge after an agent's reply     *)
(* may overlap.                                                            *)
Poll(p) ==
    /\ views[p].open /\ requireChannel(p) /\ Call
    /\ LET list == listMessages(views[p].last, PageSize)
       IN  /\ list # {}
           /\ views' = [views EXCEPT ![p].answers = @ \union {list}]
    /\ UNCHANGED <<seated, standing, posts, readSeq, pinned, ledger, reply>>

(* The cursor is that of the answer, even when it is behind; what was seen *)
(* is marked read on the server, which never goes back.                    *)
Polled(p, list) ==
    /\ views' = [views EXCEPT ![p].answers = @ \ {list}, ![p].shown = @ \union list,
                              ![p].last = LastSeq(list, @)]
    /\ markChannelRead(p, LastSeq(list, 0))
    /\ UNCHANGED <<seated, standing, posts, pinned, ledger, reply, requested>>

Lost(p, list) ==
    /\ views' = [views EXCEPT ![p].answers = @ \ {list}]
    /\ UNCHANGED <<seated, standing, posts, readSeq, pinned, ledger, reply, requested>>

send(p) ==
    /\ views[p].open /\ views[p].send = "idle" /\ requireChannel(p) /\ Len(posts) < MaxPosts /\ Call
    /\ views' = [views EXCEPT ![p].send = "insert", ![p].at = nextSeq]
    /\ UNCHANGED <<seated, standing, posts, readSeq, pinned, ledger, reply>>

SendStored(p) ==
    /\ views[p].send = "insert"
    /\ sendMessage(p, views[p].at, TRUE)
    /\ views' = [views EXCEPT ![p].send = "answer", ![p].at = Len(posts) + 1]
    /\ UNCHANGED <<seated, standing, readSeq, pinned, ledger, reply, requested>>

(* The answer moves the cursor past whatever came in between. *)
Sent(p) ==
    /\ views[p].send = "answer"
    /\ LET seq == posts[views[p].at].seq
           between == {i \in DOMAIN posts : posts[i].seq > views[p].last /\ posts[i].seq < seq}
       IN  views' = [views EXCEPT ![p].send = "idle", ![p].at = 0,
                                  ![p].last = Max({@, seq}),
                                  ![p].shown = @ \union {views[p].at},
                                  ![p].jumped = @ \/ between # {}]
    /\ UNCHANGED <<seated, standing, posts, readSeq, pinned, ledger, reply, requested>>

(* Refused, or the answer lost: the draft comes back, the message may be   *)
(* there all the same.                                                     *)
SendFails(p) ==
    /\ views[p].send \in {"insert", "answer"}
    /\ views' = [views EXCEPT ![p].send = "idle", ![p].at = 0]
    /\ UNCHANGED <<seated, standing, posts, readSeq, pinned, ledger, reply, requested>>

setMessagePinned(i, on) == pinned' = IF on THEN pinned \union {i} ELSE pinned \ {i}

togglePin(p, i) ==
    /\ views[p].open /\ requireChannel(p) /\ i \in views[p].shown /\ Call
    /\ setMessagePinned(i, i \notin pinned)
    /\ UNCHANGED <<seated, standing, posts, views, readSeq, ledger, reply>>

-----------------------------------------------------------------------------
(* The witness ledger: any message shown, by anyone who may post. *)
witness(i) == ledger' = Append(ledger, [of |-> i, status |-> "open"])

submitWitness(p, i) ==
    /\ views[p].open /\ requireChannel(p) /\ i \in views[p].shown /\ Call
    /\ witness(i)
    /\ UNCHANGED <<seated, standing, posts, views, readSeq, pinned, reply>>

resolveLedgerEntry(p, e) ==
    /\ requireChannel(p) /\ ledger[e].status = "open"
    /\ ledger' = [ledger EXCEPT ![e].status = "done"]
    /\ UNCHANGED <<seated, standing, posts, views, readSeq, pinned, reply, requested>>

-----------------------------------------------------------------------------
(* An agent called into the channel. *)

(* Everyone seated, and whether they may read the workspace: one whose     *)
(* membership ended counts as external.                                    *)
channelAudience == [p \in seated |-> standing[p] = "internal"]

(* With an external reader the tools run as a Partner's would. *)
agentReplyScope(invoker) ==
    IF \E p \in seated : ~channelAudience[p] THEN "external" ELSE invoker

pingMentionedAgents(p) ==
    /\ views[p].open /\ requireChannel(p) /\ reply.pc = "idle" /\ Len(posts) < MaxPosts /\ Call
    /\ reply' = [pc |-> "run", invoker |-> standing[p], audience |-> channelAudience,
                 scope |-> agentReplyScope(standing[p]),
                 context |-> listMessages(0, ContextTurns), raced |-> FALSE, at |-> 0]
    /\ UNCHANGED <<seated, standing, posts, views, readSeq, pinned, ledger>>

(* Mutant: only that nobody was seated since. *)
replyScopeSameSeats == \A p \in seated : p \in DOMAIN reply.audience

(* Minutes later: the same role, and no reader who was not one then.       *)
replyScopeStillValid ==
    /\ agentReplyScope(reply.invoker) = reply.scope
    /\ \A p \in seated : p \in DOMAIN reply.audience /\ (reply.audience[p] \/ ~channelAudience[p])

ReplyGenerated ==
    /\ reply.pc = "run"
    /\ reply' = IF replyScopeStillValid THEN [reply EXCEPT !.pc = "insert", !.at = nextSeq]
                ELSE NoReply
    /\ UNCHANGED <<seated, standing, posts, views, readSeq, pinned, ledger, requested>>

(* No model, no text, or the agent paused. *)
ReplyFails ==
    /\ reply.pc = "run"
    /\ reply' = NoReply
    /\ UNCHANGED <<seated, standing, posts, views, readSeq, pinned, ledger, requested>>

respondInChannelAsAgent ==
    /\ reply.pc = "insert"
    /\ sendMessage(Agent, reply.at,
                   reply.raced \/ reply.scope = "external" \/ \A p \in seated : channelAudience[p])
    /\ reply' = NoReply
    /\ UNCHANGED <<seated, standing, views, readSeq, pinned, ledger, requested>>

-----------------------------------------------------------------------------
ChanNext ==
    \/ \E p \in People, asked \in SUBSET People : createChannel(p, asked)
    \/ \E p \in People :
         \/ addChannelMembers(p) \/ (\E s \in {"internal", "external", "gone"} : Restand(p, s))
         \/ ChannelPage(p) \/ Leave(p) \/ Poll(p)
         \/ \E list \in views[p].answers : Polled(p, list) \/ Lost(p, list)
         \/ send(p) \/ SendStored(p) \/ Sent(p) \/ SendFails(p)
         \/ \E i \in DOMAIN posts : togglePin(p, i) \/ submitWitness(p, i)
         \/ \E e \in DOMAIN ledger : resolveLedgerEntry(p, e)
         \/ pingMentionedAgents(p)
    \/ ReplyGenerated \/ ReplyFails \/ respondInChannelAsAgent

ChanSpec == ChanInit /\ [][ChanNext]_chanVars

-----------------------------------------------------------------------------
(* A view shows every message up to its cursor, whatever overlapping polls *)
(* answer and in which order; unless its own message moved the cursor past *)
(* others, or two inserts that overlapped took one number.                 *)
NothingSkipped ==
    \A p \in People : views[p].open /\ ~views[p].jumped =>
        \A i \in DOMAIN posts :
            posts[i].seq <= views[p].last /\ i \notin views[p].shown =>
                \E j \in DOMAIN posts : j # i /\ posts[j].seq = posts[i].seq

(* What an agent wrote with the workspace at hand is posted only where     *)
(* everyone may read the workspace, though seats and roles change during   *)
(* the run; unless they change between the last check and the insert.      *)
ReplyFitsAudience == \A i \in DOMAIN posts : posts[i].fit

=============================================================================

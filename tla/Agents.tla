------------------------------- MODULE Agents -------------------------------
(***************************************************************************)
(* Conversations with an agent: the chat window (AgentChat.tsx), the turn  *)
(* it starts (chat/route.ts), the threads it is kept in                    *)
(* (agent-threads.ts), the tools it calls (tools.ts, audit.ts), and the    *)
(* same tools over MCP (mcp/route.ts).                                     *)
(*                                                                         *)
(* A window shows a conversation and sends the id it holds in convIdRef:   *)
(* they change together, or not.  Messages are kept in the order of their  *)
(* commits.  What a person or the model writes is left out.                *)
(***************************************************************************)
EXTENDS Tools, Naturals, Sequences

CONSTANTS Tabs, OwnerOf,      \* windows, and the user of each
          PersonaTools,       \* the persona's allow-list
          Convs,              \* conversation ids a window may draw
          MaxChatTurns,       \* bound on turns
          MaxMoves            \* bound on what is done to windows and roles, and on tool calls

(* Every window draws an id of its own.                                    *)
ASSUME AgentsAssumption ==
    \E f \in [Tabs -> Convs] : \A v, w \in Tabs : v # w => f[v] # f[w]

VARIABLES
    roles,       \* user -> role, or "gone"
    enabled,     \* the persona is enabled
    tabs,        \* window -> [conv, shows, incognito, resume, busy]
    threads,     \* thread id -> the user who began it
    chatTurns,   \* turns so far
    messages,    \* agentMessages: [thread, turn, part]
    toolCalls,   \* agentToolCalls: [turn, tool]
    approvals,   \* proposals queued: [turn, tool]
    posted,      \* writes made at once: [turn, tool]
    mcp,         \* the MCP batch being answered
    moves

agVars == <<roles, enabled, tabs, threads, chatTurns, messages, toolCalls, approvals, posted, mcp, moves>>

TabOwners == {OwnerOf[w] : w \in Tabs}

NoConv == "none"

(* An id no window holds and no thread has. *)
newConvId == CHOOSE c \in Convs : c \notin DOMAIN threads /\ \A w \in Tabs : c # tabs[w].conv

CanDraw == \E c \in Convs : c \notin DOMAIN threads /\ \A w \in Tabs : c # tabs[w].conv

Move == moves < MaxMoves /\ moves' = moves + 1

AgInit ==
    /\ roles = [u \in TabOwners |-> "Member"]
    /\ enabled = TRUE
    /\ tabs = LET f == CHOOSE f \in [Tabs -> Convs] : \A v, w \in Tabs : v # w => f[v] # f[w]
              IN  [w \in Tabs |-> [conv |-> f[w], shows |-> f[w], incognito |-> FALSE,
                                   resume |-> NoConv, busy |-> 0]]
    /\ threads = <<>> /\ chatTurns = <<>> /\ messages = <<>>
    /\ toolCalls = {} /\ approvals = {} /\ posted = {}
    /\ mcp = [left |-> 0] /\ moves = 0

-----------------------------------------------------------------------------
(* The window. *)

newChat(w) ==
    /\ Move /\ CanDraw
    /\ tabs' = [tabs EXCEPT ![w].conv = newConvId, ![w].shows = newConvId]
    /\ UNCHANGED <<roles, enabled, threads, chatTurns, messages, toolCalls, approvals, posted, mcp>>

toggleIncognito(w) ==
    /\ Move /\ CanDraw
    /\ tabs' = [tabs EXCEPT ![w].incognito = ~@, ![w].conv = newConvId, ![w].shows = newConvId]
    /\ UNCHANGED <<roles, enabled, threads, chatTurns, messages, toolCalls, approvals, posted, mcp>>

(* openHistory lists the caller's own threads. *)
listAgentThreads(u) == {c \in DOMAIN threads : threads[c] = u}

(* Mutant: the id moves before the transcript is there. *)
resumeThreadEarly(w, c) ==
    /\ Move /\ tabs[w].resume = NoConv /\ c \in listAgentThreads(OwnerOf[w])
    /\ tabs' = [tabs EXCEPT ![w].resume = c, ![w].conv = c]
    /\ UNCHANGED <<roles, enabled, threads, chatTurns, messages, toolCalls, approvals, posted, mcp>>

resumeThread(w, c) ==
    /\ Move /\ tabs[w].resume = NoConv /\ c \in listAgentThreads(OwnerOf[w])
    /\ tabs' = [tabs EXCEPT ![w].resume = c]
    /\ UNCHANGED <<roles, enabled, threads, chatTurns, messages, toolCalls, approvals, posted, mcp>>

(* Whatever the window shows by then. *)
Resumed(w) ==
    /\ tabs[w].resume # NoConv
    /\ tabs' = [tabs EXCEPT ![w].conv = tabs[w].resume, ![w].shows = tabs[w].resume, ![w].resume = NoConv]
    /\ UNCHANGED <<roles, enabled, threads, chatTurns, messages, toolCalls, approvals, posted, mcp, moves>>

ResumeFails(w) ==
    /\ tabs[w].resume # NoConv
    /\ tabs' = [tabs EXCEPT ![w].resume = NoConv]
    /\ UNCHANGED <<roles, enabled, threads, chatTurns, messages, toolCalls, approvals, posted, mcp, moves>>

(* The body is drawn up when a turn is sent. *)
body(w) == [threadId |-> tabs[w].conv, incognito |-> tabs[w].incognito]

submit(w) ==
    /\ tabs[w].busy = 0 /\ Len(chatTurns) < MaxChatTurns
    /\ chatTurns' = Append(chatTurns, [by |-> OwnerOf[w], shows |-> tabs[w].shows,
                               secret |-> tabs[w].incognito, body |-> body(w),
                               thread |-> NoConv, tools |-> {}, pc |-> "sent"])
    /\ tabs' = [tabs EXCEPT ![w].busy = Len(chatTurns) + 1]
    /\ UNCHANGED <<roles, enabled, threads, messages, toolCalls, approvals, posted, mcp, moves>>

-----------------------------------------------------------------------------
(* The turn. *)

Refuses(i) == ~isInternalRole(roles[chatTurns[i].by]) \/ ~enabled

Refuse(i) ==
    /\ chatTurns[i].pc = "sent" /\ Refuses(i)
    /\ chatTurns' = [chatTurns EXCEPT ![i].pc = "over"]
    /\ UNCHANGED <<roles, enabled, tabs, threads, messages, toolCalls, approvals, posted, mcp, moves>>

ownsAgentThread(u, c) == c \in DOMAIN threads /\ threads[c] = u

(* The id stays one of the caller's, becomes one, or is somebody else's    *)
(* and the turn goes on unrecorded.                                        *)
getOrCreateThread(u, c) == IF c \in DOMAIN threads /\ threads[c] # u THEN NoConv ELSE c

createAgentThread(u, c) ==
    [x \in DOMAIN threads \union ({c} \ {NoConv}) |-> IF x \in DOMAIN threads THEN threads[x] ELSE u]

(* Best effort: a message may be lost, the turn goes on. *)
appendAgentMessage(c, i, part) ==
    \/ messages' = Append(messages, [thread |-> c, turn |-> i, part |-> part])
    \/ messages' = messages

(* The tools are those of the role the caller has now. *)
TurnTools(i) ==
    citrateCommsTools(IF chatTurns[i].body.incognito THEN IncognitoAllow(PersonaTools) ELSE PersonaTools,
                      "Agent", roles[chatTurns[i].by], FALSE)

Admit(i) ==
    /\ chatTurns[i].pc = "sent" /\ ~Refuses(i)
    /\ IF chatTurns[i].body.incognito
       THEN /\ chatTurns' = [chatTurns EXCEPT ![i].pc = "run", ![i].tools = TurnTools(i)]
            /\ UNCHANGED <<threads, messages>>
       ELSE LET c == getOrCreateThread(chatTurns[i].by, chatTurns[i].body.threadId)
            IN  /\ threads' = createAgentThread(chatTurns[i].by, c)
                /\ IF c = NoConv THEN messages' = messages ELSE appendAgentMessage(c, i, "user")
                /\ chatTurns' = [chatTurns EXCEPT ![i].pc = "run", ![i].thread = c, ![i].tools = TurnTools(i)]
    /\ UNCHANGED <<roles, enabled, tabs, toolCalls, approvals, posted, mcp, moves>>

(* A call is logged, best effort, except in an incognito turn.             *)
audited(i, t, audit) ==
    \/ audit /\ toolCalls' = toolCalls \union {[turn |-> i, tool |-> t]}
    \/ UNCHANGED toolCalls

(* Proposed tools queue an approval and are logged as pending. *)
enqueueApproval(i, t) ==
    /\ approvals' = approvals \union {[turn |-> i, tool |-> t]}
    /\ toolCalls' = toolCalls \union {[turn |-> i, tool |-> t]}
    /\ UNCHANGED posted

(* What a tool leaves behind. *)
executeTool(i, t, audit) ==
    \/ t \in HITL_TOOLS /\ enqueueApproval(i, t)
    \/ /\ t \in WritesAtOnce
       /\ posted' = posted \union {[turn |-> i, tool |-> t]}
       /\ audited(i, t, audit)
       /\ UNCHANGED approvals
    \/ /\ t \notin HITL_TOOLS \union WritesAtOnce
       /\ audited(i, t, audit)
       /\ UNCHANGED <<approvals, posted>>

CallTool(i, t) ==
    /\ chatTurns[i].pc = "run" /\ t \in chatTurns[i].tools /\ Move
    /\ executeTool(i, t, ~chatTurns[i].body.incognito)
    /\ UNCHANGED <<roles, enabled, tabs, threads, chatTurns, messages, mcp>>

(* onFinish; or the stream breaks and nothing is kept of the answer.       *)
onFinish(i) ==
    /\ chatTurns[i].pc = "run"
    /\ chatTurns' = [chatTurns EXCEPT ![i].pc = "over"]
    /\ IF chatTurns[i].thread = NoConv THEN messages' = messages
       ELSE appendAgentMessage(chatTurns[i].thread, i, "assistant")
    /\ UNCHANGED <<roles, enabled, tabs, threads, toolCalls, approvals, posted, mcp, moves>>

(* The window is free again. *)
Streamed(w) ==
    /\ tabs[w].busy # 0 /\ chatTurns[tabs[w].busy].pc = "over"
    /\ tabs' = [tabs EXCEPT ![w].busy = 0]
    /\ UNCHANGED <<roles, enabled, threads, chatTurns, messages, toolCalls, approvals, posted, mcp, moves>>

-----------------------------------------------------------------------------
(* MCP: the caller's own role stands for the agent's.  A batch is answered *)
(* one call after the other, each charged.                                 *)
McpPost(u, n) ==
    /\ mcp.left = 0 /\ roles[u] # "gone" /\ Move
    /\ mcp' = [left |-> n, tools |-> citrateCommsTools(PersonaTools, roles[u], roles[u], FALSE)]
    /\ UNCHANGED <<roles, enabled, tabs, threads, chatTurns, messages, toolCalls, approvals, posted>>

McpCall(t) ==
    /\ mcp.left > 0 /\ t \in mcp.tools /\ Move
    /\ executeTool(0, t, TRUE)
    /\ mcp' = IF mcp.left = 1 THEN [left |-> 0] ELSE [mcp EXCEPT !.left = @ - 1]
    /\ UNCHANGED <<roles, enabled, tabs, threads, chatTurns, messages>>

(* An unknown tool, bad arguments, or the limit reached. *)
McpRefused ==
    /\ mcp.left > 0
    /\ mcp' = IF mcp.left = 1 THEN [left |-> 0] ELSE [mcp EXCEPT !.left = @ - 1]
    /\ UNCHANGED <<roles, enabled, tabs, threads, chatTurns, messages, toolCalls, approvals, posted, moves>>

-----------------------------------------------------------------------------
(* The persona is paused or enabled; a member's role ends. *)
setEnabled ==
    /\ Move /\ enabled' = ~enabled
    /\ UNCHANGED <<roles, tabs, threads, chatTurns, messages, toolCalls, approvals, posted, mcp>>

RoleEdited(u, r) ==
    /\ Move /\ roles[u] # r
    /\ roles' = [roles EXCEPT ![u] = r]
    /\ UNCHANGED <<enabled, tabs, threads, chatTurns, messages, toolCalls, approvals, posted, mcp>>

AgNext ==
    \/ \E w \in Tabs :
         \/ newChat(w) \/ toggleIncognito(w) \/ Resumed(w) \/ ResumeFails(w) \/ submit(w) \/ Streamed(w)
         \/ \E c \in DOMAIN threads : resumeThread(w, c)
    \/ \E i \in DOMAIN chatTurns :
         Refuse(i) \/ Admit(i) \/ onFinish(i) \/ (\E t \in chatTurns[i].tools : CallTool(i, t))
    \/ \E u \in TabOwners :
         (\E n \in 1..2 : McpPost(u, n)) \/ (\E r \in {"Member", "Partner", "gone"} : RoleEdited(u, r))
    \/ \E t \in PersonaTools : McpCall(t)
    \/ McpRefused \/ setEnabled

AgSpec == AgInit /\ [][AgNext]_agVars

-----------------------------------------------------------------------------
(* A turn typed while the window said incognito leaves nothing: no thread, *)
(* no message, no tool call on record, no proposal, and no write but the   *)
(* calendar pin, which asks nobody.                                        *)
NoTrace ==
    \A i \in DOMAIN chatTurns : chatTurns[i].secret =>
        /\ chatTurns[i].thread = NoConv
        /\ \A m \in DOMAIN messages : messages[m].turn # i
        /\ \A x \in toolCalls \union approvals : x.turn # i
        /\ \A x \in posted : x.turn = i => x.tool = "calendar.pin_summary"

(* A turn is kept in the conversation its window showed when it was typed, *)
(* and in a thread of its own author's, whichever resume answers late.     *)
KeptAsShown ==
    \A m \in DOMAIN messages :
        LET turn == chatTurns[messages[m].turn]
        IN  messages[m].thread = turn.shows /\ threads[messages[m].thread] = turn.by

(* Conversations are kept as the window said. *)
TurnsAsTyped == NoTrace /\ KeptAsShown

=============================================================================

------------------------------- MODULE Tools -------------------------------
(***************************************************************************)
(* The tools an agent of the web application may call (lib/ai/tools.ts):   *)
(* what each needs, which are offered to a turn, and what a call leaves    *)
(* behind.  Arguments and results are left out.                            *)
(***************************************************************************)

(* personas.ts: writes that are proposed and wait for a human. *)
HITL_TOOLS ==
    {"crm.write", "crm.create", "crm.delete", "crm.dedupe", "crm.note", "pm.write",
     "ledger.write", "memory.assert", "documents.write", "terminal.exec", "code.run",
     "crm.import", "calendar.schedule", "calendar.cancel"}

ReadTools ==
    {"crm.read", "memory.recall", "documents.read", "documents.list", "artifact.attach",
     "pm.read", "tables.list", "tables.schema", "tables.read", "tables.query",
     "calendar.read", "thread.summarize"}

RUNNER_TOOLS == {"web.search", "web.fetch", "terminal.exec", "code.run", "chart.render"}

(* Neither a read nor a proposal: they write when they are called. *)
WritesAtOnce == {"tables.map", "crm.ingest", "calendar.pin_summary"}

ALL_TOOL_NAMES == HITL_TOOLS \union ReadTools \union RUNNER_TOOLS \union WritesAtOnce

TOOL_CAPABILITY ==
    [t \in ALL_TOOL_NAMES |->
        CASE t \in HITL_TOOLS \union {"calendar.pin_summary"} -> "PostMessage"
          [] t \in {"tables.map", "crm.ingest"} -> "CreateRecord"
          [] t = "thread.summarize" -> "ReadChannel"
          [] OTHER -> "ReadWorkspace"]

(* matrix.ts, for the capabilities a tool may need. *)
RoleCaps(role) ==
    CASE role \in {"Owner", "Admin", "Member"} ->
            {"ReadChannel", "ReadWorkspace", "PostMessage", "CreateRecord"}
      [] role = "Agent" -> {"ReadChannel", "ReadWorkspace", "PostMessage"}
      [] role = "Partner" -> {"ReadChannel", "PostMessage"}
      [] role = "Guest" -> {"ReadChannel"}
      [] OTHER -> {}

isInternalRole(role) == "ReadWorkspace" \in RoleCaps(role)

CHANNEL_SCOPED_TOOLS == {"thread.summarize"}

CHANNEL_REPLY_DENY == {"web.fetch", "web.search"}

(* Both the agent and whoever it works for. *)
toolPermitted(t, agentRole, invokerRole) ==
    /\ t \in ALL_TOOL_NAMES
    /\ TOOL_CAPABILITY[t] \in RoleCaps(agentRole) \intersect RoleCaps(invokerRole)
    /\ t \in CHANNEL_SCOPED_TOOLS \/ (isInternalRole(agentRole) /\ isInternalRole(invokerRole))

(* The tools a turn is given. *)
citrateCommsTools(allow, agentRole, invokerRole, audience) ==
    {t \in allow : /\ toolPermitted(t, agentRole, invokerRole)
                   /\ audience => t \notin CHANNEL_REPLY_DENY \union HITL_TOOLS}

(* Mutant: only what a channel reply is denied. *)
IncognitoAllowWeb(allow) == allow \ CHANNEL_REPLY_DENY

(* chat/route.ts: an incognito turn is given nothing that is proposed. *)
IncognitoAllow(allow) == allow \ HITL_TOOLS

=============================================================================

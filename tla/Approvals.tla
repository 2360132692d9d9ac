----------------------------- MODULE Approvals -----------------------------
(***************************************************************************)
(* Human-in-the-loop approvals of the web application                      *)
(* (src/webapp/src/lib/domain/approvals.ts): an agent's write is queued    *)
(* and a person approves it, which executes it, or rejects it.             *)
(*                                                                         *)
(* Requests run concurrently and every database statement commits by       *)
(* itself: one action per statement.  A request may be cut off between two *)
(* statements (the function's time limit).  A payload is abstracted to     *)
(* whether its kind is high-risk; the capability its kind asks for is      *)
(* "Privileged" for high-risk kinds and held by every user otherwise.      *)
(* executeAction is one step that succeeds or fails; what it writes is     *)
(* counted, not modelled.  The audit log is the set of events appended;    *)
(* its chain is AuditChain.                                                *)
(***************************************************************************)
EXTENDS Naturals

CONSTANTS Ids,          \* approval ids
          HighRisk,     \* those whose action kind has risk "high"
          Users, Privileged,
          RequestedBy,  \* approval id -> the user on whose behalf it was queued
          Requests,     \* concurrent calls of decideApproval
          Decisions,    \* the decisions users send
          MaxCalls, MaxFailures, MaxCutOffs     \* bounds

ASSUME ApprovalsAssumption ==
    /\ HighRisk \subseteq Ids
    /\ Privileged \subseteq Users
    /\ RequestedBy \in [Ids -> Users]
    /\ Decisions \subseteq {"approved", "rejected"}

VARIABLES
    status,     \* agent_approvals.status ("absent" before the insert)
    tool,       \* agent_tool_calls.approval_status of the linked row
    audit,      \* history: events appended, as <<event, id>>
    executed,   \* history: completed executions of each action
    pc, on,     \* request -> where it is, and the approval it decides
    calls, failures, cutoffs

vars == <<status, tool, audit, executed, pc, on, calls, failures, cutoffs>>

None == "none"

Goto(r, label) == pc' = [pc EXCEPT ![r] = label] /\ on' = on

Return(r) == pc' = [pc EXCEPT ![r] = "idle"] /\ on' = [on EXCEPT ![r] = None]

Init ==
    /\ status = [a \in Ids |-> "absent"]
    /\ tool = [a \in Ids |-> "absent"]
    /\ audit = {}
    /\ executed = [a \in Ids |-> 0]
    /\ pc = [r \in Requests |-> "idle"]
    /\ on = [r \in Requests |-> None]
    /\ calls = 0 /\ failures = 0 /\ cutoffs = 0

-----------------------------------------------------------------------------
(* enqueueApproval: the transparency row, then the approval; the audit     *)
(* event of each is appended with it, since nothing reads either before    *)
(* the next statement.  logToolCall may fail, and the row of               *)
(* fallbackToolCall comes without an event.                                *)

EnqueueToolCall(a) ==
    /\ tool[a] = "absent"
    /\ tool' = [tool EXCEPT ![a] = "pending"]
    /\ audit' \in {audit \cup {<<"tool_called", a>>}, audit}
    /\ UNCHANGED <<status, executed, pc, on, calls, failures, cutoffs>>

Enqueue(a) ==
    /\ tool[a] = "pending" /\ status[a] = "absent"
    /\ status' = [status EXCEPT ![a] = "pending"]
    /\ audit' = audit \cup {<<"tool_pending_approval", a>>}
    /\ UNCHANGED <<tool, executed, pc, on, calls, failures, cutoffs>>

-----------------------------------------------------------------------------
(* decideApproval.                                                         *)

(* approvalAuthzError is null *)
MayApprove(a, u) ==
    a \in HighRisk => u \in Privileged /\ u # RequestedBy[a]

(* The SELECT, its two early returns, and for an approval the authority    *)
(* check.                                                                  *)
Decide(r, a, u, decision) ==
    /\ pc[r] = "idle"
    /\ calls < MaxCalls
    /\ status[a] = "pending"
    /\ decision = "approved" => MayApprove(a, u)
    /\ calls' = calls + 1
    /\ pc' = [pc EXCEPT ![r] = IF decision = "approved" THEN "claim" ELSE "reject"]
    /\ on' = [on EXCEPT ![r] = a]
    /\ UNCHANGED <<status, tool, audit, executed, failures, cutoffs>>

(* UPDATE ... SET status = 'rejected' WHERE id: no condition on status.    *)
Reject(r) ==
    /\ pc[r] = "reject"
    /\ status' = [status EXCEPT ![on[r]] = "rejected"]
    /\ Goto(r, "reject_tool")
    /\ UNCHANGED <<tool, audit, executed, calls, failures, cutoffs>>

RejectToolCall(r) ==
    /\ pc[r] = "reject_tool"
    /\ tool' = [tool EXCEPT ![on[r]] = "rejected"]
    /\ Goto(r, "reject_audit")
    /\ UNCHANGED <<status, audit, executed, calls, failures, cutoffs>>

RejectAudit(r) ==
    /\ pc[r] = "reject_audit"
    /\ audit' = audit \cup {<<"tool_rejected", on[r]>>}
    /\ Return(r)
    /\ UNCHANGED <<status, tool, executed, calls, failures, cutoffs>>

(* Mutant: the claim does not ask for status = 'pending'. *)
ClaimableAlways(a) == TRUE

(* WHERE status = 'pending' of the claiming UPDATE. *)
Claimable(a) == status[a] = "pending"

(* The compare-and-swap: the winner executes, a loser returns.             *)
Claim(r) ==
    /\ pc[r] = "claim"
    /\ IF Claimable(on[r])
         THEN /\ status' = [status EXCEPT ![on[r]] = "executing"]
              /\ Goto(r, "execute")
         ELSE /\ status' = status
              /\ Return(r)
    /\ UNCHANGED <<tool, audit, executed, calls, failures, cutoffs>>

Execute(r) ==
    /\ pc[r] = "execute"
    /\ executed' = [executed EXCEPT ![on[r]] = @ + 1]
    /\ Goto(r, "finish")
    /\ UNCHANGED <<status, tool, audit, calls, failures, cutoffs>>

ExecuteFails(r) ==
    /\ pc[r] = "execute"
    /\ failures < MaxFailures
    /\ failures' = failures + 1
    /\ Goto(r, "release")
    /\ UNCHANGED <<status, tool, audit, executed, calls, cutoffs>>

(* Mutant: a failed execution keeps the claim. *)
ReleasedNever(a) == status

(* WHERE status = 'executing' of the releasing UPDATE. *)
Released(a) ==
    IF status[a] = "executing" THEN [status EXCEPT ![a] = "pending"] ELSE status

Release(r) ==
    /\ pc[r] = "release"
    /\ status' = Released(on[r])
    /\ Return(r)
    /\ UNCHANGED <<tool, audit, executed, calls, failures, cutoffs>>

(* UPDATE ... SET status = 'approved' WHERE id. *)
Finish(r) ==
    /\ pc[r] = "finish"
    /\ status' = [status EXCEPT ![on[r]] = "approved"]
    /\ Goto(r, "finish_tool")
    /\ UNCHANGED <<tool, audit, executed, calls, failures, cutoffs>>

(* Mutant: the transparency row is not brought up to date. *)
ToolApprovedForgotten(a) == tool

ToolApproved(a) == [tool EXCEPT ![a] = "approved"]

(* The transparency row, and its result hash (finishToolCall). *)
FinishToolCall(r) ==
    /\ pc[r] = "finish_tool"
    /\ tool' = ToolApproved(on[r])
    /\ Goto(r, "finish_audit")
    /\ UNCHANGED <<status, audit, executed, calls, failures, cutoffs>>

FinishAudit(r) ==
    /\ pc[r] = "finish_audit"
    /\ audit' = audit \cup {<<"tool_approved", on[r]>>}
    /\ Return(r)
    /\ UNCHANGED <<status, tool, executed, calls, failures, cutoffs>>

(* The request is cut off. *)
CutOff(r) ==
    /\ pc[r] # "idle"
    /\ cutoffs < MaxCutOffs
    /\ cutoffs' = cutoffs + 1
    /\ Return(r)
    /\ UNCHANGED <<status, tool, audit, executed, calls, failures>>

(* One statement of a request. *)
Step(r) ==
    \/ Reject(r) \/ RejectToolCall(r) \/ RejectAudit(r)
    \/ Claim(r) \/ Execute(r) \/ ExecuteFails(r) \/ Release(r)
    \/ Finish(r) \/ FinishToolCall(r) \/ FinishAudit(r)

Next ==
    \/ \E a \in Ids : EnqueueToolCall(a)
    \/ \E a \in Ids : Enqueue(a)
    \/ \E r \in Requests, a \in Ids, u \in Users, d \in Decisions : Decide(r, a, u, d)
    \/ \E r \in Requests : Step(r)
    \/ \E r \in Requests : CutOff(r)

Spec == Init /\ [][Next]_vars

(* A request that is not cut off gets its next statement executed. *)
FairSpec == Spec /\ \A r \in Requests : WF_vars(Step(r))

-----------------------------------------------------------------------------
(* Properties.                                                             *)

Pcs == {"idle", "claim", "execute", "release", "finish", "finish_tool", "finish_audit",
        "reject", "reject_tool", "reject_audit"}
Events == {"tool_called", "tool_pending_approval", "tool_approved", "tool_rejected"}

(* TypeOK: rows, requests and counters keep their types.                   *)
TypeOK ==
    /\ status \in [Ids -> {"absent", "pending", "executing", "approved", "rejected"}]
    /\ tool \in [Ids -> {"absent", "pending", "approved", "rejected"}]
    /\ audit \subseteq Events \X Ids
    /\ executed \in [Ids -> Nat]
    /\ pc \in [Requests -> Pcs]
    /\ \A r \in Requests : IF pc[r] = "idle" THEN on[r] = None ELSE on[r] \in Ids
    /\ on \in [Requests -> Ids \cup {None}]
    /\ calls \in Nat /\ failures \in Nat /\ cutoffs \in Nat

(* OneExecution: however many requests decide one approval at the same     *)
(* time, approve it again after a failure, reject it meanwhile or are cut  *)
(* off, its action is completed at most once (CM2-B-B012).                 *)
OneExecution == \A a \in Ids : executed[a] <= 1

Quiet == \A r \in Requests : pc[r] = "idle"

(* RecordsAgree: when no request is running or was cut off, the approval,  *)
(* the transparency row, the audit log and what was executed tell one      *)
(* story about every approval that nobody rejected, and one whose          *)
(* execution failed can be decided again.                                  *)
RecordsAgree ==
    Quiet /\ cutoffs = 0 => \A a \in Ids : <<"tool_rejected", a>> \notin audit =>
        /\ status[a] \in {"absent", "pending", "approved"}
        /\ status[a] = "approved" <=> executed[a] = 1
        /\ status[a] = "approved" <=> tool[a] = "approved"
        /\ status[a] = "approved" <=> <<"tool_approved", a>> \in audit

(* ClaimEnds: a claimed approval becomes approved or open again, unless a  *)
(* request is cut off: nothing resets the claim it held.                   *)
ClaimEnds ==
    \A a \in Ids : (status[a] = "executing") ~> (status[a] # "executing" \/ cutoffs > 0)

-----------------------------------------------------------------------------
(* Statements of the repository that the code does not meet; the README says *)
(* how each one fails.                                                       *)

(* RejectedNeverRan: an approval that is on record as rejected has not     *)
(* been executed ("an Owner/Admin approves to apply it (or rejects)").     *)
RejectedNeverRan ==
    \A a \in Ids : <<"tool_rejected", a>> \in audit => executed[a] = 0
=============================================================================

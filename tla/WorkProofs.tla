----------------------------- MODULE WorkProofs -----------------------------
(***************************************************************************)
(* Proofs about the work people and agents do in a workspace, for every    *)
(* number of users, requests, messages and events: an approved action is   *)
(* completed at most once, however requests fail or are cut off, and where *)
(* none was cut off the records of an approval agree once no request runs  *)
(* (Approvals); a persona is configured only by one entitled to it         *)
(* (Personas); an answer in a channel fits everyone who reads it, and a    *)
(* view of a channel passes over no message (Channels); a conversation     *)
(* with an agent is kept as its window said (Agents); and nobody is        *)
(* reminded twice, while a task's deadline is on the calendar once         *)
(* (Calendar).                                                             *)
(***************************************************************************)
EXTENDS Approvals, Personas, Channels, Agents, Calendar, SequenceTheorems, FiniteSetTheorems,
        WellFoundedInduction, TLAPS

(* TypeStep: no step takes a well-typed state out of its types.            *)
LEMMA TypeStep == TypeOK /\ [Next]_vars => TypeOK'
<1> SUFFICES ASSUME TypeOK, [Next]_vars PROVE TypeOK'
  OBVIOUS
<1> USE DEF TypeOK, Goto, Return, Pcs, Events
<1>1. ASSUME NEW a \in Ids, EnqueueToolCall(a) PROVE TypeOK'
  BY <1>1 DEF EnqueueToolCall
<1>2. ASSUME NEW a \in Ids, Enqueue(a) PROVE TypeOK'
  BY <1>2 DEF Enqueue
<1>3. ASSUME NEW r \in Requests, NEW a \in Ids, NEW u \in Users, NEW d \in Decisions,
             Decide(r, a, u, d)
      PROVE TypeOK'
  BY <1>3 DEF Decide
<1>4. ASSUME NEW r \in Requests, Step(r) PROVE TypeOK'
  <2>1. CASE Reject(r)
    BY <2>1 DEF Reject
  <2>2. CASE RejectToolCall(r)
    BY <2>2 DEF RejectToolCall
  <2>3. CASE RejectAudit(r)
    BY <2>3 DEF RejectAudit
  <2>4. CASE Claim(r)
    BY <2>4 DEF Claim, Claimable
  <2>5. CASE Execute(r)
    BY <2>5 DEF Execute
  <2>6. CASE ExecuteFails(r)
    BY <2>6 DEF ExecuteFails
  <2>7. CASE Release(r)
    BY <2>7 DEF Release, Released
  <2>8. CASE Finish(r)
    BY <2>8 DEF Finish
  <2>9. CASE FinishToolCall(r)
    BY <2>9 DEF FinishToolCall, ToolApproved
  <2>10. CASE FinishAudit(r)
    BY <2>10 DEF FinishAudit
  <2> QED
    BY <1>4, <2>1, <2>2, <2>3, <2>4, <2>5, <2>6, <2>7, <2>8, <2>9, <2>10 DEF Step
<1>5. ASSUME NEW r \in Requests, CutOff(r) PROVE TypeOK'
  BY <1>5 DEF CutOff
<1>6. CASE UNCHANGED vars
  BY <1>6 DEF vars
<1> QED
  BY <1>1, <1>2, <1>3, <1>4, <1>5, <1>6 DEF Next

(* TypeCorrect: every reachable state of decideApproval and                *)
(* enqueueApproval is well typed, for all values of the constants.         *)
THEOREM TypeCorrect == Spec => []TypeOK
<1>1. Init => TypeOK
  BY DEF Init, TypeOK, Pcs
<1> QED
  BY <1>1, TypeStep, PTL DEF Spec

(* A request that holds the claim on approval a. *)
Holds(r, a) == pc[r] \in {"execute", "release"} /\ on[r] = a

(* Open: an approval that nobody has executed yet and nobody holds.        *)
Open(a) == executed[a] = 0 /\ \A r \in Requests : ~Holds(r, a)

(* Exclusive: the strengthening.  A claim has one holder, and while it is  *)
(* held the action has not been completed; an approval that a request can  *)
(* claim is neither held nor completed.                                    *)
Exclusive ==
    \A a \in Ids :
        /\ executed[a] <= 1
        /\ status[a] \in {"absent", "pending"} => Open(a)
        /\ \A r \in Requests : Holds(r, a) => executed[a] = 0
        /\ \A r, q \in Requests : Holds(r, a) /\ Holds(q, a) => q = r

(* ExclusiveStep: every statement of every request preserves Exclusive;    *)
(* only the compare-and-swap creates a holder, only Execute completes.     *)
LEMMA ExclusiveStep == TypeOK /\ Exclusive /\ [Next]_vars => Exclusive'
<1> SUFFICES ASSUME TypeOK, Exclusive, [Next]_vars,
                    NEW a \in Ids
             PROVE /\ executed'[a] <= 1
                   /\ status'[a] \in {"absent", "pending"} => Open(a)'
                   /\ \A r \in Requests : Holds(r, a)' => executed'[a] = 0
                   /\ \A r, q \in Requests : Holds(r, a)' /\ Holds(q, a)' => q = r
  BY DEF Exclusive
<1> DEFINE Goal == /\ executed'[a] <= 1
                   /\ status'[a] \in {"absent", "pending"} => Open(a)'
                   /\ \A r \in Requests : Holds(r, a)' => executed'[a] = 0
                   /\ \A r, q \in Requests : Holds(r, a)' /\ Holds(q, a)' => q = r
<1> USE DEF TypeOK, Exclusive, Holds, Open, Goto, Return, Pcs
<1>1. ASSUME NEW b \in Ids, EnqueueToolCall(b) \/ Enqueue(b) PROVE Goal
  BY <1>1 DEF EnqueueToolCall, Enqueue
<1>3. ASSUME NEW r \in Requests, NEW b \in Ids, NEW u \in Users, NEW d \in Decisions,
             Decide(r, b, u, d)
      PROVE Goal
  BY <1>3 DEF Decide
<1>4. ASSUME NEW r \in Requests, Step(r) PROVE Goal
  <2>1. CASE Reject(r) \/ RejectToolCall(r) \/ RejectAudit(r)
    BY <2>1 DEF Reject, RejectToolCall, RejectAudit
  <2>4. CASE Claim(r)
    BY <2>4 DEF Claim, Claimable
  <2>5. CASE Execute(r)
    BY <2>5 DEF Execute
  <2>6. CASE ExecuteFails(r)
    BY <2>6 DEF ExecuteFails
  <2>7. CASE Release(r)
    BY <2>7 DEF Release, Released
  <2>8. CASE Finish(r) \/ FinishToolCall(r) \/ FinishAudit(r)
    BY <2>8 DEF Finish, FinishToolCall, ToolApproved, FinishAudit
  <2> QED
    BY <1>4, <2>1, <2>4, <2>5, <2>6, <2>7, <2>8 DEF Step
<1>5. ASSUME NEW r \in Requests, CutOff(r) PROVE Goal
  BY <1>5 DEF CutOff
<1>6. CASE UNCHANGED vars
  BY <1>6 DEF vars
<1> QED
  BY <1>1, <1>3, <1>4, <1>5, <1>6 DEF Next

(* OneExecutionHolds: an approved action runs to completion at most once,  *)
(* for any number of concurrent decisions, failures and cut-offs.          *)
THEOREM OneExecutionHolds == Spec => []OneExecution
<1>1. Init => Exclusive
  <2> SUFFICES ASSUME Init PROVE Exclusive
    OBVIOUS
  <2>1. \A r \in Requests, a \in Ids : ~Holds(r, a)
    BY DEF Init, Holds
  <2>2. \A a \in Ids : executed[a] = 0
    BY DEF Init
  <2>3. ASSUME NEW a \in Ids PROVE executed[a] <= 1
    <3>1. executed[a] = 0
      BY <2>2
    <3>2. 0 <= 1
      OBVIOUS
    <3> QED
      BY <3>1, <3>2
  <2>4. \A a \in Ids : Open(a)
    BY <2>1, <2>2, Zenon DEF Open
  <2> QED
    BY <2>1, <2>3, <2>4, Zenon DEF Exclusive
<1>2. Exclusive => OneExecution
  BY DEF Exclusive, OneExecution
<1> QED
  BY <1>1, <1>2, ExclusiveStep, TypeCorrect, PTL DEF Spec

-----------------------------------------------------------------------------
(* The records of an approval, while requests run.                         *)

At(r, a, labels) == pc[r] \in labels /\ on[r] = a

(* A rejection of a is recorded or under way: without a cut-off it will be. *)
Rejecting(a) ==
    \/ <<"tool_rejected", a>> \in audit
    \/ \E r \in Requests : At(r, a, {"reject", "reject_tool", "reject_audit"})

(* The claim and what follows it, up to the last record.                   *)
Claiming == {"execute", "release", "finish"}
Working == Claiming \cup {"finish_tool", "finish_audit"}

(* Story: what each position of the request that holds the claim says of   *)
(* the records, and what the records say when no request works on them.    *)
Story(a) ==
    /\ status[a] \in {"absent", "pending", "executing", "approved"}
    /\ status[a] \in {"absent", "pending"} => executed[a] = 0
    /\ status[a] = "executing" <=> \E r \in Requests : At(r, a, Claiming)
    /\ status[a] = "approved" => executed[a] = 1
    /\ tool[a] = "approved" => status[a] = "approved"
    /\ <<"tool_approved", a>> \in audit => status[a] = "approved"
    /\ status[a] = "approved" =>
          /\ tool[a] = "approved" \/ \E r \in Requests : At(r, a, {"finish_tool"})
          /\ \/ <<"tool_approved", a>> \in audit
             \/ \E r \in Requests : At(r, a, {"finish_tool", "finish_audit"})
    /\ \A r \in Requests :
          /\ At(r, a, {"execute", "release"}) => executed[a] = 0
          /\ At(r, a, {"finish"}) => executed[a] = 1
          /\ At(r, a, {"finish_tool", "finish_audit"}) => status[a] = "approved"
          /\ At(r, a, {"finish_audit"}) => tool[a] = "approved"
    /\ \A r, q \in Requests : At(r, a, Working) /\ At(q, a, Working) => q = r

Stories == cutoffs = 0 => \A a \in Ids : Rejecting(a) \/ Story(a)

(* RejectingStays: nothing but a cut-off takes a rejection back.           *)
LEMMA RejectingStays ==
    ASSUME TypeOK, [Next]_vars, NEW a \in Ids, Rejecting(a), cutoffs' = 0
    PROVE  Rejecting(a)'
<1> USE DEF Rejecting, At, TypeOK, Goto, Return
<1>1. audit \subseteq audit'
  BY DEF Next, vars, EnqueueToolCall, Enqueue, Decide, Step, Reject, RejectToolCall,
         RejectAudit, Claim, Execute, ExecuteFails, Release, Finish, FinishToolCall,
         FinishAudit, CutOff
<1>2. CASE <<"tool_rejected", a>> \in audit
  BY <1>1, <1>2
<1>3. ASSUME NEW q \in Requests, At(q, a, {"reject", "reject_tool", "reject_audit"})
      PROVE  Rejecting(a)'
  <2>1. ASSUME NEW b \in Ids, EnqueueToolCall(b) \/ Enqueue(b) PROVE Rejecting(a)'
    BY <1>3, <2>1 DEF EnqueueToolCall, Enqueue
  <2>2. ASSUME NEW r \in Requests, NEW b \in Ids, NEW u \in Users, NEW d \in Decisions,
               Decide(r, b, u, d)
        PROVE Rejecting(a)'
    <3>1. pc'[q] = pc[q] /\ on'[q] = on[q]
      BY <1>3, <2>2 DEF Decide
    <3> QED BY <1>3, <3>1
  <2>3. ASSUME NEW r \in Requests, Step(r), r # q PROVE Rejecting(a)'
    <3>1. pc'[q] = pc[q] /\ on'[q] = on[q]
      BY <2>3 DEF Step, Reject, RejectToolCall, RejectAudit, Claim, Execute, ExecuteFails,
                  Release, Finish, FinishToolCall, FinishAudit
    <3> QED BY <1>3, <3>1
  <2>4. CASE Step(q)
    <3>1. Reject(q) \/ RejectToolCall(q) \/ RejectAudit(q)
      BY <1>3, <2>4 DEF Step, Claim, Execute, ExecuteFails, Release, Finish,
                        FinishToolCall, FinishAudit
    <3>2. CASE Reject(q) \/ RejectToolCall(q)
      <4>1. pc'[q] \in {"reject_tool", "reject_audit"} /\ on'[q] = a
        BY <1>3, <3>2 DEF Reject, RejectToolCall
      <4> QED BY <4>1
    <3>3. CASE RejectAudit(q)
      BY <1>3, <3>3 DEF RejectAudit
    <3> QED BY <3>1, <3>2, <3>3
  <2>5. ASSUME NEW r \in Requests, CutOff(r) PROVE FALSE
    BY <2>5 DEF CutOff
  <2>6. CASE UNCHANGED vars
    BY <1>3, <2>6 DEF vars
  <2> QED BY <2>1, <2>2, <2>3, <2>4, <2>5, <2>6 DEF Next
<1> QED BY <1>2, <1>3 DEF Rejecting

(* StoriesStep: every statement of every request keeps the records of an   *)
(* approval that nobody rejects in step with where its request is.         *)
LEMMA StoriesStep == TypeOK /\ Stories /\ [Next]_vars => Stories'
<1> SUFFICES ASSUME TypeOK, Stories, [Next]_vars, cutoffs' = 0, NEW a \in Ids, ~Rejecting(a)'
             PROVE  Story(a)'
  BY DEF Stories
<1>1. cutoffs = 0
  BY DEF TypeOK, Next, vars, EnqueueToolCall, Enqueue, Decide, Step, Reject, RejectToolCall,
         RejectAudit, Claim, Execute, ExecuteFails, Release, Finish, FinishToolCall,
         FinishAudit, CutOff
<1>2. ~Rejecting(a)
  BY RejectingStays
<1>3. Story(a)
  BY <1>1, <1>2 DEF Stories
<1>4. \A r \in Requests : pc[r] \in Pcs /\ (pc[r] # "idle" => on[r] \in Ids)
  BY DEF TypeOK
<1> USE DEF At, Claiming, Working, Goto, Return
<1>5. ASSUME NEW b \in Ids, EnqueueToolCall(b) \/ Enqueue(b) PROVE Story(a)'
  BY <1>3, <1>5 DEF EnqueueToolCall, Enqueue, Story, TypeOK
<1>6. ASSUME NEW r \in Requests, NEW b \in Ids, NEW u \in Users, NEW d \in Decisions,
             Decide(r, b, u, d)
      PROVE Story(a)'
  BY <1>3, <1>6 DEF Decide, Story, TypeOK
<1>7. ASSUME NEW r \in Requests, Step(r) PROVE Story(a)'
  <2>1. CASE Reject(r) \/ RejectToolCall(r) \/ RejectAudit(r)
    <3>1. on[r] # a
      BY <1>2, <2>1 DEF Rejecting, Reject, RejectToolCall, RejectAudit
    <3> QED BY <1>3, <2>1, <3>1 DEF Reject, RejectToolCall, RejectAudit, Story, TypeOK
  <2>2. CASE Claim(r)
    BY <1>3, <2>2 DEF Claim, Claimable, Story, TypeOK
  <2>3. CASE Execute(r)
    BY <1>3, <2>3 DEF Execute, Story, TypeOK
  <2>4. CASE ExecuteFails(r)
    BY <1>3, <2>4 DEF ExecuteFails, Story, TypeOK
  <2>5. CASE Release(r)
    BY <1>3, <2>5 DEF Release, Released, Story, TypeOK
  <2>6. CASE Finish(r)
    BY <1>3, <2>6 DEF Finish, Story, TypeOK
  <2>7. CASE FinishToolCall(r)
    BY <1>3, <2>7 DEF FinishToolCall, ToolApproved, Story, TypeOK
  <2>8. CASE FinishAudit(r)
    BY <1>3, <2>8 DEF FinishAudit, Story, TypeOK
  <2> QED BY <1>7, <2>1, <2>2, <2>3, <2>4, <2>5, <2>6, <2>7, <2>8 DEF Step
<1>8. ASSUME NEW r \in Requests, CutOff(r) PROVE FALSE
  BY <1>8 DEF CutOff, TypeOK
<1>9. CASE UNCHANGED vars
  BY <1>3, <1>9 DEF vars, Story
<1> QED BY <1>5, <1>6, <1>7, <1>8, <1>9 DEF Next

(* RecordsAgreeHolds: without a cut-off, the approval, the transparency    *)
(* row, the audit log and what was executed agree about every approval     *)
(* that nobody rejected whenever no request runs, whatever ran together    *)
(* before and whatever executions failed.                                  *)
THEOREM RecordsAgreeHolds == Spec => []RecordsAgree
<1>1. Init => Stories
  BY DEF Init, Stories, Story, At, Claiming, Working
<1>2. TypeOK /\ Stories => RecordsAgree
  <2> SUFFICES ASSUME Stories, Quiet, cutoffs = 0, NEW a \in Ids,
                      <<"tool_rejected", a>> \notin audit
               PROVE  /\ status[a] \in {"absent", "pending", "approved"}
                      /\ status[a] = "approved" <=> executed[a] = 1
                      /\ status[a] = "approved" <=> tool[a] = "approved"
                      /\ status[a] = "approved" <=> <<"tool_approved", a>> \in audit
    BY DEF RecordsAgree
  <2>1. \A r \in Requests : pc[r] = "idle"
    BY DEF Quiet
  <2>2. Story(a)
    BY <2>1 DEF Stories, Rejecting, At
  <2> QED BY <2>1, <2>2 DEF Story, At, Claiming, Working
<1> QED
  BY <1>1, <1>2, StoriesStep, TypeCorrect, PTL DEF Spec

-----------------------------------------------------------------------------
(* Personas.                                                               *)

Configuring == Changes \union {"add", "toggle", "drop"}

PerInv ==
    /\ personas \subseteq Templates \union Customs
    /\ reqs = [q \in Reqs |-> reqs[q]]
    /\ \A q \in Reqs : "pc" \in DOMAIN reqs[q]
    /\ \A q \in Reqs : reqs[q].pc \in Configuring => reqs[q].of \in reqs[q].may
    /\ ~overstepped

(* What canConfigurePersona lets through, the delegation promises.         *)
LEMMA AllowedEntitled ==
    ASSUME PerInv, NEW u, NEW p \in personas, canConfigurePersona(u, p)
    PROVE  p \in Entitled(u)
BY DEF PerInv, canConfigurePersona, Internal, Entitled

(* A request that is replaced by one which configures nothing, or only a   *)
(* persona its caller is entitled to.                                      *)
LEMMA RequestReplaced ==
    ASSUME PerInv, NEW q \in Reqs, NEW r,
           "pc" \in DOMAIN r, r.pc \in Configuring => r.of \in r.may,
           reqs' = [reqs EXCEPT ![q] = r],
           personas' \subseteq Templates \union Customs,
           ~overstepped'
    PROVE  PerInv'
<1>1. reqs' = [x \in Reqs |-> IF x = q THEN r ELSE reqs[x]]
  BY DEF PerInv
<1>2. \A x \in Reqs : reqs'[x] = IF x = q THEN r ELSE reqs[x]
  BY <1>1
<1>3. reqs' = [x \in Reqs |-> reqs'[x]]
  BY <1>1
<1>4. \A x \in Reqs : reqs'[x].pc \in Configuring => reqs'[x].of \in reqs'[x].may
  BY <1>2 DEF PerInv
<1>5. \A x \in Reqs : "pc" \in DOMAIN reqs'[x]
  BY <1>2 DEF PerInv
<1> QED
  BY <1>3, <1>4, <1>5, Configuring' = Configuring DEF PerInv, Configuring, Changes

(* A request that has ended.                                               *)
LEMMA RequestDone ==
    ASSUME PerInv, NEW q \in Reqs, Done(q),
           personas' \subseteq Templates \union Customs, ~overstepped'
    PROVE  PerInv'
<1>1. "pc" \in DOMAIN NoRequest /\ NoRequest.pc \notin Configuring
  BY DEF NoRequest, Configuring, Changes
<1> QED
  BY <1>1, RequestReplaced DEF Done

(* A request goes on to its next statement.                                *)
LEMMA RequestAdvances ==
    ASSUME PerInv, NEW q \in Reqs, NEW stage, stage \notin Configuring,
           reqs' = [reqs EXCEPT ![q].pc = stage],
           UNCHANGED <<personas, overstepped>>
    PROVE  PerInv'
<1> DEFINE r == [reqs[q] EXCEPT !.pc = stage]
<1>1. "pc" \in DOMAIN r /\ r.pc = stage
  BY DEF PerInv
<1>2. reqs' = [reqs EXCEPT ![q] = r]
  BY DEF PerInv
<1>3. personas' \subseteq Templates \union Customs /\ ~overstepped'
  BY DEF PerInv
<1> HIDE DEF r
<1> QED
  BY <1>1, <1>2, <1>3, RequestReplaced

(* A change of a persona stays within what its caller might do.            *)
LEMMA ChangeConfined ==
    ASSUME PerInv, NEW q \in Reqs, reqs[q].pc \in Configuring, Done(q),
           Touch(q, {reqs[q].of}) \/ UNCHANGED overstepped, UNCHANGED personas
    PROVE  PerInv'
<1>1. {reqs[q].of} \subseteq reqs[q].may
  BY DEF PerInv
<1>2. ~overstepped'
  BY <1>1 DEF PerInv, Touch
<1> QED
  BY <1>2, RequestDone DEF PerInv

(* Copies of personas.                                                     *)
LEMMA CopyStep ==
    ASSUME PerInv, NEW q \in Reqs,
           \/ \E p \in personas : clonePersona(q, p)
           \/ \E ls \in SUBSET Layers, ss \in SUBSET Skills : importPersona(q, ls, ss)
           \/ \E p \in Customs : InsertCopy(q, p)
           \/ CopyLayers(q) \/ CopySkills(q)
    PROVE  PerInv'
<1> USE DEF Configuring, Changes
<1>1. ASSUME NEW cfg, StartCopy(q, cfg) PROVE PerInv'
  <2> DEFINE r == [pc |-> "insert", cfg |-> cfg, may |-> Entitled(Owner)]
  <2>1. "pc" \in DOMAIN r /\ r.pc = "insert"
    OBVIOUS
  <2>2. reqs' = [reqs EXCEPT ![q] = r] /\ UNCHANGED <<personas, overstepped>>
    BY <1>1 DEF StartCopy
  <2> HIDE DEF r
  <2> QED
    BY <2>1, <2>2, RequestReplaced DEF PerInv
<1>2. ASSUME NEW p \in Customs, InsertCopy(q, p) PROVE PerInv'
  <2> DEFINE r == [pc |-> "layers", cfg |-> reqs[q].cfg, of |-> p, may |-> reqs[q].may \union {p}]
  <2>1. "pc" \in DOMAIN r /\ r.pc = "layers"
    OBVIOUS
  <2>2. reqs' = [reqs EXCEPT ![q] = r] /\ personas' = personas \union {p} /\ UNCHANGED overstepped
    BY <1>2 DEF InsertCopy, PerInv
  <2> HIDE DEF r
  <2> QED
    BY <2>1, <2>2, RequestReplaced DEF PerInv
<1>3. CASE CopyLayers(q)
  <2>1. CASE personaInWorkspace(reqs[q].of)
    BY <1>3, <2>1, RequestAdvances DEF CopyLayers
  <2>2. CASE ~personaInWorkspace(reqs[q].of)
    BY <1>3, <2>2, RequestDone DEF CopyLayers, PerInv
  <2> QED
    BY <2>1, <2>2
<1>4. CASE CopySkills(q)
  BY <1>4, RequestDone DEF CopySkills, PerInv
<1> QED
  BY <1>1, <1>2, <1>3, <1>4 DEF clonePersona, importPersona

(* Requests that configure one are let through and make their change.      *)
LEMMA ConfigureStep ==
    ASSUME PerInv, NEW q \in Reqs,
           \/ \E p \in personas, u \in Accounts :
                 \/ \E what \in Changes : Configure(q, u, p, what)
                 \/ \E r \in Resources, what \in {"add", "toggle", "drop"} :
                      ConfigureResource(q, u, p, r, what)
           \/ \E l \in Layers : setPromptLayer(q, l)
           \/ \E s \in Skills : setSkillEnabled(q, s)
           \/ updatePersona(q) \/ addResource(q) \/ setResourceEnabled(q) \/ deleteResource(q)
    PROVE  PerInv'
<1>1. ASSUME NEW p \in personas, NEW u, NEW what, Configure(q, u, p, what) PROVE PerInv'
  <2> DEFINE r == [pc |-> what, of |-> p, may |-> Entitled(u)]
  <2>1. "pc" \in DOMAIN r /\ r.of \in r.may
    BY <1>1, AllowedEntitled DEF Configure
  <2>2. reqs' = [reqs EXCEPT ![q] = r] /\ UNCHANGED <<personas, overstepped>>
    BY <1>1 DEF Configure
  <2> HIDE DEF r
  <2> QED
    BY <2>1, <2>2, RequestReplaced DEF PerInv
<1>2. ASSUME NEW p \in personas, NEW u, NEW res, NEW what,
             ConfigureResource(q, u, p, res, what)
      PROVE  PerInv'
  <2> DEFINE r == [pc |-> what, of |-> p, rid |-> res, may |-> Entitled(u)]
  <2>1. "pc" \in DOMAIN r /\ r.of \in r.may
    BY <1>2, AllowedEntitled DEF ConfigureResource
  <2>2. reqs' = [reqs EXCEPT ![q] = r] /\ UNCHANGED <<personas, overstepped>>
    BY <1>2 DEF ConfigureResource
  <2> HIDE DEF r
  <2> QED
    BY <2>1, <2>2, RequestReplaced DEF PerInv
<1>3. ASSUME NEW l, setPromptLayer(q, l) PROVE PerInv'
  BY <1>3, ChangeConfined DEF setPromptLayer, Configuring, Changes
<1>4. ASSUME NEW s, setSkillEnabled(q, s) PROVE PerInv'
  BY <1>4, ChangeConfined DEF setSkillEnabled, Configuring, Changes
<1>5. CASE updatePersona(q) \/ addResource(q)
  BY <1>5, ChangeConfined DEF updatePersona, addResource, Configuring, Changes
<1>6. CASE setResourceEnabled(q) \/ deleteResource(q)
  <2>1. reqs[q].pc \in Configuring /\ Done(q) /\ UNCHANGED personas
    BY <1>6 DEF setResourceEnabled, deleteResource, Configuring
  <2>2. Touch(q, {reqs[q].of}) \/ UNCHANGED overstepped
    BY <1>6 DEF setResourceEnabled, deleteResource, ResourceOf
  <2> QED
    BY <2>1, <2>2, ChangeConfined
<1> QED
  BY <1>1, <1>2, <1>3, <1>4, <1>5, <1>6

(* Deleting one, and delegating.                                           *)
LEMMA DeleteGrantStep ==
    ASSUME PerInv, NEW q \in Reqs,
           \/ \E p \in personas : deletePersona(q, p)
           \/ DeletePrompts(q) \/ DeleteSkills(q) \/ DeletePersonaRow(q)
           \/ \E u \in Accounts \ {Owner}, p \in personas \union {AllPersonas} : grantConfig(q, u, p)
           \/ \E g \in Grants : InsertGrant(q, g)
    PROVE  PerInv'
<1>1. ASSUME NEW p, deletePersona(q, p) PROVE PerInv'
  <2> DEFINE r == [pc |-> "delPrompts", of |-> p]
  <2>1. "pc" \in DOMAIN r /\ r.pc \notin Configuring
    BY DEF Configuring, Changes
  <2>2. reqs' = [reqs EXCEPT ![q] = r] /\ UNCHANGED <<personas, overstepped>>
    BY <1>1 DEF deletePersona
  <2> HIDE DEF r
  <2> QED
    BY <2>1, <2>2, RequestReplaced DEF PerInv
<1>2. ASSUME NEW u, NEW p, grantConfig(q, u, p) PROVE PerInv'
  <2> DEFINE r == [pc |-> "grant", who |-> u, of |-> p]
  <2>1. "pc" \in DOMAIN r /\ r.pc \notin Configuring
    BY DEF Configuring, Changes
  <2>2. reqs' = [reqs EXCEPT ![q] = r] /\ UNCHANGED <<personas, overstepped>>
    BY <1>2 DEF grantConfig
  <2> HIDE DEF r
  <2> QED
    BY <2>1, <2>2, RequestReplaced DEF PerInv
<1>3. CASE DeletePrompts(q) \/ DeleteSkills(q)
  <2>1. "delSkills" \notin Configuring /\ "delRow" \notin Configuring
    BY DEF Configuring, Changes
  <2> QED
    BY <1>3, <2>1, RequestAdvances DEF DeletePrompts, DeleteSkills
<1>4. CASE DeletePersonaRow(q)
  BY <1>4, RequestDone DEF DeletePersonaRow, PerInv
<1>5. ASSUME NEW g, InsertGrant(q, g) PROVE PerInv'
  BY <1>5, RequestDone DEF InsertGrant, PerInv
<1> QED
  BY <1>1, <1>2, <1>3, <1>4, <1>5

(* Every step keeps requests within what their callers might do.           *)
LEMMA PerStep == PerInv /\ [PerNext]_perVars => PerInv'
<1> SUFFICES ASSUME PerInv, [PerNext]_perVars PROVE PerInv'
  OBVIOUS
<1>1. ASSUME UNCHANGED <<reqs, overstepped>>, personas' \subseteq Templates \union Customs PROVE PerInv'
  BY <1>1 DEF PerInv, Configuring, Changes
<1>2. CASE UNCHANGED perVars
  BY <1>1, <1>2 DEF perVars, PerInv
<1>3. ASSUME NEW u \in Accounts,
             seedDefaultPersonas(u) \/ (\E r \in {"Member", "Partner", "gone"} : RoleChanges(u, r))
      PROVE  PerInv'
  BY <1>1, <1>3 DEF seedDefaultPersonas, RoleChanges, PerInv
<1>4. CASE (\E p \in personas : Talk(p)) \/ (\E g \in DOMAIN grants : revokeConfig(g))
  BY <1>1, <1>4 DEF Talk, revokeConfig, PerInv
<1> QED
  BY <1>2, <1>3, <1>4, CopyStep, ConfigureStep, DeleteGrantStep DEF PerNext

(* For any personas, members, grants and number of requests: a persona is  *)
(* changed only by one who was entitled to that persona when the request   *)
(* was authorised, whatever is revoked, demoted or deleted before it runs  *)
(* (canConfigurePersona, setResourceEnabled, deleteResource).              *)
THEOREM DelegateConfinedHolds == PerSpec => []DelegateConfined
<1>1. PerInit => PerInv
  BY DEF PerInit, PerInv, NoRequest, Configuring, Changes
<1>2. PerInv => DelegateConfined
  BY DEF PerInv, DelegateConfined
<1> QED
  BY <1>1, <1>2, PerStep, PTL DEF PerSpec

-----------------------------------------------------------------------------
(* Channels.                                                               *)

ReplyFields == {"pc", "invoker", "audience", "scope", "context", "raced", "at"}

(* An answer past its second check fits everyone seated, unless somebody   *)
(* came in since.                                                          *)
ReplyChecked ==
    \/ reply = NoReply
    \/ /\ reply.pc \in {"run", "insert"} /\ DOMAIN reply = ReplyFields
       /\ seated # {}
       /\ reply.pc = "insert" /\ ~reply.raced =>
             reply.scope = "external" \/ \A p \in seated : channelAudience[p]

(* The messages are a sequence.                                            *)
PostsList == Len(posts) \in Nat /\ posts = [i \in 1..Len(posts) |-> posts[i]]

PostsFit == PostsList /\ \A i \in 1..Len(posts) : posts[i].fit

ChanInv == ReplyChecked /\ PostsFit

(* A message is appended.                                                  *)
LEMMA AppendedPost ==
    ASSUME PostsList, NEW by, NEW seq, NEW fit, sendMessage(by, seq, fit)
    PROVE  /\ PostsList' /\ Len(posts') = Len(posts) + 1
           /\ DOMAIN posts = 1..Len(posts) /\ DOMAIN posts' = 1..Len(posts) + 1
           /\ \A i \in DOMAIN posts : posts'[i] = posts[i]
           /\ posts'[Len(posts) + 1] = [by |-> by, seq |-> seq, fit |-> fit]
<1> DEFINE m == [by |-> by, seq |-> seq, fit |-> fit]
<1>1. posts' = Append(posts, m)
  BY DEF sendMessage
<1> DEFINE S == {posts[i] : i \in 1..Len(posts)} \union {m}
<1>2. posts \in [1..Len(posts) -> S] /\ m \in S /\ Len(posts) \in Nat
  BY DEF PostsList
<1> HIDE DEF m, S
<1>3. posts \in Seq(S)
  BY <1>2, SeqDef
<1>4. /\ posts' \in Seq(S) /\ Len(posts') = Len(posts) + 1
      /\ DOMAIN posts = 1..Len(posts) /\ DOMAIN posts' = 1..Len(posts) + 1
      /\ \A i \in 1..Len(posts) : posts'[i] = posts[i]
      /\ posts'[Len(posts) + 1] = m
  BY <1>1, <1>2, <1>3, AppendProperties
<1>5. Len(posts') \in Nat /\ posts' = [i \in 1..Len(posts') |-> posts'[i]]
  BY <1>4, LenProperties
<1> QED
  BY <1>4, <1>5 DEF PostsList, m

(* What is appended is fit.                                                *)
LEMMA PostAppended ==
    ASSUME PostsFit, NEW by, NEW seq, NEW fit, fit, sendMessage(by, seq, fit)
    PROVE  PostsFit'
<1> DEFINE m == [by |-> by, seq |-> seq, fit |-> fit]
<1>1. /\ PostsList' /\ Len(posts') = Len(posts) + 1 /\ DOMAIN posts = 1..Len(posts)
      /\ \A i \in DOMAIN posts : posts'[i] = posts[i]
      /\ posts'[Len(posts) + 1] = m
  BY AppendedPost DEF PostsFit
<1>2. m.fit /\ Len(posts) \in Nat
  BY DEF PostsFit, PostsList
<1> HIDE DEF m
<1>3. \A i \in 1..Len(posts') : i \in 1..Len(posts) \/ i = Len(posts) + 1
  BY <1>1, <1>2
<1> QED
  BY <1>1, <1>2, <1>3 DEF PostsFit

(* Steps that leave the answer in the making and the audience alone.       *)
LEMMA AnswerKept ==
    ASSUME ReplyChecked, UNCHANGED <<reply, seated, standing>>
    PROVE  ReplyChecked'
BY DEF ReplyChecked, channelAudience, NoReply, ReplyFields

(* A new seat or standing marks an answer that is about to be posted.      *)
LEMMA AnswerUnsettled ==
    ASSUME ReplyChecked, Unsettled, seated \subseteq seated'
    PROVE  ReplyChecked'
<1>1. CASE reply = NoReply
  BY <1>1 DEF ReplyChecked, NoReply, Unsettled
<1>2. CASE reply # NoReply
  <2>1. /\ DOMAIN reply' = ReplyFields /\ reply'.pc = reply.pc
        /\ reply.pc = "insert" => reply'.raced
    BY <1>2 DEF ReplyChecked, ReplyFields, Unsettled
  <2> QED
    BY <1>2, <2>1 DEF ReplyChecked, ReplyFields
<1> QED
  BY <1>1, <1>2

(* Seats and standing.                                                     *)
LEMMA SeatsStep ==
    ASSUME ChanInv, NEW p \in People,
           \/ \E asked \in SUBSET People : createChannel(p, asked)
           \/ addChannelMembers(p) \/ \E s \in {"internal", "external", "gone"} : Restand(p, s)
    PROVE  ChanInv'
<1>1. UNCHANGED posts
  BY DEF createChannel, addChannelMembers, Restand
<1>2. PostsFit'
  BY <1>1 DEF ChanInv, PostsFit, PostsList
<1>3. ASSUME NEW asked, createChannel(p, asked) PROVE ReplyChecked'
  BY <1>3 DEF createChannel, ChanInv, ReplyChecked, NoReply
<1>4. ASSUME addChannelMembers(p) \/ \E s : Restand(p, s) PROVE ReplyChecked'
  <2>1. Unsettled /\ seated \subseteq seated'
    BY <1>4 DEF addChannelMembers, Restand
  <2> QED
    BY <2>1, AnswerUnsettled DEF ChanInv
<1> QED
  BY <1>2, <1>3, <1>4 DEF ChanInv

(* What a person does on the page.                                         *)
LEMMA PersonStep ==
    ASSUME ChanInv, NEW p \in People,
           \/ ChannelPage(p) \/ Leave(p) \/ Poll(p)
           \/ \E list \in views[p].answers : Polled(p, list) \/ Lost(p, list)
           \/ send(p) \/ SendStored(p) \/ Sent(p) \/ SendFails(p)
           \/ \E i \in DOMAIN posts : togglePin(p, i) \/ submitWitness(p, i)
           \/ \E e \in DOMAIN ledger : resolveLedgerEntry(p, e)
    PROVE  ChanInv'
<1>1. UNCHANGED <<reply, seated, standing>>
  BY DEF ChannelPage, Leave, Poll, Polled, Lost, send, SendStored, Sent, SendFails,
         togglePin, submitWitness, resolveLedgerEntry
<1>2. UNCHANGED posts \/ \E seq : sendMessage(p, seq, TRUE)
  BY DEF ChannelPage, Leave, Poll, Polled, Lost, send, SendStored, Sent, SendFails,
         togglePin, submitWitness, resolveLedgerEntry
<1>3. PostsFit'
  <2>1. CASE UNCHANGED posts
    BY <2>1 DEF ChanInv, PostsFit, PostsList
  <2>2. CASE \E seq : sendMessage(p, seq, TRUE)
    BY <2>2, PostAppended DEF ChanInv
  <2> QED
    BY <1>2, <2>1, <2>2
<1> QED
  BY <1>1, <1>3, AnswerKept DEF ChanInv

(* An agent is called, checks again and posts.                             *)
LEMMA AgentStep ==
    ASSUME ChanInv,
           \/ \E p \in People : pingMentionedAgents(p)
           \/ ReplyGenerated \/ ReplyFails \/ respondInChannelAsAgent
    PROVE  ChanInv'
<1>1. ASSUME NEW p, pingMentionedAgents(p) PROVE ChanInv'
  <2>1. /\ reply' = [pc |-> "run", invoker |-> standing[p], audience |-> channelAudience,
                     scope |-> agentReplyScope(standing[p]),
                     context |-> listMessages(0, ContextTurns), raced |-> FALSE, at |-> 0]
        /\ p \in seated /\ UNCHANGED <<seated, posts>>
    BY <1>1 DEF pingMentionedAgents, requireChannel
  <2>2. reply'.pc = "run" /\ DOMAIN reply' = ReplyFields
    BY <2>1 DEF ReplyFields
  <2> QED
    BY <2>1, <2>2 DEF ChanInv, ReplyChecked, PostsFit, PostsList, ReplyFields
<1>2. CASE ReplyGenerated
  <2>1. reply.pc = "run" /\ reply # NoReply /\ UNCHANGED <<seated, standing, posts>>
    BY <1>2 DEF ReplyGenerated, NoReply
  <2>2. CASE ~replyScopeStillValid
    BY <1>2, <2>1, <2>2 DEF ReplyGenerated, ChanInv, ReplyChecked, PostsFit, PostsList, NoReply
  <2>3. CASE replyScopeStillValid
    <3>1. /\ DOMAIN reply' = ReplyFields /\ reply'.pc = "insert" /\ reply'.scope = reply.scope
      BY <1>2, <2>1, <2>3 DEF ReplyGenerated, ChanInv, ReplyChecked, ReplyFields
    <3>2. reply.scope = "external" \/ \A p \in seated : channelAudience[p]
      BY <2>3 DEF replyScopeStillValid, agentReplyScope
    <3>3. channelAudience' = channelAudience
      BY <2>1 DEF channelAudience
    <3> QED
      BY <2>1, <3>1, <3>2, <3>3 DEF ChanInv, ReplyChecked, PostsFit, PostsList, ReplyFields
  <2> QED
    BY <2>2, <2>3
<1>3. CASE ReplyFails
  BY <1>3 DEF ReplyFails, ChanInv, ReplyChecked, PostsFit, PostsList, NoReply
<1>4. CASE respondInChannelAsAgent
  <2> DEFINE fit == reply.raced \/ reply.scope = "external" \/ \A p \in seated : channelAudience[p]
  <2>1. fit
    BY <1>4 DEF respondInChannelAsAgent, ChanInv, ReplyChecked, NoReply
  <2>2. sendMessage(Agent, reply.at, fit)
    BY <1>4 DEF respondInChannelAsAgent
  <2> HIDE DEF fit
  <2>3. PostsFit'
    BY <2>1, <2>2, PostAppended DEF ChanInv
  <2>4. ReplyChecked'
    BY <1>4 DEF respondInChannelAsAgent, ReplyChecked, NoReply
  <2> QED
    BY <2>3, <2>4 DEF ChanInv
<1> QED
  BY <1>1, <1>2, <1>3, <1>4

(* Every step keeps the answers fit for their readers.                     *)
LEMMA ChanStep == ChanInv /\ [ChanNext]_chanVars => ChanInv'
<1> SUFFICES ASSUME ChanInv, [ChanNext]_chanVars PROVE ChanInv'
  OBVIOUS
<1>1. CASE UNCHANGED chanVars
  BY <1>1, AnswerKept DEF chanVars, ChanInv, PostsFit, PostsList
<1> QED
  BY <1>1, SeatsStep, PersonStep, AgentStep DEF ChanNext

LEMMA ChanInvInit == ChanInit => ChanInv
  BY DEF ChanInit, ChanInv, ReplyChecked, PostsFit, PostsList

(* For any people, pages and number of messages: what an agent wrote with  *)
(* the workspace at hand is posted only where everyone seated may read the *)
(* workspace, unless seats or standing change between its last check and   *)
(* the insert (agentReplyScope, replyScopeStillValid).                     *)
THEOREM ReplyFitsAudienceHolds == ChanSpec => []ReplyFitsAudience
<1>1. ChanInv => ReplyFitsAudience
  BY DEF ChanInv, PostsFit, ReplyFitsAudience
<1> QED
  BY <1>1, ChanInvInit, ChanStep, PTL DEF ChanSpec

-----------------------------------------------------------------------------
(* Numbers of messages, for a list q of them.                              *)

Taken(q, n) == \E j \in DOMAIN q : q[j].seq = n

(* Another message has the same number.                                    *)
Double(q, i) == \E j \in DOMAIN q : j # i /\ q[j].seq = q[i].seq

(* Numbers leave no gap, and are not more than there are messages.         *)
Numbered(q) ==
    \A i \in DOMAIN q : q[i].seq \in 1..Len(q) /\ \A n \in 1..q[i].seq : Taken(q, n)

(* The number an insert has read: all before it are taken.                 *)
Reserved(q, n) == n \in 1..Len(q) + 1 /\ \A k \in 1..n - 1 : Taken(q, k)

Reached(q, n) == n = 0 \/ Taken(q, n)

(* What is not in S has a number above n, or one that is not its own.      *)
Complete(q, S, n) == \A i \in DOMAIN q : q[i].seq <= n /\ i \notin S => Double(q, i)

(* A finite set of numbers has a greatest one.                             *)
LEMMA Greatest ==
    ASSUME NEW N \in Nat, NEW S \in SUBSET (0..N), S # {}
    PROVE  Max(S) \in S /\ \A x \in S : x <= Max(S)
<1> DEFINE T == {N - x : x \in S}
           Below == OpToRel(<, Nat)
<1>1. IsWellFoundedOn(Below, Nat)
  BY NatLessThanWellFounded
<1>2. \A x, y \in Nat : y < x => <<y, x>> \in Below
  BY DEF OpToRel
<1>3. T \in SUBSET Nat /\ T # {}
  OBVIOUS
<1> HIDE DEF Below, T
<1>4. PICK t \in T : \A y \in T : <<y, t>> \notin Below
  BY <1>1, <1>3, WFMin
<1>5. \A y \in T : t <= y
  <2>1. \A y \in T : ~(y < t) /\ y \in Nat /\ t \in Nat
    BY <1>2, <1>3, <1>4
  <2> QED BY <2>1
<1>6. PICK x \in S : t = N - x
  BY <1>4 DEF T
<1>7. \A y \in S : x >= y
  <2> SUFFICES ASSUME NEW y \in S PROVE x >= y
    OBVIOUS
  <2>1. t <= N - y
    BY <1>5 DEF T
  <2> QED BY <1>6, <2>1
<1>8. \E z \in S : \A y \in S : z >= y
  BY <1>7
<1>9. Max(S) \in S /\ \A y \in S : Max(S) >= y
  BY <1>8 DEF Max
<1> QED BY <1>9

(* The number of the last of some messages is that of one of them.         *)
Top(q, list) == Max({q[i].seq : i \in list})

LEMMA TopOf ==
    ASSUME NEW q, Len(q) \in Nat, Numbered(q), NEW list \in SUBSET DOMAIN q, list # {}
    PROVE  \E i \in list : Top(q, list) = q[i].seq /\ \A j \in list : q[j].seq <= q[i].seq
<1> DEFINE S == {q[i].seq : i \in list}
<1>1. S \in SUBSET (0..Len(q)) /\ S # {}
  BY DEF Numbered
<1>2. \A i \in list : q[i].seq \in S
  OBVIOUS
<1>3. \A x \in S : \E i \in list : x = q[i].seq
  OBVIOUS
<1>4. Top(q, list) = Max(S)
  BY DEF Top
<1> HIDE DEF S
<1>5. Max(S) \in S /\ \A x \in S : x <= Max(S)
  BY <1>1, Greatest
<1> QED BY <1>2, <1>3, <1>4, <1>5

(* A page is the beginning of what comes after.                            *)
LEMMA PageFacts ==
    ASSUME PostsList, Numbered(posts), NEW after \in Nat, NEW list, list = listMessages(after, PageSize)
    PROVE  /\ list \subseteq DOMAIN posts
           /\ \A i \in list : posts[i].seq > after
           /\ \A i \in list, j \in DOMAIN posts : after < posts[j].seq /\ posts[j].seq < posts[i].seq => j \in list
<1> DEFINE L == MessagesAfter(after)
           B(i) == {j \in L : BySeq(j, i)}
<1>1. list = {i \in L : Cardinality(B(i)) < PageSize} /\ L \subseteq DOMAIN posts /\ \A i \in L : posts[i].seq > after
  BY DEF listMessages, MessagesAfter
<1>2. DOMAIN posts = 1..Len(posts) /\ Len(posts) \in Nat /\ \A i \in DOMAIN posts : posts[i].seq \in Nat
  BY DEF PostsList, Numbered
<1>3. IsFiniteSet(L)
  <2>1. IsFiniteSet(1..Len(posts))
    BY <1>2, FS_Interval
  <2> QED BY <1>1, <1>2, <2>1, FS_Subset
<1>4. ASSUME NEW i \in list, NEW j \in DOMAIN posts, after < posts[j].seq, posts[j].seq < posts[i].seq
      PROVE  j \in list
  <2>1. j \in L /\ i \in L
    BY <1>1, <1>4 DEF MessagesAfter
  <2>2. B(j) \subseteq B(i)
    <3> SUFFICES ASSUME NEW k \in L, BySeq(k, j) PROVE BySeq(k, i)
      OBVIOUS
    <3> QED BY <1>1, <1>2, <1>4, <2>1 DEF BySeq
  <2>3. IsFiniteSet(B(i)) /\ IsFiniteSet(B(j))
    BY <1>3, FS_Subset
  <2>4. Cardinality(B(i)) < PageSize
    BY <1>1
  <2> HIDE DEF B
  <2>5. Cardinality(B(j)) <= Cardinality(B(i)) /\ Cardinality(B(i)) \in Nat /\ Cardinality(B(j)) \in Nat
    BY <2>2, <2>3, FS_Subset, FS_CardinalityType
  <2>6. Cardinality(B(j)) < PageSize
    BY <2>4, <2>5, PageAssumption
  <2> QED BY <1>1, <2>1, <2>6 DEF B
<1> QED BY <1>1, <1>4

(* What was shown up to "after", with the page behind it.                  *)
LEMMA PageComplete ==
    ASSUME PostsList, Numbered(posts), NEW after \in Nat, NEW list, list = listMessages(after, PageSize), list # {},
           NEW S, Complete(posts, S, after)
    PROVE  Complete(posts, S \union list, Top(posts, list)) /\ Taken(posts, Top(posts, list))
<1>1. /\ list \subseteq DOMAIN posts
      /\ \A i \in list, j \in DOMAIN posts : after < posts[j].seq /\ posts[j].seq < posts[i].seq => j \in list
  BY PageFacts
<1>2. PICK t \in list : Top(posts, list) = posts[t].seq
  BY <1>1, TopOf DEF PostsList
<1>3. \A i \in DOMAIN posts : posts[i].seq \in Nat
  BY DEF PostsList, Numbered
<1>4. ASSUME NEW i \in DOMAIN posts, posts[i].seq <= Top(posts, list), i \notin S, i \notin list
      PROVE  Double(posts, i)
  <2>1. CASE posts[i].seq <= after
    BY <1>4, <2>1 DEF Complete
  <2>2. CASE ~(posts[i].seq <= after)
    <3>1. ~(posts[i].seq < posts[t].seq)
      BY <1>1, <1>3, <1>4, <2>2
    <3>2. posts[i].seq = posts[t].seq /\ t \in DOMAIN posts /\ t # i
      BY <1>1, <1>2, <1>3, <1>4, <3>1
    <3> QED BY <3>2 DEF Double
  <2> QED BY <2>1, <2>2
<1> QED BY <1>1, <1>2, <1>4 DEF Complete, Taken

(* A message takes the number its insert had read.                         *)
LEMMA NumberTaken ==
    ASSUME PostsList, Numbered(posts), NEW by, NEW seq, NEW fit, Reserved(posts, seq), sendMessage(by, seq, fit)
    PROVE  /\ Numbered(posts')
           /\ \A n \in Int : Reserved(posts, n) => Reserved(posts', n)
           /\ \A n : Reached(posts, n) => Reached(posts', n)
           /\ \A S, n : n \in Nat /\ Reached(posts, n) /\ Complete(posts, S, n) => Complete(posts', S, n)
           /\ \A a \in SUBSET DOMAIN posts : Top(posts', a) = Top(posts, a)
<1>1. /\ PostsList' /\ Len(posts') = Len(posts) + 1 /\ Len(posts) \in Nat
      /\ DOMAIN posts = 1..Len(posts) /\ DOMAIN posts' = 1..Len(posts) + 1
      /\ \A i \in DOMAIN posts : i \in DOMAIN posts' /\ posts'[i] = posts[i]
      /\ posts'[Len(posts) + 1].seq = seq
  <2> DEFINE m == [by |-> by, seq |-> seq, fit |-> fit]
  <2>1. /\ PostsList' /\ Len(posts') = Len(posts) + 1
        /\ DOMAIN posts = 1..Len(posts) /\ DOMAIN posts' = 1..Len(posts) + 1
        /\ \A i \in DOMAIN posts : posts'[i] = posts[i]
        /\ posts'[Len(posts) + 1] = m
    BY AppendedPost
  <2>2. m.seq = seq
    OBVIOUS
  <2> HIDE DEF m
  <2>3. Len(posts) \in Nat
    BY DEF PostsList
  <2> QED BY <2>1, <2>2, <2>3
<1>2. \A n : Taken(posts, n) => Taken(posts', n)
  BY <1>1 DEF Taken
<1>3. seq \in 1..Len(posts) + 1 /\ \A k \in 1..seq - 1 : Taken(posts, k)
  BY DEF Reserved
<1>4. Taken(posts', seq)
  BY <1>1 DEF Taken
<1>5. \A i \in DOMAIN posts' : i \in DOMAIN posts \/ i = Len(posts) + 1
  BY <1>1
<1>6. Numbered(posts')
  <2> SUFFICES ASSUME NEW i \in DOMAIN posts'
               PROVE  posts'[i].seq \in 1..Len(posts') /\ \A n \in 1..posts'[i].seq : Taken(posts', n)
    BY DEF Numbered
  <2>1. CASE i \in DOMAIN posts
    <3>1. posts[i].seq \in 1..Len(posts) /\ \A n \in 1..posts[i].seq : Taken(posts, n)
      BY <2>1 DEF Numbered
    <3> QED BY <1>1, <1>2, <2>1, <3>1
  <2>2. CASE i = Len(posts) + 1
    <3>1. \A n \in 1..seq : n \in 1..seq - 1 \/ n = seq
      BY <1>3
    <3> QED BY <1>1, <1>2, <1>3, <1>4, <2>2, <3>1
  <2> QED BY <1>5, <2>1, <2>2
<1>7. \A n \in Int : Reserved(posts, n) => Reserved(posts', n)
  BY <1>1, <1>2 DEF Reserved
<1>8. \A n : Reached(posts, n) => Reached(posts', n)
  BY <1>2 DEF Reached
<1>9. ASSUME NEW S, NEW n \in Nat, Reached(posts, n), Complete(posts, S, n),
             NEW i \in DOMAIN posts', posts'[i].seq <= n, i \notin S
      PROVE  Double(posts', i)
  <2>1. CASE i \in DOMAIN posts
    <3>1. Double(posts, i)
      BY <1>1, <1>9, <2>1 DEF Complete
    <3>2. PICK j \in DOMAIN posts : j # i /\ posts[j].seq = posts[i].seq
      BY <3>1 DEF Double
    <3>3. j \in DOMAIN posts' /\ posts'[j].seq = posts'[i].seq
      BY <1>1, <2>1, <3>2
    <3> QED BY <3>2, <3>3 DEF Double
  <2>2. CASE i = Len(posts) + 1
    <3>1. seq <= n /\ n # 0 /\ seq \in 1..n
      BY <1>1, <1>3, <1>9, <2>2
    <3>2. PICK k \in DOMAIN posts : posts[k].seq = n
      BY <1>9, <3>1 DEF Reached, Taken
    <3>3. Taken(posts, seq)
      BY <3>1, <3>2 DEF Numbered
    <3>4. PICK j \in DOMAIN posts : posts[j].seq = seq
      BY <3>3 DEF Taken
    <3>5. j \in DOMAIN posts' /\ j # i /\ posts'[j].seq = posts'[i].seq
      BY <1>1, <2>2, <3>4
    <3> QED BY <3>5 DEF Double
  <2> QED BY <1>5, <2>1, <2>2
<1>10. ASSUME NEW a \in SUBSET DOMAIN posts PROVE Top(posts', a) = Top(posts, a)
  <2>1. {posts'[i].seq : i \in a} = {posts[i].seq : i \in a}
    BY <1>1
  <2> QED BY <2>1 DEF Top
<1> QED BY <1>6, <1>7, <1>8, <1>9, <1>10 DEF Complete

(* The next number, read and not yet taken.                                *)
LEMMA NextReserved ==
    ASSUME PostsList, Numbered(posts)
    PROVE  Reserved(posts, nextSeq)
<1> DEFINE S == {0} \union {posts[i].seq : i \in DOMAIN posts}
<1>1. S \in SUBSET (0..Len(posts)) /\ S # {} /\ Len(posts) \in Nat
  BY DEF PostsList, Numbered
<1>2. \A x \in S : x = 0 \/ \E i \in DOMAIN posts : x = posts[i].seq
  OBVIOUS
<1>3. nextSeq = 1 + Max(S)
  BY DEF nextSeq
<1> HIDE DEF S
<1>4. Max(S) \in S
  BY <1>1, Greatest
<1> DEFINE m == Max(S)
<1>5. m \in 0..Len(posts) /\ (m = 0 \/ \E i \in DOMAIN posts : m = posts[i].seq)
  BY <1>1, <1>2, <1>4
<1> HIDE DEF m
<1>6. \A k \in 1..m : Taken(posts, k)
  BY <1>5 DEF Numbered
<1>7. nextSeq = 1 + m /\ nextSeq \in 1..Len(posts) + 1 /\ nextSeq - 1 = m
  BY <1>1, <1>3, <1>5 DEF m
<1> QED BY <1>6, <1>7 DEF Reserved

-----------------------------------------------------------------------------
(* Views of a channel.                                                     *)

View == [open : BOOLEAN, shown : SUBSET Nat, last : Nat, answers : SUBSET SUBSET Nat,
         send : {"idle", "insert", "answer"}, at : Nat, jumped : BOOLEAN]

(* What a view shows is complete up to its cursor, and will be when an     *)
(* answer on its way moves the cursor.                                     *)
ViewOk(q, v) ==
    /\ ~v.open => v = NoView
    /\ v.send = "insert" => Reserved(q, v.at)
    /\ v.send = "answer" => v.at \in DOMAIN q
    /\ Reached(q, v.last)
    /\ \A a \in v.answers : a # {} /\ a \subseteq DOMAIN q
    /\ v.open /\ ~v.jumped =>
          /\ Complete(q, v.shown, v.last)
          /\ \A a \in v.answers : Complete(q, v.shown \union a, Top(q, a))

PageInv ==
    /\ PostsList /\ Numbered(posts)
    /\ reply.pc = "insert" => Reserved(posts, reply.at)
    /\ views \in [People -> View]
    /\ \A p \in People : ViewOk(posts, views[p])

LEMMA PageInit == ChanInit => PageInv
<1> SUFFICES ASSUME ChanInit PROVE PageInv
  OBVIOUS
<1>1. posts = <<>> /\ reply.pc = "idle" /\ views = [p \in People |-> NoView]
  BY DEF ChanInit, NoReply
<1>2. PostsList /\ Numbered(posts)
  BY <1>1 DEF PostsList, Numbered
<1>3. NoView \in View
  BY DEF NoView, View
<1>4. ViewOk(posts, NoView)
  BY DEF ViewOk, NoView, Reached
<1> QED BY <1>1, <1>2, <1>3, <1>4 DEF PageInv

(* One view changes.                                                       *)
LEMMA ViewChanged ==
    ASSUME PageInv, NEW p \in People, NEW v \in View, views' = [views EXCEPT ![p] = v],
           UNCHANGED <<posts, reply>>, ViewOk(posts, v)
    PROVE  PageInv'
<1>1. views' \in [People -> View] /\ \A q \in People : views'[q] = IF q = p THEN v ELSE views[q]
  BY DEF PageInv
<1>2. PostsList'
  BY DEF PageInv, PostsList
<1> QED BY <1>1, <1>2 DEF PageInv

(* A message is inserted.                                                  *)
LEMMA ViewsKept ==
    ASSUME PageInv, NEW by, NEW seq, NEW fit, Reserved(posts, seq), sendMessage(by, seq, fit)
    PROVE  /\ PostsList' /\ Numbered(posts')
           /\ \A v \in View : ViewOk(posts, v) => ViewOk(posts', v)
           /\ \A n \in Int : Reserved(posts, n) => Reserved(posts', n)
<1>1. PostsList /\ Numbered(posts)
  BY DEF PageInv
<1>2. /\ PostsList' /\ DOMAIN posts \subseteq DOMAIN posts'
  <2>1. /\ PostsList' /\ Len(posts) \in Nat /\ DOMAIN posts = 1..Len(posts) /\ DOMAIN posts' = 1..Len(posts) + 1
    BY <1>1, AppendedPost DEF PostsList
  <2> QED BY <2>1
<1>3. /\ Numbered(posts')
      /\ \A n \in Int : Reserved(posts, n) => Reserved(posts', n)
      /\ \A n : Reached(posts, n) => Reached(posts', n)
      /\ \A S, n : n \in Nat /\ Reached(posts, n) /\ Complete(posts, S, n) => Complete(posts', S, n)
      /\ \A a \in SUBSET DOMAIN posts : Top(posts', a) = Top(posts, a)
  BY <1>1, NumberTaken
<1>4. ASSUME NEW v \in View, ViewOk(posts, v) PROVE ViewOk(posts', v)
  <2>1. v.last \in Nat /\ v.at \in Int
    BY DEF View
  <2>2. ASSUME NEW a \in v.answers, v.open, ~v.jumped
        PROVE  Complete(posts', v.shown \union a, Top(posts', a))
    <3>1. a # {} /\ a \in SUBSET DOMAIN posts /\ Complete(posts, v.shown \union a, Top(posts, a))
      BY <1>4, <2>2 DEF ViewOk
    <3>2. PICK i \in a : Top(posts, a) = posts[i].seq
      BY <1>1, <3>1, TopOf DEF PostsList
    <3>3. Top(posts, a) \in Nat /\ Reached(posts, Top(posts, a))
      BY <1>1, <3>1, <3>2 DEF Numbered, Reached, Taken, PostsList
    <3> QED BY <1>3, <3>1, <3>3
  <2> QED BY <1>2, <1>3, <1>4, <2>1, <2>2 DEF ViewOk
<1> QED BY <1>2, <1>3, <1>4

(* What stays of the view of one who is there.                             *)
LEMMA ViewParts ==
    ASSUME PageInv, NEW p \in People
    PROVE  /\ views[p] \in View /\ ViewOk(posts, views[p]) /\ Numbered(posts) /\ PostsList
           /\ views[p].open \in BOOLEAN /\ views[p].shown \in SUBSET Nat /\ views[p].last \in Nat
           /\ views[p].answers \in SUBSET SUBSET Nat /\ views[p].send \in {"idle", "insert", "answer"}
           /\ views[p].at \in Nat /\ views[p].jumped \in BOOLEAN
           /\ DOMAIN posts = 1..Len(posts) /\ Len(posts) \in Nat
           /\ \A i \in DOMAIN posts : posts[i].seq \in Nat \ {0}
<1>1. views[p] \in View /\ ViewOk(posts, views[p]) /\ Numbered(posts) /\ PostsList
  BY DEF PageInv
<1> QED BY <1>1 DEF View, PostsList, Numbered

LEMMA PageOpened ==
    ASSUME PageInv, NEW p \in People, ChannelPage(p)
    PROVE  PageInv'
<1> DEFINE list == listMessages(0, PageSize)
           old == views[p]
           v == [old EXCEPT !.open = TRUE, !.shown = list, !.last = LastSeq(list, 0)]
<1>1. views' = [views EXCEPT ![p] = v] /\ UNCHANGED <<posts, reply>> /\ ~old.open
  BY ViewParts DEF ChannelPage, PageInv, View
<1>2. old = NoView
  BY <1>1, ViewParts DEF ViewOk
<1>3. /\ Numbered(posts) /\ PostsList /\ DOMAIN posts = 1..Len(posts) /\ Len(posts) \in Nat
      /\ \A i \in DOMAIN posts : posts[i].seq \in Nat \ {0}
  BY ViewParts
<1>4. list \subseteq DOMAIN posts
  BY <1>3, PageFacts
<1>5. LastSeq(list, 0) = IF list = {} THEN 0 ELSE Top(posts, list)
  BY DEF LastSeq, Top
<1>6. Complete(posts, {}, 0)
  BY <1>3 DEF Complete
<1> HIDE DEF list
<1>7. list # {} => Complete(posts, {} \union list, Top(posts, list)) /\ Taken(posts, Top(posts, list))
  BY <1>3, <1>6, PageComplete DEF list
<1> DEFINE last == LastSeq(list, 0)
<1>8. last \in Nat /\ Reached(posts, last) /\ Complete(posts, list, last)
  <2>1. CASE list = {}
    BY <1>5, <1>6, <2>1 DEF Reached
  <2>2. CASE list # {}
    <3>1. last = Top(posts, list) /\ Taken(posts, last) /\ Complete(posts, list, last)
      BY <1>5, <1>7, <2>2
    <3> HIDE DEF last
    <3> QED BY <1>3, <3>1 DEF Reached, Taken
  <2> QED BY <2>1, <2>2
<1>9. v = [open |-> TRUE, shown |-> list, last |-> last, answers |-> {}, send |-> "idle", at |-> 0, jumped |-> FALSE]
  <2>1. v = [NoView EXCEPT !.open = TRUE, !.shown = list, !.last = last]
    BY <1>2
  <2> HIDE DEF v, last
  <2> QED BY <2>1 DEF NoView
<1> HIDE DEF v, last
<1>10. list \in SUBSET Nat
  BY <1>3, <1>4
<1>11. v \in View /\ ViewOk(posts, v)
  BY <1>8, <1>9, <1>10 DEF View, ViewOk
<1> QED BY <1>1, <1>11, ViewChanged

LEMMA ViewLeft ==
    ASSUME PageInv, NEW p \in People, Leave(p)
    PROVE  PageInv'
<1>1. NoView \in View /\ ViewOk(posts, NoView)
  BY DEF NoView, View, ViewOk, Reached
<1>2. views' = [views EXCEPT ![p] = NoView] /\ UNCHANGED <<posts, reply>>
  BY DEF Leave
<1> QED BY <1>1, <1>2, ViewChanged

LEMMA ViewPolls ==
    ASSUME PageInv, NEW p \in People, Poll(p)
    PROVE  PageInv'
<1> DEFINE old == views[p]
           list == listMessages(old.last, PageSize)
           v == [old EXCEPT !.answers = old.answers \union {list}]
<1>1. views' = [views EXCEPT ![p] = v] /\ UNCHANGED <<posts, reply>> /\ old.open /\ list # {}
  BY ViewParts DEF Poll
<1>2. /\ old \in View /\ ViewOk(posts, old) /\ Numbered(posts) /\ PostsList /\ DOMAIN posts = 1..Len(posts)
      /\ Len(posts) \in Nat /\ old.last \in Nat /\ old.answers \in SUBSET SUBSET Nat
  BY ViewParts
<1>3. list \subseteq DOMAIN posts
  BY <1>2, PageFacts
<1> HIDE DEF list, old
<1>4. Complete(posts, old.shown, old.last) => Complete(posts, old.shown \union list, Top(posts, list))
  BY <1>1, <1>2, PageComplete DEF list
<1>5. list \in SUBSET Nat
  BY <1>2, <1>3
<1>6. v \in View
  BY <1>2, <1>5 DEF View
<1>7. /\ v.open = old.open /\ v.shown = old.shown /\ v.last = old.last /\ v.send = old.send /\ v.at = old.at
      /\ v.jumped = old.jumped /\ v.answers = old.answers \union {list}
  BY <1>2 DEF View
<1> HIDE DEF v
<1>8. ViewOk(posts, v)
  BY <1>1, <1>2, <1>3, <1>4, <1>7 DEF ViewOk
<1> QED BY <1>1, <1>6, <1>8, ViewChanged DEF old

LEMMA ViewPolled ==
    ASSUME PageInv, NEW p \in People, NEW list \in views[p].answers, Polled(p, list)
    PROVE  PageInv'
<1> DEFINE old == views[p]
           last == LastSeq(list, old.last)
           v == [old EXCEPT !.answers = old.answers \ {list}, !.shown = old.shown \union list, !.last = last]
<1>1. views' = [views EXCEPT ![p] = v] /\ UNCHANGED <<posts, reply>>
  BY ViewParts DEF Polled
<1>2. /\ old \in View /\ ViewOk(posts, old) /\ Numbered(posts) /\ PostsList /\ DOMAIN posts = 1..Len(posts)
      /\ Len(posts) \in Nat /\ old.answers \in SUBSET SUBSET Nat /\ old.shown \in SUBSET Nat
  BY ViewParts
<1>3. list \subseteq DOMAIN posts /\ list # {} /\ old.open
  BY <1>2 DEF ViewOk, NoView
<1>4. last = Top(posts, list)
  BY <1>3 DEF LastSeq, Top
<1>5. PICK i \in list : Top(posts, list) = posts[i].seq
  BY <1>2, <1>3, TopOf
<1>6. last \in Nat /\ Reached(posts, last)
  BY <1>2, <1>3, <1>4, <1>5 DEF Numbered, Reached, Taken
<1> HIDE DEF last, old
<1>7. list \in SUBSET Nat
  BY <1>2, <1>3
<1>8. v \in View
  BY <1>2, <1>6, <1>7 DEF View
<1>9. /\ v.open = old.open /\ v.shown = old.shown \union list /\ v.last = last /\ v.send = old.send /\ v.at = old.at
      /\ v.jumped = old.jumped /\ v.answers = old.answers \ {list}
  BY <1>2 DEF View
<1> HIDE DEF v
<1>10. ASSUME ~old.jumped
       PROVE  /\ Complete(posts, v.shown, v.last)
              /\ \A a \in v.answers : Complete(posts, v.shown \union a, Top(posts, a))
  <2>1. Complete(posts, old.shown \union list, last)
    BY <1>2, <1>3, <1>4, <1>10 DEF ViewOk, old
  <2>2. \A a \in old.answers : Complete(posts, old.shown \union a, Top(posts, a))
    BY <1>2, <1>3, <1>10 DEF ViewOk
  <2> QED BY <1>9, <2>1, <2>2 DEF Complete
<1>11. ViewOk(posts, v)
  BY <1>2, <1>3, <1>6, <1>9, <1>10 DEF ViewOk
<1> QED BY <1>1, <1>8, <1>11, ViewChanged DEF old

LEMMA AnswerLost ==
    ASSUME PageInv, NEW p \in People, NEW list \in views[p].answers, Lost(p, list)
    PROVE  PageInv'
<1> DEFINE old == views[p]
           v == [old EXCEPT !.answers = old.answers \ {list}]
<1>1. views' = [views EXCEPT ![p] = v] /\ UNCHANGED <<posts, reply>>
  BY ViewParts DEF Lost
<1>2. old \in View /\ ViewOk(posts, old) /\ old.answers # {}
  BY ViewParts
<1> HIDE DEF old
<1>3. v \in View
  BY <1>2 DEF View
<1>4. /\ v.open = old.open /\ v.shown = old.shown /\ v.last = old.last /\ v.send = old.send /\ v.at = old.at
      /\ v.jumped = old.jumped /\ v.answers = old.answers \ {list}
  BY <1>2 DEF View
<1>5. old.open
  BY <1>2 DEF ViewOk, NoView
<1> HIDE DEF v
<1>6. ViewOk(posts, v)
  BY <1>2, <1>4, <1>5 DEF ViewOk
<1> QED BY <1>1, <1>3, <1>6, ViewChanged DEF old

LEMMA ViewSends ==
    ASSUME PageInv, NEW p \in People, send(p) \/ SendFails(p)
    PROVE  PageInv'
<1> DEFINE old == views[p]
<1>1. PICK s \in {"insert", "idle"}, n \in Nat :
         /\ views' = [views EXCEPT ![p] = [old EXCEPT !.send = s, !.at = n]]
         /\ s = "insert" => Reserved(posts, n)
  <2>1. CASE send(p)
    <3>1. Reserved(posts, nextSeq) /\ nextSeq \in Nat
      BY ViewParts, NextReserved DEF Reserved
    <3>2. views' = [views EXCEPT ![p] = [old EXCEPT !.send = "insert", !.at = nextSeq]]
      BY <2>1, ViewParts DEF send
    <3> HIDE DEF old
    <3> QED BY <3>1, <3>2
  <2>2. CASE SendFails(p)
    <3>1. views' = [views EXCEPT ![p] = [old EXCEPT !.send = "idle", !.at = 0]]
      BY <2>2, ViewParts DEF SendFails
    <3> HIDE DEF old
    <3> QED BY <3>1
  <2> QED BY <2>1, <2>2
<1> DEFINE v == [old EXCEPT !.send = s, !.at = n]
<1>2. old \in View /\ ViewOk(posts, old) /\ UNCHANGED <<posts, reply>>
  BY ViewParts DEF send, SendFails
<1>3. old.open
  BY <1>2 DEF send, SendFails, ViewOk, NoView
<1> HIDE DEF old
<1>4. v \in View
  BY <1>2 DEF View
<1>5. /\ v.open = old.open /\ v.shown = old.shown /\ v.last = old.last /\ v.send = s /\ v.at = n
      /\ v.jumped = old.jumped /\ v.answers = old.answers
  BY <1>2 DEF View
<1> HIDE DEF v
<1>6. ViewOk(posts, v)
  BY <1>1, <1>2, <1>3, <1>5 DEF ViewOk
<1> QED BY <1>1, <1>2, <1>4, <1>6, ViewChanged DEF old, v

LEMMA SendIsStored ==
    ASSUME PageInv, NEW p \in People, SendStored(p)
    PROVE  PageInv'
<1> DEFINE old == views[p]
           v == [old EXCEPT !.send = "answer", !.at = Len(posts) + 1]
<1>1. sendMessage(p, old.at, TRUE) /\ views' = [views EXCEPT ![p] = v] /\ reply' = reply
  BY ViewParts DEF SendStored
<1>2. /\ old \in View /\ ViewOk(posts, old) /\ Reserved(posts, old.at) /\ PostsList /\ old.open
  BY ViewParts DEF SendStored, ViewOk, NoView
<1>3. /\ PostsList' /\ Numbered(posts')
      /\ \A x \in View : ViewOk(posts, x) => ViewOk(posts', x)
      /\ \A n \in Int : Reserved(posts, n) => Reserved(posts', n)
  BY <1>1, <1>2, ViewsKept
<1>4. Len(posts) + 1 \in DOMAIN posts' /\ Len(posts) \in Nat
  <2>1. DOMAIN posts' = 1..Len(posts) + 1
    BY <1>1, <1>2, AppendedPost
  <2>2. Len(posts) \in Nat
    BY <1>2 DEF PostsList
  <2> QED BY <2>1, <2>2
<1> HIDE DEF old
<1>5. v \in View
  <2> DEFINE n == Len(posts) + 1
  <2>1. n \in Nat
    BY <1>4
  <2>2. v = [old EXCEPT !.send = "answer", !.at = n]
    OBVIOUS
  <2> HIDE DEF n, v
  <2> QED BY <1>2, <2>1, <2>2 DEF View
<1>6. /\ v.open = old.open /\ v.shown = old.shown /\ v.last = old.last /\ v.send = "answer" /\ v.at = Len(posts) + 1
      /\ v.jumped = old.jumped /\ v.answers = old.answers
  BY <1>2 DEF View
<1> HIDE DEF v
<1>7. ViewOk(posts', v)
  <2>1. ViewOk(posts', old)
    BY <1>2, <1>3
  <2> QED BY <1>2, <1>4, <1>6, <2>1 DEF ViewOk
<1>8. views' \in [People -> View] /\ \A q \in People : views'[q] = IF q = p THEN v ELSE views[q]
  BY <1>1, <1>5 DEF PageInv
<1>9. \A q \in People : ViewOk(posts', views'[q])
  BY <1>3, <1>7, <1>8 DEF PageInv
<1>10. reply'.pc = "insert" => Reserved(posts', reply'.at)
  BY <1>1, <1>3 DEF PageInv, Reserved
<1> QED BY <1>3, <1>8, <1>9, <1>10 DEF PageInv

LEMMA SendAnswered ==
    ASSUME PageInv, NEW p \in People, Sent(p)
    PROVE  PageInv'
<1> DEFINE old == views[p]
           seq == posts[old.at].seq
           between == {i \in DOMAIN posts : posts[i].seq > old.last /\ posts[i].seq < seq}
           last == Max({old.last, seq})
           v == [old EXCEPT !.send = "idle", !.at = 0, !.last = last, !.shown = old.shown \union {old.at},
                            !.jumped = old.jumped \/ between # {}]
<1>1. views' = [views EXCEPT ![p] = v] /\ UNCHANGED <<posts, reply>>
  BY ViewParts DEF Sent
<1>2. /\ old \in View /\ ViewOk(posts, old) /\ old.at \in DOMAIN posts /\ old.open
      /\ \A i \in DOMAIN posts : posts[i].seq \in Nat \ {0}
      /\ old.last \in Nat /\ DOMAIN posts = 1..Len(posts) /\ Len(posts) \in Nat /\ old.jumped \in BOOLEAN
  BY ViewParts DEF Sent, ViewOk, NoView
<1>3. seq \in Nat /\ Taken(posts, seq)
  BY <1>2 DEF Taken
<1> HIDE DEF old, seq
<1>4. last = (IF seq > old.last THEN seq ELSE old.last)
  <2> DEFINE m == IF seq > old.last THEN seq ELSE old.last
  <2>1. m \in {old.last, seq} /\ \A y \in {old.last, seq} : m >= y
    BY <1>2, <1>3
  <2>2. \A x \in {old.last, seq} : (\A y \in {old.last, seq} : x >= y) => x = m
    BY <1>2, <1>3
  <2> HIDE DEF m
  <2>3. Max({old.last, seq}) = m
    BY <2>1, <2>2 DEF Max
  <2> QED BY <2>3 DEF m
<1>5. last \in Nat /\ Reached(posts, last)
  BY <1>2, <1>3, <1>4 DEF ViewOk, Reached
<1> HIDE DEF last
<1> DEFINE jumps == between # {}
<1>6. jumps \in BOOLEAN
  OBVIOUS
<1>7. ~jumps => \A i \in DOMAIN posts : ~(posts[i].seq > old.last /\ posts[i].seq < seq)
  OBVIOUS
<1> HIDE DEF jumps
<1>8. old.shown \union {old.at} \in SUBSET Nat
  BY <1>2 DEF View
<1>9. v \in View
  BY <1>2, <1>5, <1>8 DEF View
<1>10. /\ v.open = old.open /\ v.shown = old.shown \union {old.at} /\ v.last = last /\ v.send = "idle"
       /\ v.jumped = (old.jumped \/ jumps) /\ v.answers = old.answers
  BY <1>2 DEF View, jumps
<1> HIDE DEF v, between
<1>11. ASSUME ~old.jumped, ~jumps
       PROVE  /\ Complete(posts, v.shown, v.last)
              /\ \A a \in v.answers : Complete(posts, v.shown \union a, Top(posts, a))
  <2>1. Complete(posts, old.shown, old.last) /\ \A a \in old.answers : Complete(posts, old.shown \union a, Top(posts, a))
    BY <1>2, <1>11 DEF ViewOk
  <2>2. ASSUME NEW i \in DOMAIN posts, posts[i].seq <= last, i \notin old.shown, i # old.at
        PROVE  Double(posts, i)
    <3>1. CASE posts[i].seq <= old.last
      BY <2>1, <2>2, <3>1 DEF Complete
    <3>2. CASE ~(posts[i].seq <= old.last)
      <4>1. posts[i].seq = seq
        BY <1>2, <1>3, <1>4, <1>7, <1>11, <2>2, <3>2
      <4> QED BY <1>2, <2>2, <4>1 DEF Double, seq
    <3> QED BY <3>1, <3>2
  <2>3. Complete(posts, v.shown, v.last)
    BY <1>10, <2>2 DEF Complete
  <2> QED BY <1>10, <2>1, <2>3 DEF Complete
<1>12. ViewOk(posts, v)
  BY <1>2, <1>5, <1>10, <1>11 DEF ViewOk
<1> QED BY <1>1, <1>9, <1>12, ViewChanged DEF old

(* Steps that change no message and no view; the agent's reply may read    *)
(* its number.                                                             *)
LEMMA ViewsUntouched ==
    ASSUME PageInv, UNCHANGED <<posts, views>>, reply'.pc = "insert" => Reserved(posts, reply'.at)
    PROVE  PageInv'
  BY DEF PageInv, PostsList

LEMMA ReplyPosted ==
    ASSUME PageInv, respondInChannelAsAgent
    PROVE  PageInv'
<1> DEFINE fit == reply.raced \/ reply.scope = "external" \/ \A p \in seated : channelAudience[p]
<1>1. sendMessage(Agent, reply.at, fit) /\ Reserved(posts, reply.at) /\ reply' = NoReply /\ views' = views
  BY DEF respondInChannelAsAgent, PageInv
<1> HIDE DEF fit
<1>2. /\ PostsList' /\ Numbered(posts')
      /\ \A x \in View : ViewOk(posts, x) => ViewOk(posts', x)
  BY <1>1, ViewsKept
<1>3. reply'.pc # "insert"
  BY <1>1 DEF NoReply
<1> QED BY <1>1, <1>2, <1>3 DEF PageInv

LEMMA PageNext ==
    ASSUME PageInv, ReplyChecked, [ChanNext]_chanVars
    PROVE  PageInv'
<1>1. ASSUME NEW p \in People, NEW asked \in SUBSET People, createChannel(p, asked) PROVE PageInv'
  BY <1>1, ViewsUntouched DEF createChannel, PageInv
<1>2. ASSUME NEW p \in People, addChannelMembers(p) \/ \E s \in {"internal", "external", "gone"} : Restand(p, s)
      PROVE  PageInv'
  <2>1. Unsettled /\ UNCHANGED <<posts, views>>
    BY <1>2 DEF addChannelMembers, Restand
  <2>2. reply'.pc = "insert" => Reserved(posts, reply'.at)
    <3>1. CASE reply.pc = "insert"
      <4>1. reply' = [reply EXCEPT !.raced = TRUE]
        BY <2>1, <3>1 DEF Unsettled
      <4>2. reply'.at = reply.at
        BY <4>1
      <4> QED BY <3>1, <4>2 DEF PageInv
    <3>2. CASE reply.pc # "insert"
      BY <2>1, <3>2 DEF Unsettled
    <3> QED BY <3>1, <3>2
  <2> QED BY <2>1, <2>2, ViewsUntouched
<1>3. ASSUME NEW p \in People,
             \/ \E i \in DOMAIN posts : togglePin(p, i) \/ submitWitness(p, i)
             \/ \E e \in DOMAIN ledger : resolveLedgerEntry(p, e)
      PROVE  PageInv'
  <2>1. UNCHANGED <<posts, views, reply>>
    BY <1>3 DEF togglePin, submitWitness, resolveLedgerEntry
  <2> QED BY <2>1, ViewsUntouched DEF PageInv
<1>4. ASSUME NEW p \in People, pingMentionedAgents(p) PROVE PageInv'
  BY <1>4, ViewsUntouched DEF pingMentionedAgents
<1>5. CASE ReplyGenerated
  <2>1. Reserved(posts, nextSeq) /\ UNCHANGED <<posts, views>>
    BY <1>5, NextReserved DEF ReplyGenerated, PageInv
  <2>2. reply'.pc = "insert" => Reserved(posts, reply'.at)
    <3>1. CASE reply' = NoReply
      BY <3>1 DEF NoReply
    <3>2. CASE reply' = [reply EXCEPT !.pc = "insert", !.at = nextSeq]
      <4>1. "at" \in DOMAIN reply
        BY <1>5 DEF ReplyGenerated, ReplyChecked, ReplyFields, NoReply
      <4>2. reply'.at = nextSeq
        BY <3>2, <4>1
      <4> QED BY <2>1, <4>2
    <3> QED BY <1>5, <3>1, <3>2 DEF ReplyGenerated
  <2> QED BY <2>1, <2>2, ViewsUntouched
<1>6. CASE ReplyFails
  BY <1>6, ViewsUntouched DEF ReplyFails, NoReply
<1>7. CASE UNCHANGED chanVars
  BY <1>7, ViewsUntouched DEF chanVars, PageInv
<1> QED BY <1>1, <1>2, <1>3, <1>4, <1>5, <1>6, <1>7, PageOpened, ViewLeft, ViewPolls, ViewPolled, AnswerLost,
           ViewSends, SendIsStored, SendAnswered, ReplyPosted DEF ChanNext

(* Whatever overlapping polls answer and in which order, a view shows      *)
(* every message up to its cursor.                                         *)
THEOREM NothingSkippedHolds == ChanSpec => []NothingSkipped
<1>1. PageInv => NothingSkipped
  BY DEF PageInv, ViewOk, Complete, Double, NothingSkipped
<1>2. ChanSpec => []ChanInv
  BY ChanInvInit, ChanStep, PTL DEF ChanSpec
<1>3. ChanInv => ReplyChecked
  BY DEF ChanInv
<1> QED BY <1>1, <1>2, <1>3, PageInit, PageNext, PTL DEF ChanSpec

-----------------------------------------------------------------------------
(* Conversations with an agent.                                            *)

TabStates ==
    [conv : Convs, shows : Convs, incognito : BOOLEAN, resume : Convs \union {NoConv}, busy : Nat]
ChatTurns ==
    [by : TabOwners, shows : Convs, secret : BOOLEAN,
     body : [threadId : Convs, incognito : BOOLEAN], thread : Convs \union {NoConv},
     tools : SUBSET PersonaTools, pc : {"sent", "run", "over"}]
AgentMessages == [thread : Convs, turn : Nat, part : {"user", "assistant"}]

AgType ==
    /\ tabs \in [Tabs -> TabStates]
    /\ chatTurns \in Seq(ChatTurns) /\ messages \in Seq(AgentMessages)
    /\ DOMAIN threads \subseteq Convs

(* A turn asks for what its window showed, and is kept there or nowhere,   *)
(* in a thread of its author's; a secret one is kept nowhere, and is given  *)
(* no tool that is proposed and none that creates records.                 *)
Kept(turn) ==
    /\ turn.body.threadId = turn.shows /\ turn.body.incognito = turn.secret
    /\ turn.thread # NoConv =>
         /\ ~turn.secret /\ turn.thread = turn.shows
         /\ turn.thread \in DOMAIN threads /\ threads[turn.thread] = turn.by
    /\ turn.pc = "sent" => turn.thread = NoConv /\ turn.tools = {}
    /\ turn.secret => /\ turn.tools \intersect HITL_TOOLS = {}
                      /\ turn.tools \intersect WritesAtOnce \subseteq {"calendar.pin_summary"}

TurnsKept ==
    /\ \A w \in Tabs : tabs[w].conv = tabs[w].shows
    /\ \A i \in DOMAIN chatTurns : Kept(chatTurns[i])

MessagesKept ==
    \A m \in DOMAIN messages :
        /\ messages[m].turn \in DOMAIN chatTurns
        /\ messages[m].thread = chatTurns[messages[m].turn].thread
        /\ messages[m].thread # NoConv

(* What tools left is of turns there were, or of MCP, and of secret turns   *)
(* at most the pin.                                                        *)
TracesKept ==
    /\ \A x \in toolCalls \union approvals \union posted : x.turn \in 0..Len(chatTurns)
    /\ \A i \in DOMAIN chatTurns : chatTurns[i].secret =>
         /\ \A x \in toolCalls \union approvals : x.turn # i
         /\ \A x \in posted : x.turn = i => x.tool = "calendar.pin_summary"

AgInv == AgType /\ TurnsKept /\ MessagesKept /\ TracesKept

LEMMA AgStart == AgInit => AgInv
<1> SUFFICES ASSUME AgInit PROVE AgInv
  OBVIOUS
<1> DEFINE f == CHOOSE f \in [Tabs -> Convs] : \A v, w \in Tabs : v # w => f[v] # f[w]
<1>1. f \in [Tabs -> Convs]
  BY AgentsAssumption
<1>2. tabs = [w \in Tabs |-> [conv |-> f[w], shows |-> f[w], incognito |-> FALSE,
                              resume |-> NoConv, busy |-> 0]]
  BY DEF AgInit
<1> HIDE DEF f
<1>3. tabs \in [Tabs -> TabStates] /\ \A w \in Tabs : tabs[w].conv = tabs[w].shows
  BY <1>1, <1>2 DEF TabStates
<1>4. /\ threads = <<>> /\ chatTurns = <<>> /\ messages = <<>>
      /\ toolCalls = {} /\ approvals = {} /\ posted = {}
  BY DEF AgInit
<1>5. <<>> \in Seq(ChatTurns) /\ <<>> \in Seq(AgentMessages) /\ DOMAIN <<>> = {}
  OBVIOUS
<1> QED
  BY <1>3, <1>4, <1>5 DEF AgInv, AgType, TurnsKept, MessagesKept, TracesKept

(* A window changes what it shows together with the id it holds.           *)
WindowOnly ==
    /\ tabs' \in [Tabs -> TabStates] /\ \A w \in Tabs : tabs'[w].conv = tabs'[w].shows
    /\ UNCHANGED <<threads, chatTurns, messages, toolCalls, approvals, posted>>

LEMMA WindowKept == ASSUME AgInv, WindowOnly PROVE AgInv'
BY DEF AgInv, WindowOnly, AgType, TurnsKept, Kept, MessagesKept, TracesKept

LEMMA WindowStep ==
    ASSUME AgInv, NEW w \in Tabs,
           \/ newChat(w) \/ toggleIncognito(w) \/ Resumed(w) \/ ResumeFails(w) \/ Streamed(w)
           \/ \E c \in DOMAIN threads : resumeThread(w, c)
    PROVE  AgInv'
<1>1. AgType /\ tabs \in [Tabs -> TabStates] /\ tabs[w] \in TabStates
      /\ \A o \in Tabs : tabs[o].conv = tabs[o].shows
  BY DEF AgInv, AgType, TurnsKept
<1>2. CanDraw => newConvId \in Convs
  BY DEF CanDraw, newConvId
<1>3. CASE newChat(w)
  <2>1. /\ tabs' = [tabs EXCEPT ![w] = [@ EXCEPT !.conv = newConvId, !.shows = newConvId]] /\ CanDraw
        /\ UNCHANGED <<threads, chatTurns, messages, toolCalls, approvals, posted>>
    BY <1>1, <1>3 DEF newChat, TabStates
  <2> QED
    BY <1>1, <1>2, <2>1, WindowKept DEF WindowOnly, TabStates
<1>4. CASE toggleIncognito(w)
  <2> DEFINE v == [tabs[w] EXCEPT !.incognito = ~tabs[w].incognito, !.conv = newConvId, !.shows = newConvId]
  <2>1. /\ tabs' = [tabs EXCEPT ![w] = v] /\ CanDraw
        /\ UNCHANGED <<threads, chatTurns, messages, toolCalls, approvals, posted>>
    BY <1>4 DEF toggleIncognito
  <2>2. v \in TabStates /\ v.conv = v.shows
    BY <1>1, <1>2, <2>1 DEF TabStates
  <2> HIDE DEF v
  <2> QED
    BY <1>1, <2>1, <2>2, WindowKept DEF WindowOnly
<1>5. CASE Resumed(w)
  <2>1. /\ tabs' = [tabs EXCEPT ![w] = [@ EXCEPT !.conv = tabs[w].resume, !.shows = tabs[w].resume, !.resume = NoConv]]
        /\ tabs[w].resume \in Convs
        /\ UNCHANGED <<threads, chatTurns, messages, toolCalls, approvals, posted>>
    BY <1>1, <1>5 DEF Resumed, TabStates
  <2> QED
    BY <1>1, <2>1, WindowKept DEF WindowOnly, TabStates
<1>6. CASE ResumeFails(w)
  <2>1. /\ tabs' = [tabs EXCEPT ![w] = [@ EXCEPT !.resume = NoConv]]
        /\ UNCHANGED <<threads, chatTurns, messages, toolCalls, approvals, posted>>
    BY <1>6 DEF ResumeFails
  <2> QED
    BY <1>1, <2>1, WindowKept DEF WindowOnly, TabStates
<1>7. CASE Streamed(w)
  <2>1. /\ tabs' = [tabs EXCEPT ![w] = [@ EXCEPT !.busy = 0]]
        /\ UNCHANGED <<threads, chatTurns, messages, toolCalls, approvals, posted>>
    BY <1>7 DEF Streamed
  <2> QED
    BY <1>1, <2>1, WindowKept DEF WindowOnly, TabStates
<1>8. ASSUME NEW c \in DOMAIN threads, resumeThread(w, c) PROVE AgInv'
  <2>1. /\ tabs' = [tabs EXCEPT ![w] = [@ EXCEPT !.resume = c]] /\ c \in Convs
        /\ UNCHANGED <<threads, chatTurns, messages, toolCalls, approvals, posted>>
    BY <1>1, <1>8 DEF resumeThread, AgType
  <2> QED
    BY <1>1, <2>1, WindowKept DEF WindowOnly, TabStates
<1> QED
  BY <1>3, <1>4, <1>5, <1>6, <1>7, <1>8

LEMMA SubmitStep ==
    ASSUME AgInv, NEW w \in Tabs, submit(w)
    PROVE  AgInv'
<1> DEFINE turn == [by |-> OwnerOf[w], shows |-> tabs[w].shows, secret |-> tabs[w].incognito,
                    body |-> body(w), thread |-> NoConv, tools |-> {}, pc |-> "sent"]
           n == Len(chatTurns)
<1>1. AgType /\ TurnsKept /\ MessagesKept /\ TracesKept /\ tabs[w] \in TabStates
      /\ chatTurns \in Seq(ChatTurns)
  BY DEF AgInv, AgType
<1>2. turn \in ChatTurns /\ Kept(turn) /\ Kept(turn)'
  BY <1>1 DEF ChatTurns, TabStates, TabOwners, body, Kept, TurnsKept, submit
<1>3. /\ chatTurns' = Append(chatTurns, turn)
      /\ tabs' = [tabs EXCEPT ![w] = [@ EXCEPT !.busy = n + 1]]
      /\ UNCHANGED <<threads, messages, toolCalls, approvals, posted>>
  BY DEF submit
<1>4. n \in Nat
  BY <1>1
<1> HIDE DEF turn
<1>5. /\ chatTurns' \in Seq(ChatTurns) /\ Len(chatTurns') = n + 1 /\ chatTurns'[n + 1] = turn
      /\ DOMAIN chatTurns' = 1..n + 1 /\ DOMAIN chatTurns = 1..n
      /\ \A i \in 1..n : chatTurns'[i] = chatTurns[i]
  BY <1>1, <1>2, <1>3, AppendProperties
<1> HIDE DEF n
<1>6. tabs' \in [Tabs -> TabStates] /\ \A o \in Tabs : tabs'[o].conv = tabs'[o].shows
  <2> DEFINE v == [tabs[w] EXCEPT !.busy = n + 1]
  <2>1. v \in TabStates /\ v.conv = tabs[w].conv /\ v.shows = tabs[w].shows
    BY <1>1, <1>4 DEF TabStates
  <2>2. tabs' = [tabs EXCEPT ![w] = v]
    BY <1>3
  <2> HIDE DEF v
  <2> QED
    BY <1>1, <2>1, <2>2 DEF AgType, TurnsKept
<1>7. AgType'
  BY <1>1, <1>3, <1>5, <1>6 DEF AgType
<1>8. \A i \in DOMAIN chatTurns' : i \in 1..n \/ i = n + 1
  BY <1>4, <1>5
<1>9. TurnsKept'
  BY <1>1, <1>2, <1>3, <1>5, <1>6, <1>8 DEF TurnsKept, Kept
<1>10. MessagesKept'
  BY <1>1, <1>3, <1>4, <1>5 DEF MessagesKept
<1>11. TracesKept'
  <2>1. \A x \in toolCalls \union approvals \union posted : x.turn \in 0..n
    BY <1>1 DEF TracesKept, n
  <2>2. \A x \in toolCalls \union approvals \union posted : x.turn \in 0..n + 1 /\ x.turn # n + 1
    BY <1>4, <2>1
  <2> QED
    BY <1>1, <1>3, <1>5, <1>8, <2>2 DEF TracesKept
<1> QED
  BY <1>7, <1>9, <1>10, <1>11 DEF AgInv

(* A turn becomes v: it keeps what was typed.                              *)
TurnBecomes(i, v) ==
    /\ v \in ChatTurns /\ chatTurns' = [chatTurns EXCEPT ![i] = v]
    /\ v.by = chatTurns[i].by /\ v.shows = chatTurns[i].shows /\ v.secret = chatTurns[i].secret
    /\ v.body = chatTurns[i].body

LEMMA TurnWritten ==
    ASSUME AgInv, NEW i \in DOMAIN chatTurns, NEW v, TurnBecomes(i, v)
    PROVE  /\ chatTurns' \in Seq(ChatTurns) /\ DOMAIN chatTurns' = DOMAIN chatTurns
           /\ Len(chatTurns') = Len(chatTurns) /\ chatTurns'[i] = v
           /\ \A j \in DOMAIN chatTurns \ {i} : chatTurns'[j] = chatTurns[j]
<1>1. chatTurns \in Seq(ChatTurns) /\ Len(chatTurns) \in Nat /\ v \in ChatTurns
      /\ chatTurns' = [chatTurns EXCEPT ![i] = v]
  BY DEF AgInv, AgType, TurnBecomes
<1>2. DOMAIN chatTurns' = DOMAIN chatTurns /\ chatTurns'[i] = v
      /\ \A j \in DOMAIN chatTurns \ {i} : chatTurns'[j] = chatTurns[j]
  BY <1>1
<1>3. chatTurns' \in [1..Len(chatTurns) -> ChatTurns]
  BY <1>1
<1>4. chatTurns' \in Seq(ChatTurns)
  BY <1>1, <1>3
<1>5. Len(chatTurns') = Len(chatTurns)
  BY <1>1, <1>3, <1>4
<1> QED
  BY <1>2, <1>4, <1>5

(* A message of the turn joins the thread, or is lost.                     *)
MessageFor(i, c) ==
    \/ messages' = messages
    \/ \E part \in {"user", "assistant"} :
         messages' = Append(messages, [thread |-> c, turn |-> i, part |-> part])

LEMMA MessageKept ==
    ASSUME AgInv, NEW i \in DOMAIN chatTurns, NEW v, TurnBecomes(i, v),
           \/ messages' = messages
           \/ v.thread # NoConv /\ MessageFor(i, v.thread),
           v.thread = chatTurns[i].thread \/ chatTurns[i].thread = NoConv
    PROVE  messages' \in Seq(AgentMessages) /\ MessagesKept'
<1>1. AgType /\ MessagesKept /\ messages \in Seq(AgentMessages) /\ chatTurns \in Seq(ChatTurns)
  BY DEF AgInv, AgType
<1>2. /\ DOMAIN chatTurns' = DOMAIN chatTurns /\ chatTurns'[i] = v /\ v \in ChatTurns /\ i \in Nat
      /\ \A j \in DOMAIN chatTurns \ {i} : chatTurns'[j] = chatTurns[j]
  BY <1>1, TurnWritten DEF TurnBecomes
<1>3. \A m \in DOMAIN messages :
        /\ messages[m].turn \in DOMAIN chatTurns'
        /\ messages[m].thread = chatTurns'[messages[m].turn].thread
        /\ messages[m].thread # NoConv
  BY <1>1, <1>2 DEF MessagesKept
<1>4. CASE messages' = messages
  BY <1>1, <1>3, <1>4 DEF MessagesKept
<1>5. ASSUME NEW part \in {"user", "assistant"}, v.thread # NoConv,
             messages' = Append(messages, [thread |-> v.thread, turn |-> i, part |-> part])
      PROVE  messages' \in Seq(AgentMessages) /\ MessagesKept'
  <2> DEFINE msg == [thread |-> v.thread, turn |-> i, part |-> part]
  <2>1. msg \in AgentMessages /\ msg.thread = v.thread /\ msg.turn = i
    BY <1>2, <1>5 DEF AgentMessages, ChatTurns
  <2>2. messages' = Append(messages, msg)
    BY <1>5
  <2> HIDE DEF msg
  <2>3. /\ messages' \in Seq(AgentMessages) /\ Len(messages) \in Nat
        /\ DOMAIN messages' = 1..Len(messages) + 1 /\ DOMAIN messages = 1..Len(messages)
        /\ messages'[Len(messages) + 1] = msg
        /\ \A m \in 1..Len(messages) : messages'[m] = messages[m]
    BY <1>1, <2>1, <2>2, AppendProperties
  <2>4. \A m \in DOMAIN messages' : m \in 1..Len(messages) \/ m = Len(messages) + 1
    BY <2>3
  <2>5. ASSUME NEW m \in DOMAIN messages'
        PROVE  /\ messages'[m].turn \in DOMAIN chatTurns'
               /\ messages'[m].thread = chatTurns'[messages'[m].turn].thread
               /\ messages'[m].thread # NoConv
    <3>1. CASE m \in 1..Len(messages)
      BY <1>3, <2>3, <3>1
    <3>2. CASE m = Len(messages) + 1
      BY <1>2, <1>5, <2>1, <2>3, <3>2
    <3> QED
      BY <2>4, <3>1, <3>2
  <2> QED
    BY <2>3, <2>5 DEF MessagesKept
<1> QED
  BY <1>4, <1>5 DEF MessageFor

(* A turn that moves on and leaves no trace of tools.                      *)
LEMMA TurnMoves ==
    ASSUME AgInv, NEW i \in DOMAIN chatTurns, NEW v, TurnBecomes(i, v), Kept(v)', DOMAIN threads' \subseteq Convs,
           \A c \in DOMAIN threads : c \in DOMAIN threads' /\ threads'[c] = threads[c],
           messages' \in Seq(AgentMessages), MessagesKept',
           UNCHANGED <<tabs, toolCalls, approvals, posted>>
    PROVE  AgInv'
<1>1. AgType /\ TurnsKept /\ TracesKept
  BY DEF AgInv
<1>2. /\ chatTurns' \in Seq(ChatTurns) /\ DOMAIN chatTurns' = DOMAIN chatTurns
      /\ Len(chatTurns') = Len(chatTurns) /\ chatTurns'[i] = v
      /\ \A j \in DOMAIN chatTurns \ {i} : chatTurns'[j] = chatTurns[j]
  BY TurnWritten
<1>3. AgType'
  BY <1>1, <1>2 DEF AgType
<1>4. ASSUME NEW j \in DOMAIN chatTurns PROVE Kept(chatTurns[j])'
  <2>1. CASE j = i
    BY <1>2, <2>1 DEF Kept
  <2>2. CASE j # i
    <3>1. Kept(chatTurns[j]) /\ chatTurns'[j] = chatTurns[j]
      BY <1>1, <1>2, <2>2 DEF TurnsKept
    <3> QED
      BY <3>1 DEF Kept
  <2> QED
    BY <2>1, <2>2
<1>5. TurnsKept'
  BY <1>1, <1>2, <1>4 DEF TurnsKept
<1>6. \A j \in DOMAIN chatTurns : chatTurns'[j].secret = chatTurns[j].secret
  BY <1>2 DEF TurnBecomes
<1>7. TracesKept'
  BY <1>1, <1>2, <1>6 DEF TracesKept
<1> QED
  BY <1>3, <1>5, <1>7 DEF AgInv

LEMMA RefuseStep ==
    ASSUME AgInv, NEW i \in DOMAIN chatTurns, Refuse(i)
    PROVE  AgInv'
<1>1. AgType /\ chatTurns[i] \in ChatTurns /\ Kept(chatTurns[i]) /\ MessagesKept
  BY DEF AgInv, AgType, TurnsKept
<1>2. PICK v : v = [chatTurns[i] EXCEPT !.pc = "over"]
  OBVIOUS
<1>3. /\ chatTurns' = [chatTurns EXCEPT ![i] = v]
      /\ UNCHANGED <<tabs, threads, messages, toolCalls, approvals, posted>>
  BY <1>2 DEF Refuse
<1>4. v \in ChatTurns /\ v.by = chatTurns[i].by /\ v.shows = chatTurns[i].shows
      /\ v.secret = chatTurns[i].secret /\ v.body = chatTurns[i].body /\ v.tools = chatTurns[i].tools
      /\ v.thread = chatTurns[i].thread /\ v.pc = "over"
  BY <1>1, <1>2 DEF ChatTurns
<1>5. TurnBecomes(i, v)
  BY <1>3, <1>4 DEF TurnBecomes
<1>6. Kept(v)'
  BY <1>1, <1>3, <1>4 DEF Kept
<1>7. messages' \in Seq(AgentMessages) /\ MessagesKept'
  BY <1>3, <1>4, <1>5, MessageKept
<1> QED
  BY <1>1, <1>3, <1>5, <1>6, <1>7, TurnMoves DEF AgType

LEMMA FinishStep ==
    ASSUME AgInv, NEW i \in DOMAIN chatTurns, onFinish(i)
    PROVE  AgInv'
<1>1. AgType /\ chatTurns[i] \in ChatTurns /\ Kept(chatTurns[i]) /\ MessagesKept
  BY DEF AgInv, AgType, TurnsKept
<1>2. PICK v : v = [chatTurns[i] EXCEPT !.pc = "over"]
  OBVIOUS
<1>3. /\ chatTurns' = [chatTurns EXCEPT ![i] = v]
      /\ UNCHANGED <<tabs, threads, toolCalls, approvals, posted>>
  BY <1>2 DEF onFinish
<1>4. v \in ChatTurns /\ v.by = chatTurns[i].by /\ v.shows = chatTurns[i].shows
      /\ v.secret = chatTurns[i].secret /\ v.body = chatTurns[i].body /\ v.tools = chatTurns[i].tools
      /\ v.thread = chatTurns[i].thread /\ v.pc = "over"
  BY <1>1, <1>2 DEF ChatTurns
<1>5. TurnBecomes(i, v)
  BY <1>3, <1>4 DEF TurnBecomes
<1>6. Kept(v)'
  BY <1>1, <1>3, <1>4 DEF Kept
<1>7. messages' = messages \/ (v.thread # NoConv /\ MessageFor(i, v.thread))
  BY <1>4 DEF onFinish, appendAgentMessage, MessageFor
<1>8. messages' \in Seq(AgentMessages) /\ MessagesKept'
  BY <1>4, <1>5, <1>7, MessageKept
<1> QED
  BY <1>1, <1>3, <1>5, <1>6, <1>8, TurnMoves DEF AgType

(* What an incognito turn may call: nothing proposed, nothing that makes    *)
(* records, so of the writes the pin alone.                                 *)
LEMMA IncognitoTools ==
    ASSUME NEW rl
    PROVE  LET tools == citrateCommsTools(IncognitoAllow(PersonaTools), "Agent", rl, FALSE)
           IN  /\ tools \intersect HITL_TOOLS = {}
               /\ tools \intersect WritesAtOnce \subseteq {"calendar.pin_summary"}
<1>1. "CreateRecord" \notin RoleCaps("Agent")
  BY DEF RoleCaps
<1>2. TOOL_CAPABILITY["tables.map"] = "CreateRecord" /\ TOOL_CAPABILITY["crm.ingest"] = "CreateRecord"
  BY DEF TOOL_CAPABILITY, ALL_TOOL_NAMES, HITL_TOOLS, WritesAtOnce
<1>3. ~toolPermitted("tables.map", "Agent", rl) /\ ~toolPermitted("crm.ingest", "Agent", rl)
  BY <1>1, <1>2 DEF toolPermitted
<1> QED
  BY <1>3 DEF citrateCommsTools, IncognitoAllow, WritesAtOnce

LEMMA AdmitStep ==
    ASSUME AgInv, NEW i \in DOMAIN chatTurns, Admit(i)
    PROVE  AgInv'
<1>1. AgType /\ chatTurns[i] \in ChatTurns /\ Kept(chatTurns[i]) /\ MessagesKept /\ chatTurns[i].pc = "sent"
      /\ DOMAIN threads \subseteq Convs
  BY DEF AgInv, AgType, TurnsKept, Admit
<1>2. /\ chatTurns[i].thread = NoConv /\ chatTurns[i].body.threadId = chatTurns[i].shows
      /\ chatTurns[i].body.incognito = chatTurns[i].secret
  BY <1>1 DEF Kept
<1>3. UNCHANGED <<tabs, toolCalls, approvals, posted>>
  BY DEF Admit
<1>4. TurnTools(i) \subseteq PersonaTools
  BY DEF TurnTools, citrateCommsTools, IncognitoAllow
<1>5. CASE chatTurns[i].body.incognito
  <2>1. PICK v : v = [chatTurns[i] EXCEPT !.pc = "run", !.tools = TurnTools(i)]
    OBVIOUS
  <2>2. /\ chatTurns' = [chatTurns EXCEPT ![i] = v]
        /\ UNCHANGED <<threads, messages>>
    BY <1>5, <2>1 DEF Admit
  <2>3. v \in ChatTurns /\ v.by = chatTurns[i].by /\ v.shows = chatTurns[i].shows
        /\ v.secret = chatTurns[i].secret /\ v.body = chatTurns[i].body /\ v.tools = TurnTools(i)
        /\ v.thread = NoConv /\ v.pc = "run"
    BY <1>1, <1>2, <1>4, <2>1 DEF ChatTurns
  <2>4. TurnBecomes(i, v)
    BY <2>2, <2>3 DEF TurnBecomes
  <2>5. /\ v.tools \intersect HITL_TOOLS = {}
        /\ v.tools \intersect WritesAtOnce \subseteq {"calendar.pin_summary"}
    BY <1>5, <2>3, IncognitoTools DEF TurnTools
  <2>6. Kept(v)'
    BY <1>2, <2>3, <2>5 DEF Kept
  <2>7. messages' \in Seq(AgentMessages) /\ MessagesKept'
    BY <1>2, <2>2, <2>3, <2>4, MessageKept
  <2> QED
    BY <1>1, <1>3, <2>2, <2>4, <2>6, <2>7, TurnMoves
<1>6. CASE ~chatTurns[i].body.incognito
  <2>1. PICK c : c = getOrCreateThread(chatTurns[i].by, chatTurns[i].body.threadId)
    OBVIOUS
  <2>2. PICK v : v = [chatTurns[i] EXCEPT !.pc = "run", !.thread = c, !.tools = TurnTools(i)]
    OBVIOUS
  <2>3. /\ threads' = createAgentThread(chatTurns[i].by, c)
        /\ IF c = NoConv THEN messages' = messages ELSE appendAgentMessage(c, i, "user")
        /\ chatTurns' = [chatTurns EXCEPT ![i] = v]
    BY <1>6, <2>1, <2>2 DEF Admit
  <2>4. /\ c = NoConv \/ c = chatTurns[i].shows
        /\ c \in DOMAIN threads => threads[c] = chatTurns[i].by \/ c = NoConv
    BY <1>2, <2>1 DEF getOrCreateThread
  <2>5. chatTurns[i].shows \in Convs
    BY <1>1 DEF ChatTurns
  <2>6. v \in ChatTurns /\ v.by = chatTurns[i].by /\ v.shows = chatTurns[i].shows
        /\ v.secret = chatTurns[i].secret /\ v.body = chatTurns[i].body /\ v.tools = TurnTools(i)
        /\ v.thread = c /\ v.pc = "run"
    BY <1>1, <1>4, <2>2, <2>4, <2>5 DEF ChatTurns
  <2>7. TurnBecomes(i, v)
    BY <2>3, <2>6 DEF TurnBecomes
  <2>8. /\ \A x \in DOMAIN threads : x \in DOMAIN threads' /\ threads'[x] = threads[x]
        /\ DOMAIN threads' \subseteq Convs
        /\ c # NoConv => c \in DOMAIN threads' /\ threads'[c] = chatTurns[i].by
    BY <1>1, <2>3, <2>4, <2>5 DEF createAgentThread
  <2>9. Kept(v)'
    BY <1>2, <1>6, <2>4, <2>6, <2>8 DEF Kept
  <2>10. messages' = messages \/ (v.thread # NoConv /\ MessageFor(i, v.thread))
    BY <2>3, <2>6 DEF appendAgentMessage, MessageFor
  <2>11. messages' \in Seq(AgentMessages) /\ MessagesKept'
    BY <1>2, <2>6, <2>7, <2>10, MessageKept
  <2> QED
    BY <1>1, <1>3, <2>7, <2>8, <2>9, <2>11, TurnMoves
<1> QED
  BY <1>5, <1>6

(* What a call leaves is under its turn's number; a call that is not logged *)
(* and may not be proposed leaves a write at most.                          *)
LEMMA CallLeaves ==
    ASSUME NEW i, NEW t, NEW logged \in BOOLEAN, executeTool(i, t, logged)
    PROVE  /\ toolCalls' = toolCalls \/ toolCalls' = toolCalls \union {[turn |-> i, tool |-> t]}
           /\ approvals' = approvals \/ approvals' = approvals \union {[turn |-> i, tool |-> t]}
           /\ posted' = posted \/ (t \in WritesAtOnce /\ posted' = posted \union {[turn |-> i, tool |-> t]})
           /\ ~logged /\ t \notin HITL_TOOLS => UNCHANGED <<toolCalls, approvals>>
BY DEF executeTool, enqueueApproval, audited

LEMMA CallStep ==
    ASSUME AgInv, NEW i \in 0..Len(chatTurns), NEW t, NEW logged \in BOOLEAN, executeTool(i, t, logged),
           UNCHANGED <<tabs, threads, chatTurns, messages>>,
           i # 0 /\ chatTurns[i].secret =>
             /\ ~logged /\ t \notin HITL_TOOLS
             /\ t \in WritesAtOnce => t = "calendar.pin_summary"
    PROVE  AgInv'
<1>1. AgType /\ TurnsKept /\ MessagesKept /\ TracesKept /\ chatTurns \in Seq(ChatTurns)
  BY DEF AgInv, AgType
<1>2. AgType' /\ TurnsKept' /\ MessagesKept'
  BY <1>1 DEF AgType, TurnsKept, Kept, MessagesKept
<1>3. DOMAIN chatTurns = 1..Len(chatTurns) /\ Len(chatTurns) \in Nat
  BY <1>1
<1>4. PICK new : new = [turn |-> i, tool |-> t]
  OBVIOUS
<1>5. new.turn = i /\ new.tool = t
  BY <1>4
<1>6. /\ toolCalls' = toolCalls \/ toolCalls' = toolCalls \union {new}
      /\ approvals' = approvals \/ approvals' = approvals \union {new}
      /\ posted' = posted \/ (t \in WritesAtOnce /\ posted' = posted \union {new})
      /\ ~logged /\ t \notin HITL_TOOLS => UNCHANGED <<toolCalls, approvals>>
  BY <1>4, CallLeaves
<1>7. \A x \in (toolCalls \union approvals \union posted)' : x.turn \in 0..Len(chatTurns)
  BY <1>1, <1>5, <1>6 DEF TracesKept
<1>8. ASSUME NEW j \in DOMAIN chatTurns, chatTurns[j].secret
      PROVE  /\ \A x \in (toolCalls \union approvals)' : x.turn # j
             /\ \A x \in posted' : x.turn = j => x.tool = "calendar.pin_summary"
  <2>1. /\ \A x \in toolCalls \union approvals : x.turn # j
        /\ \A x \in posted : x.turn = j => x.tool = "calendar.pin_summary"
    BY <1>1, <1>8 DEF TracesKept
  <2>2. CASE i = j
    <3>1. i # 0 /\ chatTurns[i].secret
      BY <1>3, <1>8, <2>2
    <3> QED
      BY <1>5, <1>6, <2>1, <3>1
  <2>3. CASE i # j
    BY <1>5, <1>6, <2>1, <2>3
  <2> QED
    BY <2>2, <2>3
<1>9. TracesKept'
  BY <1>7, <1>8 DEF TracesKept
<1> QED
  BY <1>2, <1>9 DEF AgInv

LEMMA AgStep == AgInv /\ [AgNext]_agVars => AgInv'
<1> SUFFICES ASSUME AgInv, [AgNext]_agVars PROVE AgInv'
  OBVIOUS
<1>1. AgType /\ TurnsKept /\ MessagesKept /\ TracesKept /\ chatTurns \in Seq(ChatTurns)
      /\ tabs \in [Tabs -> TabStates] /\ Len(chatTurns) \in Nat
      /\ DOMAIN chatTurns = 1..Len(chatTurns)
  BY DEF AgInv, AgType
<1>2. ASSUME UNCHANGED <<tabs, threads, chatTurns, messages, toolCalls, approvals, posted>>
      PROVE  AgInv'
  BY <1>1, <1>2, WindowKept DEF WindowOnly, AgType, TurnsKept
<1>3. ASSUME NEW w \in Tabs,
             \/ newChat(w) \/ toggleIncognito(w) \/ Resumed(w) \/ ResumeFails(w) \/ submit(w) \/ Streamed(w)
             \/ \E c \in DOMAIN threads : resumeThread(w, c)
      PROVE  AgInv'
  <2>1. CASE submit(w)
    BY <2>1, SubmitStep
  <2>2. CASE ~submit(w)
    BY <1>3, <2>2, WindowStep
  <2> QED
    BY <2>1, <2>2
<1>4. ASSUME NEW i \in DOMAIN chatTurns, NEW t \in chatTurns[i].tools, CallTool(i, t) PROVE AgInv'
  <2>1. PICK logged \in BOOLEAN : logged = ~chatTurns[i].body.incognito
    OBVIOUS
  <2>2. executeTool(i, t, logged) /\ UNCHANGED <<tabs, threads, chatTurns, messages>>
    BY <1>4, <2>1 DEF CallTool
  <2>3. i \in 0..Len(chatTurns) /\ Kept(chatTurns[i])
    BY <1>1 DEF TurnsKept
  <2>4. chatTurns[i].secret => /\ ~logged /\ t \notin HITL_TOOLS
                               /\ t \in WritesAtOnce => t = "calendar.pin_summary"
    BY <1>4, <2>1, <2>3 DEF Kept
  <2> QED
    BY <2>2, <2>3, <2>4, CallStep
<1>5. ASSUME NEW i \in DOMAIN chatTurns, Refuse(i) \/ Admit(i) \/ onFinish(i) PROVE AgInv'
  BY <1>5, RefuseStep, AdmitStep, FinishStep
<1>6. ASSUME NEW t, McpCall(t) PROVE AgInv'
  <2>1. PICK k \in 0..Len(chatTurns) : k = 0
    BY <1>1
  <2>2. executeTool(k, t, TRUE) /\ UNCHANGED <<tabs, threads, chatTurns, messages>>
    BY <1>6, <2>1 DEF McpCall
  <2> QED
    BY <2>1, <2>2, CallStep
<1>7. ASSUME \/ \E u \in TabOwners : \/ \E n \in 1..2 : McpPost(u, n)
                                     \/ \E r \in {"Member", "Partner", "gone"} : RoleEdited(u, r)
             \/ McpRefused \/ setEnabled \/ UNCHANGED agVars
      PROVE  AgInv'
  BY <1>2, <1>7 DEF McpPost, RoleEdited, McpRefused, setEnabled, agVars
<1> QED
  BY <1>3, <1>4, <1>5, <1>6, <1>7 DEF AgNext

(* chat/route.ts 158-331, AgentChat.tsx 217-289 and agent-threads.ts: a     *)
(* turn typed in an incognito window is on no record, and every other is    *)
(* kept in its author's own conversation, the one the window showed.        *)
THEOREM TurnsAsTypedHolds == AgSpec => []TurnsAsTyped
<1>1. AgInv => TurnsAsTyped
  <2> SUFFICES ASSUME AgInv PROVE NoTrace /\ KeptAsShown
    BY DEF TurnsAsTyped
  <2>1. TurnsKept /\ MessagesKept /\ TracesKept
    BY DEF AgInv
  <2>2. NoTrace
    <3> SUFFICES ASSUME NEW i \in DOMAIN chatTurns, chatTurns[i].secret
                 PROVE  /\ chatTurns[i].thread = NoConv
                        /\ \A m \in DOMAIN messages : messages[m].turn # i
                        /\ \A x \in toolCalls \union approvals : x.turn # i
                        /\ \A x \in posted : x.turn = i => x.tool = "calendar.pin_summary"
      BY DEF NoTrace
    <3>1. chatTurns[i].thread = NoConv
      BY <2>1 DEF TurnsKept, Kept
    <3>2. \A m \in DOMAIN messages : messages[m].turn # i
      BY <2>1, <3>1 DEF MessagesKept
    <3> QED
      BY <2>1, <3>1, <3>2 DEF TracesKept
  <2>3. KeptAsShown
    <3> SUFFICES ASSUME NEW m \in DOMAIN messages
                 PROVE  /\ messages[m].thread = chatTurns[messages[m].turn].shows
                        /\ threads[messages[m].thread] = chatTurns[messages[m].turn].by
      BY DEF KeptAsShown
    <3>1. /\ messages[m].turn \in DOMAIN chatTurns /\ messages[m].thread # NoConv
          /\ messages[m].thread = chatTurns[messages[m].turn].thread
      BY <2>1 DEF MessagesKept
    <3>2. Kept(chatTurns[messages[m].turn])
      BY <2>1, <3>1 DEF TurnsKept
    <3> QED
      BY <3>1, <3>2 DEF Kept
  <2> QED
    BY <2>2, <2>3
<1> QED
  BY <1>1, AgStart, AgStep, PTL DEF AgSpec

-----------------------------------------------------------------------------
(* Calendar: reminders and ticks.                                          *)

CachedEvents == UNION {[E -> calendarEvents] : E \in SUBSET (1..MaxEvents)}
RunningTick == [pc : {"row", "send"}, at : Nat, due : Seq(eventReminders), read : CachedEvents]
CalTicks == {NoTick} \union {k \in RunningTick : k.due # <<>>}

Notices == [ev : 1..MaxEvents, sub : Invited, at : Nat]
DeadlineReadings == [due : Starts \union {0}, who : SUBSET Invited, found : SUBSET (1..MaxEvents)]
Rounds == [start : Starts, subs : SUBSET Invited]
RowWriters ==
    [pc : {"reread"}, ev : 1..MaxEvents, rounds : Seq(Rounds)]
    \union {k \in [pc : {"rows"}, ev : 1..MaxEvents, rounds : Seq(Rounds)] : k.rounds # <<>>}
    \union [pc : {"insert"}, ev : 1..MaxEvents, rounds : Seq(Rounds), rows : SUBSET eventReminders]
    \union [pc : {"drop"}, ev : 1..MaxEvents, gone : BOOLEAN]
TaskSyncs ==
    [pc : {"idle", "delete"}] \union [pc : {"read"}, by : CalUsers]
    \union [pc : {"apply"}, by : CalUsers, read : DeadlineReadings] \union RowWriters
TaskRows ==
    [there : BOOLEAN, due : Starts \union {0}, raci : SUBSET Invited,
     assignee : Invited \union {NoOne}]

HasEvent == {"reread", "rows", "insert", "drop"}

CalType ==
    /\ clock \in Nat /\ twice \in BOOLEAN /\ overlap \in BOOLEAN
    /\ events \in Seq(calendarEvents) /\ Len(events) <= MaxEvents
    /\ reminders \subseteq eventReminders /\ reminded \subseteq Notices
    /\ ticks \in [Ticks -> CalTicks]
    /\ task \in TaskRows /\ syncs \in [Editors -> TaskSyncs]
    /\ \A s \in Editors : syncs[s].pc \in HasEvent => syncs[s].ev \in DOMAIN events
    /\ astray \in {"no", "hand", "twice"}

(* What a tick holds was due when it was read, is in its list once, and is  *)
(* marked before it is sent.                                               *)
RowsHeld ==
    \A t \in Ticks :
        /\ \A i \in DOMAIN ticks[t].due : ~ticks[t].due[i].sent /\ ticks[t].due[i].at <= clock
        /\ \A i, j \in DOMAIN ticks[t].due : ticks[t].due[i] = ticks[t].due[j] => i = j
        /\ ticks[t].pc = "send" => ticks[t].due[1] \notin reminders

(* A row is for an event there is.                                         *)
RowsKnown ==
    /\ \A r \in reminders : r.ev \in DOMAIN events
    /\ \A t \in Ticks : \A i \in DOMAIN ticks[t].due : ticks[t].due[i].ev \in DOMAIN events

Inserting(s) == syncs[s].pc = "insert"

(* What a request is about to insert is not there, and no tick holds it.   *)
RowsAhead ==
    \A s \in Editors : Inserting(s) =>
        \A w \in syncs[s].rows :
            /\ w.from = s /\ w.ev = syncs[s].ev /\ ~w.sent /\ w \notin reminders
            /\ \A t \in Ticks : \A i \in DOMAIN ticks[t].due : ticks[t].due[i] # w

ToldEarly == \A n \in reminded : n.at <= clock

(* While nothing overlaps: one tick runs, and has sent none of what it      *)
(* holds; there is one row for a notice, marked if that was sent; and what *)
(* is about to be inserted is for other notices.                           *)
OneTick ==
    ~overlap =>
        /\ ~twice
        /\ \A t, u \in Ticks : t # u => ticks[t].pc = "idle" \/ ticks[u].pc = "idle"
        /\ \A t \in Ticks : \A i \in DOMAIN ticks[t].due :
             /\ Notice(ticks[t].due[i]) \notin reminded
             /\ \A j \in DOMAIN ticks[t].due : Notice(ticks[t].due[i]) = Notice(ticks[t].due[j]) => i = j

OneRow ==
    ~overlap =>
        \A r \in reminders :
            /\ ~r.sent => Notice(r) \notin reminded
            /\ \A q \in reminders : Notice(q) = Notice(r) => q = r
            /\ \A t \in Ticks : \A i \in DOMAIN ticks[t].due :
                 ~r.sent /\ Notice(r) = Notice(ticks[t].due[i]) => r = ticks[t].due[i]

NewNotice ==
    ~overlap =>
        \A s \in Editors : Inserting(s) =>
            \A w \in syncs[s].rows :
                /\ Notice(w) \notin reminded
                /\ \A r \in reminders : Notice(r) # Notice(w)
                /\ \A t \in Ticks : \A i \in DOMAIN ticks[t].due : Notice(ticks[t].due[i]) # Notice(w)
                /\ \A o \in Editors \ {s} : Inserting(o) => \A v \in syncs[o].rows : Notice(v) # Notice(w)

RowInv == RowsHeld /\ RowsKnown /\ RowsAhead /\ ToldEarly /\ OneTick /\ OneRow /\ NewNotice
TickInv == CalType /\ RowInv

(* An event once linked stays linked, and unless two first syncs crossed    *)
(* there is one.                                                           *)
LinkedOnce ==
    /\ \A s \in Editors : syncs[s].pc = "apply" => syncs[s].read.found \subseteq Linked
    /\ astray # "twice" => \A e, f \in Linked : e = f

Syncing == \E s \in Editors : syncs[s].pc \in {"read", "apply"}

(* While nothing went astray: nothing stands for a task that is gone or is  *)
(* going, and the task is mirrored or will be read again.                   *)
MirrorKept ==
    astray = "no" =>
        /\ ~task.there \/ Deleting => OnCalendar = {}
        /\ task.there /\ ~Deleting => Mirrored \/ Syncing

MirrorInv == CalType /\ LinkedOnce /\ MirrorKept


(* Who is on an event.                                                     *)
LEMMA AttendanceOf ==
    /\ \A subs \in SUBSET Invited : [subs -> Responses] \subseteq Attendance
    /\ \A who \in Attendance : DOMAIN who \in SUBSET Invited /\ who \in [DOMAIN who -> Responses]
BY DEF Attendance

LEMMA EventOfType ==
    ASSUME CalType, NEW e \in DOMAIN events
    PROVE  /\ events[e] \in calendarEvents /\ e \in 1..MaxEvents /\ e \in 1..Len(events)
           /\ DOMAIN events[e].who \in SUBSET Invited
<1>1. events[e] \in calendarEvents /\ e \in 1..Len(events) /\ Len(events) \in Nat
  BY DEF CalType
<1>2. events[e].who \in Attendance
  BY <1>1 DEF calendarEvents
<1> QED
  BY <1>1, <1>2, AttendanceOf, CalendarAssumption DEF CalType

(* One event is written over.                                              *)
LEMMA EventWritten ==
    ASSUME CalType, NEW e \in DOMAIN events, NEW v \in calendarEvents,
           events' = [events EXCEPT ![e] = v]
    PROVE  /\ events' \in Seq(calendarEvents) /\ Len(events') <= MaxEvents
           /\ DOMAIN events' = DOMAIN events /\ events'[e] = v
           /\ \A f \in DOMAIN events \ {e} : events'[f] = events[f]
<1>1. events \in Seq(calendarEvents) /\ Len(events) \in Nat /\ Len(events) <= MaxEvents
  BY DEF CalType
<1>2. events \in [1..Len(events) -> calendarEvents] /\ e \in 1..Len(events)
  BY <1>1
<1>3. events' \in [1..Len(events) -> calendarEvents]
  BY <1>2
<1>4. events' \in Seq(calendarEvents)
  BY <1>1, <1>3
<1>5. Len(events') = Len(events)
  BY <1>1, <1>3, <1>4
<1> QED
  BY <1>1, <1>2, <1>4, <1>5

(* scheduleReminders writes only rows that lie ahead.                      *)
LEMMA RowsWritten ==
    ASSUME clock \in Nat, NEW s \in Editors, NEW e \in 1..MaxEvents,
           NEW start \in Starts, NEW subs \in SUBSET Invited
    PROVE  \A r \in scheduleReminders(s, e, start, subs) :
                r \in eventReminders /\ r.at > clock /\ r.ev = e /\ r.from = s /\ ~r.sent
<1> SUFFICES ASSUME NEW r \in scheduleReminders(s, e, start, subs)
             PROVE  r \in eventReminders /\ r.at > clock /\ r.ev = e /\ r.from = s /\ ~r.sent
  OBVIOUS
<1>1. PICK p \in {q \in subs : start > clock + Lead} :
            r = [ev |-> e, sub |-> p, at |-> start - Lead, sent |-> FALSE, from |-> s]
  BY DEF scheduleReminders
<1>2. p \in Invited /\ start \in Nat /\ Lead \in Nat /\ start > clock + Lead
  BY <1>1, CalendarAssumption
<1>3. start - Lead \in Nat /\ start - Lead > clock
  BY <1>2
<1> QED
  BY <1>1, <1>2, <1>3 DEF eventReminders

(* A request by its stage.                                                 *)
LEMMA SyncKinds ==
    ASSUME CalType, NEW s \in Editors
    PROVE  /\ syncs[s].pc \in {"idle", "read", "apply", "delete"} \union HasEvent
           /\ syncs[s].pc = "read" => syncs[s].by \in CalUsers
           /\ syncs[s].pc = "apply" => syncs[s].by \in CalUsers /\ syncs[s].read \in DeadlineReadings
           /\ syncs[s].pc \in HasEvent => syncs[s].ev \in 1..MaxEvents /\ syncs[s].ev \in DOMAIN events
           /\ syncs[s].pc \in {"reread", "rows", "insert"} => syncs[s].rounds \in Seq(Rounds)
           /\ syncs[s].pc = "rows" => syncs[s].rounds # <<>>
           /\ syncs[s].pc = "insert" => syncs[s].rows \subseteq eventReminders
           /\ syncs[s].pc = "drop" => syncs[s].gone \in BOOLEAN
<1>1. syncs[s] \in TaskSyncs
  BY DEF CalType
<1>2. syncs[s].pc \in {"idle", "read", "apply", "delete"} \union HasEvent
  BY <1>1 DEF TaskSyncs, RowWriters, HasEvent
<1>3. /\ syncs[s].pc = "read" => syncs[s].by \in CalUsers
      /\ syncs[s].pc = "apply" => syncs[s].by \in CalUsers /\ syncs[s].read \in DeadlineReadings
  BY <1>1 DEF TaskSyncs, RowWriters
<1>4. /\ syncs[s].pc \in HasEvent => syncs[s].ev \in 1..MaxEvents
      /\ syncs[s].pc = "drop" => syncs[s].gone \in BOOLEAN
  BY <1>1 DEF TaskSyncs, RowWriters, HasEvent
<1>5. /\ syncs[s].pc \in {"reread", "rows", "insert"} => syncs[s].rounds \in Seq(Rounds)
      /\ syncs[s].pc = "rows" => syncs[s].rounds # <<>>
      /\ syncs[s].pc = "insert" => syncs[s].rows \subseteq eventReminders
  BY <1>1 DEF TaskSyncs, RowWriters
<1> QED
  BY <1>2, <1>3, <1>4, <1>5 DEF CalType

(* Request s gets to a stage in which it has nothing to insert.            *)
SlotBecomes(s, v) ==
    /\ v \in TaskSyncs /\ v.pc # "insert" /\ syncs' = [syncs EXCEPT ![s] = v]
    /\ v.pc \in HasEvent => v.ev \in DOMAIN events'

LEMMA StageTypes ==
    ASSUME NEW e \in 1..MaxEvents, NEW rounds \in Seq(Rounds)
    PROVE  /\ Idle \in TaskSyncs /\ Idle.pc = "idle"
           /\ [pc |-> "delete"] \in TaskSyncs
           /\ [pc |-> "reread", ev |-> e, rounds |-> rounds] \in TaskSyncs
           /\ rounds # <<>> => [pc |-> "rows", ev |-> e, rounds |-> rounds] \in TaskSyncs
           /\ \A g \in BOOLEAN : [pc |-> "drop", ev |-> e, gone |-> g] \in TaskSyncs
BY DEF TaskSyncs, RowWriters, Idle

LEMMA ReschedulingStage ==
    ASSUME NEW s \in Editors, NEW e \in 1..MaxEvents, NEW rounds \in Seq(Rounds), e \in DOMAIN events',
           syncs' = Rescheduling(s, e, rounds)
    PROVE  \E v : SlotBecomes(s, v) /\ v.pc \in {"idle", "rows"}
<1>1. CASE rounds = <<>>
  <2>1. SlotBecomes(s, Idle)
    BY <1>1, StageTypes DEF SlotBecomes, Rescheduling, HasEvent
  <2> QED
    BY <2>1 DEF Idle
<1>2. CASE rounds # <<>>
  <2>1. PICK v : v = [pc |-> "rows", ev |-> e, rounds |-> rounds]
    OBVIOUS
  <2>2. v \in TaskSyncs /\ v.pc = "rows" /\ v.ev = e
    BY <1>2, <2>1, StageTypes
  <2>3. syncs' = [syncs EXCEPT ![s] = v]
    BY <1>2, <2>1 DEF Rescheduling
  <2> QED
    BY <2>2, <2>3 DEF SlotBecomes
<1> QED
  BY <1>1, <1>2

(* Events after an edit.                                                   *)
EventsWritten ==
    events' \in Seq(calendarEvents) /\ Len(events') <= MaxEvents /\ DOMAIN events \subseteq DOMAIN events'

LEMMA EventCreated ==
    ASSUME CalType, NEW s \in Editors, NEW kind \in {"meeting", "deadline"}, NEW by \in CalUsers,
           NEW start \in Starts, NEW guests \in SUBSET Invited, createEvent(s, kind, by, start, guests)
    PROVE  /\ EventsWritten
           /\ \E v : SlotBecomes(s, v) /\ v.pc \in {"idle", "rows"}
           /\ DOMAIN events' = DOMAIN events \union {Len(events) + 1}
           /\ Len(events) + 1 \notin DOMAIN events
           /\ \A e \in DOMAIN events : events'[e] = events[e]
           /\ events'[Len(events) + 1].kind = kind /\ events'[Len(events) + 1].start = start
           /\ events'[Len(events) + 1].status = "confirmed"
           /\ DOMAIN events'[Len(events) + 1].who = guests \union {by}
<1> DEFINE subs == guests \union {by}
           w == [p \in subs |-> IF p = by THEN "accepted" ELSE "needsAction"]
           v == [kind |-> kind, start |-> start, status |-> "confirmed", by |-> by, who |-> w]
           rounds == <<[start |-> start, subs |-> subs]>>
<1>1. subs \in SUBSET Invited
  BY DEF Invited
<1>2. w \in [subs -> Responses] /\ DOMAIN w = subs
  BY DEF Responses
<1>3. w \in Attendance
  BY <1>1, <1>2, AttendanceOf
<1>4. events' = Append(events, v) /\ Len(events) < MaxEvents
      /\ syncs' = Rescheduling(s, Len(events) + 1, rounds)
  BY DEF createEvent
<1>12. rounds \in Seq(Rounds)
  BY <1>1 DEF Rounds
<1> HIDE DEF w, rounds
<1>5. v \in calendarEvents /\ v.kind = kind /\ v.start = start /\ v.status = "confirmed" /\ v.who = w
  BY <1>3 DEF calendarEvents
<1> HIDE DEF v, subs
<1>6. events \in Seq(calendarEvents) /\ Len(events) \in Nat /\ MaxEvents \in Nat
  BY CalendarAssumption DEF CalType
<1>7. events' \in Seq(calendarEvents) /\ Len(events') = Len(events) + 1
      /\ events'[Len(events) + 1] = v
      /\ DOMAIN events' = 1..Len(events) + 1 /\ DOMAIN events = 1..Len(events)
      /\ \A e \in DOMAIN events : events'[e] = events[e]
  BY <1>4, <1>5, <1>6, AppendProperties
<1>8. Len(events) + 1 \in 1..MaxEvents /\ Len(events) + 1 \in DOMAIN events'
  BY <1>4, <1>6, <1>7
<1>9. \E u : SlotBecomes(s, u) /\ u.pc \in {"idle", "rows"}
  <2>1. PICK e : e = Len(events) + 1
    OBVIOUS
  <2> QED
    BY <1>4, <1>8, <1>12, <2>1, ReschedulingStage
<1>10. EventsWritten
  BY <1>4, <1>6, <1>7 DEF EventsWritten
<1>11. DOMAIN v.who = guests \union {by}
  BY <1>2, <1>5 DEF subs
<1> QED
  BY <1>5, <1>6, <1>7, <1>9, <1>10, <1>11

LEMMA EventCancelled ==
    ASSUME CalType, NEW s \in Editors, NEW e \in DOMAIN events, NEW gone \in BOOLEAN,
           cancelEvent(s, e, gone)
    PROVE  /\ EventsWritten /\ DOMAIN events' = DOMAIN events
           /\ \E v : SlotBecomes(s, v) /\ v.pc = "drop" /\ v.gone = gone
           /\ events'[e] = [events[e] EXCEPT !.status = "cancelled"]
           /\ \A f \in DOMAIN events \ {e} : events'[f] = events[f]
<1> DEFINE v == [events[e] EXCEPT !.status = "cancelled"]
<1>1. events[e] \in calendarEvents /\ e \in 1..MaxEvents
  BY EventOfType
<1>2. v \in calendarEvents
  BY <1>1 DEF calendarEvents
<1>3. events' = [events EXCEPT ![e] = v]
  BY DEF cancelEvent
<1> HIDE DEF v
<1>5. /\ events' \in Seq(calendarEvents) /\ Len(events') <= MaxEvents
      /\ DOMAIN events' = DOMAIN events /\ events'[e] = v
      /\ \A f \in DOMAIN events \ {e} : events'[f] = events[f]
  BY <1>2, <1>3, EventWritten
<1>6. PICK k : k = [pc |-> "drop", ev |-> e, gone |-> gone]
  OBVIOUS
<1>7. <<>> \in Seq(Rounds)
  OBVIOUS
<1>8. k \in TaskSyncs /\ k.pc = "drop" /\ k.gone = gone /\ k.ev = e
  BY <1>1, <1>6, <1>7, StageTypes
<1>9. syncs' = [syncs EXCEPT ![s] = k]
  BY <1>6 DEF cancelEvent
<1>10. SlotBecomes(s, k)
  BY <1>5, <1>8, <1>9 DEF SlotBecomes
<1> QED
  BY <1>5, <1>8, <1>10 DEF EventsWritten, v

LEMMA EventMoved ==
    ASSUME CalType, NEW s \in Editors, NEW e \in DOMAIN events, NEW v \in calendarEvents,
           NEW rounds \in Seq(Rounds), Rewritten(s, e, v, rounds)
    PROVE  /\ EventsWritten /\ DOMAIN events' = DOMAIN events /\ events'[e] = v
           /\ \A f \in DOMAIN events \ {e} : events'[f] = events[f]
           /\ \E k : SlotBecomes(s, k) /\ k.pc = "reread"
<1>1. e \in 1..MaxEvents
  BY EventOfType
<1>2. events' = [events EXCEPT ![e] = v]
  BY DEF Rewritten
<1>3. /\ events' \in Seq(calendarEvents) /\ Len(events') <= MaxEvents /\ DOMAIN events' = DOMAIN events
      /\ events'[e] = v /\ \A f \in DOMAIN events \ {e} : events'[f] = events[f]
  BY <1>2, EventWritten
<1>4. PICK k : k = [pc |-> "reread", ev |-> e, rounds |-> rounds]
  OBVIOUS
<1>5. k \in TaskSyncs /\ k.pc = "reread" /\ k.ev = e
  BY <1>1, <1>4, StageTypes
<1>6. syncs' = [syncs EXCEPT ![s] = k]
  BY <1>4 DEF Rewritten
<1> QED
  BY <1>3, <1>5, <1>6 DEF EventsWritten, SlotBecomes

-----------------------------------------------------------------------------
(* The rest of the type: what an edit of events and tasks leaves alone.    *)
TicksAside == UNCHANGED <<clock, reminders, ticks, reminded, twice, overlap>>

(* No request has come to have rows to insert.                             *)
NoneInserting == \A o \in Editors : syncs'[o].pc = "insert" => syncs'[o] = syncs[o]

LEMMA SlotOf ==
    ASSUME CalType, NEW s \in Editors, NEW v, SlotBecomes(s, v)
    PROVE  /\ syncs'[s] = v /\ \A o \in Editors \ {s} : syncs'[o] = syncs[o]
           /\ syncs' \in [Editors -> TaskSyncs] /\ NoneInserting
BY DEF CalType, SlotBecomes, NoneInserting

LEMMA TypeAside ==
    ASSUME CalType, TicksAside, EventsWritten, task' \in TaskRows, astray' \in {"no", "hand", "twice"},
           (\E s \in Editors : \E v : SlotBecomes(s, v)) \/ syncs' = syncs
    PROVE  CalType' /\ NoneInserting
<1>1. ASSUME syncs' \in [Editors -> TaskSyncs], NoneInserting,
             \A o \in Editors : syncs'[o].pc \in HasEvent => syncs'[o].ev \in DOMAIN events'
      PROVE  CalType' /\ NoneInserting
  BY <1>1 DEF CalType, TicksAside, EventsWritten
<1>2. CASE syncs' = syncs
  BY <1>1, <1>2 DEF CalType, EventsWritten, NoneInserting
<1>3. ASSUME NEW s \in Editors, NEW v, SlotBecomes(s, v) PROVE CalType' /\ NoneInserting
  <2>1. /\ syncs'[s] = v /\ \A o \in Editors \ {s} : syncs'[o] = syncs[o]
        /\ syncs' \in [Editors -> TaskSyncs] /\ NoneInserting
    BY <1>3, SlotOf
  <2>2. \A o \in Editors : syncs'[o].pc \in HasEvent => syncs'[o].ev \in DOMAIN events'
    BY <1>3, <2>1 DEF CalType, EventsWritten, SlotBecomes
  <2> QED
    BY <1>1, <2>1, <2>2
<1> QED
  BY <1>2, <1>3

LEMMA TaskAside ==
    ASSUME CalType, UNCHANGED events
    PROVE  EventsWritten
BY DEF CalType, EventsWritten

(* What an edit of an event by a member does: no slot of a sync is touched, *)
(* and none becomes one.                                                   *)
OfSync == {"read", "apply", "delete"}
RowsOnly(s, v) ==
    /\ syncs' = [syncs EXCEPT ![s] = v] /\ v.pc \notin OfSync /\ syncs[s].pc \notin OfSync
    /\ (v.pc = "drop" /\ v.gone) <=> (syncs[s].pc = "drop" /\ syncs[s].gone)

ByMember ==
    /\ CalType' /\ NoneInserting /\ TicksAside /\ UNCHANGED task
    /\ DOMAIN events \subseteq DOMAIN events'
    /\ (\E s \in Editors : \E v : RowsOnly(s, v)) \/ syncs' = syncs

(* The event written over keeps its kind.                                  *)
WrittenOver(e) ==
    /\ e \in DOMAIN events /\ DOMAIN events' = DOMAIN events
    /\ events'[e].kind = events[e].kind
    /\ \A f \in DOMAIN events \ {e} : events'[f] = events[f]

LEMMA ByHandType ==
    ASSUME CalType, NEW e, ByHand(e)
    PROVE  astray' \in {"no", "hand", "twice"}
BY DEF ByHand, CalType

LEMMA PostStep ==
    ASSUME CalType, NEW s \in Editors, NEW p \in CalUsers, NEW d \in Starts, NEW guests \in Asks,
           PostEvent(s, p, d, guests)
    PROVE  /\ ByMember /\ astray' = astray
           /\ \A e \in DOMAIN events : events'[e] = events[e]
           /\ \A e \in DOMAIN events' \ DOMAIN events : events'[e].kind = "meeting"
<1>1. guests \in SUBSET Invited
  BY DEF Invited
<1>2. createEvent(s, "meeting", p, d, guests) /\ TicksAside /\ UNCHANGED <<task, astray>>
      /\ syncs[s].pc = "idle"
  BY DEF PostEvent, TicksAside
<1>3. /\ EventsWritten
      /\ \E v : SlotBecomes(s, v) /\ v.pc \in {"idle", "rows"}
      /\ DOMAIN events' = DOMAIN events \union {Len(events) + 1}
      /\ Len(events) + 1 \notin DOMAIN events
      /\ \A e \in DOMAIN events : events'[e] = events[e]
      /\ events'[Len(events) + 1].kind = "meeting"
  BY <1>1, <1>2, EventCreated
<1>4. PICK v : SlotBecomes(s, v) /\ v.pc \in {"idle", "rows"}
  BY <1>3
<1>5. task' \in TaskRows /\ astray' \in {"no", "hand", "twice"}
  BY <1>2 DEF CalType
<1>6. CalType' /\ NoneInserting
  BY <1>2, <1>3, <1>4, <1>5, TypeAside
<1>7. RowsOnly(s, v)
  BY <1>2, <1>4 DEF RowsOnly, OfSync, SlotBecomes
<1> QED
  BY <1>2, <1>3, <1>6, <1>7 DEF ByMember

LEMMA UpdateStep ==
    ASSUME CalType, NEW s \in Editors, NEW p, NEW e \in DOMAIN events, NEW d \in Starts,
           updateEvent(s, p, e, d)
    PROVE  ByMember /\ ByHand(e) /\ WrittenOver(e)
<1> DEFINE v == [events[e] EXCEPT !.start = d]
<1>1. events[e] \in calendarEvents
  BY EventOfType
<1>2. v \in calendarEvents /\ v.kind = events[e].kind
  BY <1>1 DEF calendarEvents
<1>3. Rewritten(s, e, v, <<>>) /\ ByHand(e) /\ TicksAside /\ UNCHANGED task /\ syncs[s].pc = "idle"
  BY DEF updateEvent, TicksAside
<1>4. <<>> \in Seq(Rounds)
  OBVIOUS
<1> HIDE DEF v
<1>5. /\ EventsWritten /\ DOMAIN events' = DOMAIN events /\ events'[e] = v
      /\ \A f \in DOMAIN events \ {e} : events'[f] = events[f]
      /\ \E k : SlotBecomes(s, k) /\ k.pc = "reread"
  BY <1>2, <1>3, <1>4, EventMoved
<1>6. PICK k : SlotBecomes(s, k) /\ k.pc = "reread"
  BY <1>5
<1>7. task' \in TaskRows /\ astray' \in {"no", "hand", "twice"}
  BY <1>3, ByHandType DEF CalType
<1>8. CalType' /\ NoneInserting
  BY <1>3, <1>5, <1>6, <1>7, TypeAside
<1>9. RowsOnly(s, k)
  BY <1>3, <1>6 DEF RowsOnly, OfSync, SlotBecomes
<1> QED
  BY <1>2, <1>3, <1>5, <1>8, <1>9 DEF ByMember, WrittenOver

LEMMA StatusStep ==
    ASSUME CalType, NEW p, NEW e \in DOMAIN events, NEW x \in {"confirmed", "cancelled"},
           updateStatus(p, e, x)
    PROVE  ByMember /\ ByHand(e) /\ WrittenOver(e)
<1> DEFINE v == [events[e] EXCEPT !.status = x]
<1>1. events[e] \in calendarEvents
  BY EventOfType
<1>2. v \in calendarEvents /\ v.kind = events[e].kind
  BY <1>1 DEF calendarEvents
<1>3. events' = [events EXCEPT ![e] = v] /\ ByHand(e) /\ TicksAside /\ UNCHANGED <<task, syncs>>
  BY DEF updateStatus, TicksAside
<1> HIDE DEF v
<1>4. /\ events' \in Seq(calendarEvents) /\ Len(events') <= MaxEvents
      /\ DOMAIN events' = DOMAIN events /\ events'[e] = v
      /\ \A f \in DOMAIN events \ {e} : events'[f] = events[f]
  BY <1>2, <1>3, EventWritten
<1>5. EventsWritten
  BY <1>4 DEF EventsWritten
<1>6. task' \in TaskRows /\ astray' \in {"no", "hand", "twice"}
  BY <1>3, ByHandType DEF CalType
<1>7. CalType' /\ NoneInserting
  BY <1>3, <1>5, <1>6, TypeAside
<1> QED
  BY <1>2, <1>3, <1>4, <1>7 DEF ByMember, WrittenOver

LEMMA DeleteStep ==
    ASSUME CalType, NEW s \in Editors, NEW p, NEW e \in DOMAIN events, DeleteEvent(s, p, e)
    PROVE  ByMember /\ ByHand(e) /\ WrittenOver(e)
<1>1. cancelEvent(s, e, FALSE) /\ ByHand(e) /\ TicksAside /\ UNCHANGED task /\ syncs[s].pc = "idle"
  BY DEF DeleteEvent, TicksAside
<1>2. /\ EventsWritten /\ DOMAIN events' = DOMAIN events
      /\ \E v : SlotBecomes(s, v) /\ v.pc = "drop" /\ v.gone = FALSE
      /\ events'[e] = [events[e] EXCEPT !.status = "cancelled"]
      /\ \A f \in DOMAIN events \ {e} : events'[f] = events[f]
  BY <1>1, EventCancelled
<1>3. events'[e].kind = events[e].kind
  BY <1>2, EventOfType DEF calendarEvents
<1>4. PICK v : SlotBecomes(s, v) /\ v.pc = "drop" /\ v.gone = FALSE
  BY <1>2
<1>5. task' \in TaskRows /\ astray' \in {"no", "hand", "twice"}
  BY <1>1, ByHandType DEF CalType
<1>6. CalType' /\ NoneInserting
  BY <1>1, <1>2, <1>4, <1>5, TypeAside
<1>7. RowsOnly(s, v)
  BY <1>1, <1>4 DEF RowsOnly, OfSync, SlotBecomes
<1> QED
  BY <1>1, <1>2, <1>3, <1>6, <1>7 DEF ByMember, WrittenOver

LEMMA ResponseStep ==
    ASSUME CalType, NEW p, NEW e \in DOMAIN events, setAttendeeResponse(p, e, "declined")
    PROVE  ByMember /\ WrittenOver(e) /\ astray' = astray
           /\ events'[e].status = events[e].status /\ events'[e].start = events[e].start
           /\ DOMAIN events'[e].who = DOMAIN events[e].who
<1> DEFINE w == [events[e].who EXCEPT ![p] = "declined"]
           v == [events[e] EXCEPT !.who = w]
<1>1. events[e] \in calendarEvents /\ DOMAIN events[e].who \in SUBSET Invited
  BY EventOfType
<1>2. events[e].who \in [DOMAIN events[e].who -> Responses]
  BY <1>1, AttendanceOf DEF calendarEvents
<1>3. w \in [DOMAIN events[e].who -> Responses] /\ DOMAIN w = DOMAIN events[e].who
  BY <1>2 DEF Responses
<1>4. w \in Attendance
  BY <1>1, <1>3, AttendanceOf
<1>5. events' = [events EXCEPT ![e] = v] /\ TicksAside /\ UNCHANGED <<task, syncs, astray>>
  BY DEF setAttendeeResponse, TicksAside
<1> HIDE DEF w
<1>6. v \in calendarEvents /\ v.kind = events[e].kind /\ v.status = events[e].status
      /\ v.start = events[e].start /\ v.who = w
  BY <1>1, <1>4 DEF calendarEvents
<1> HIDE DEF v
<1>7. /\ events' \in Seq(calendarEvents) /\ Len(events') <= MaxEvents
      /\ DOMAIN events' = DOMAIN events /\ events'[e] = v
      /\ \A f \in DOMAIN events \ {e} : events'[f] = events[f]
  BY <1>5, <1>6, EventWritten
<1>8. EventsWritten
  BY <1>7 DEF EventsWritten
<1>9. task' \in TaskRows /\ astray' \in {"no", "hand", "twice"}
  BY <1>5 DEF CalType
<1>10. CalType' /\ NoneInserting
  BY <1>5, <1>8, <1>9, TypeAside
<1>11. DOMAIN v.who = DOMAIN events[e].who
  BY <1>3, <1>6
<1> QED
  BY <1>5, <1>6, <1>7, <1>10, <1>11 DEF ByMember, WrittenOver

-----------------------------------------------------------------------------
(* The mirror of a task.                                                   *)

(* Of the deadlines nothing changes that the mirror is about.              *)
DeadlinesAside ==
    /\ Linked' = Linked
    /\ \A e \in Linked : /\ events'[e].status = events[e].status
                         /\ events'[e].start = events[e].start
                         /\ DOMAIN events'[e].who = DOMAIN events[e].who

SyncsAside == (\E s \in Editors : \E v : RowsOnly(s, v)) \/ syncs' = syncs

LEMMA SyncsKept ==
    ASSUME CalType, SyncsAside
    PROVE  /\ \A s \in Editors : syncs'[s].pc = "apply" => syncs'[s] = syncs[s]
           /\ Deleting' <=> Deleting
           /\ Syncing' <=> Syncing
<1>1. CASE syncs' = syncs
  BY <1>1 DEF Deleting, Syncing
<1>2. ASSUME NEW s \in Editors, NEW v, RowsOnly(s, v)
      PROVE  /\ \A o \in Editors : syncs'[o].pc = "apply" => syncs'[o] = syncs[o]
             /\ Deleting' <=> Deleting
             /\ Syncing' <=> Syncing
  <2>1. syncs' = [syncs EXCEPT ![s] = v] /\ v.pc \notin OfSync /\ syncs[s].pc \notin OfSync
        /\ ((v.pc = "drop" /\ v.gone) <=> (syncs[s].pc = "drop" /\ syncs[s].gone))
    BY <1>2 DEF RowsOnly
  <2>2. syncs'[s] = v /\ \A o \in Editors \ {s} : syncs'[o] = syncs[o]
    BY <2>1 DEF CalType
  <2>3. \A o \in Editors : syncs'[o].pc = "apply" => syncs'[o] = syncs[o]
    BY <2>1, <2>2 DEF OfSync
  <2>4. Deleting' <=> Deleting
    BY <2>1, <2>2 DEF Deleting, OfSync
  <2>5. Syncing' <=> Syncing
    BY <2>1, <2>2 DEF Syncing, OfSync
  <2> QED
    BY <2>3, <2>4, <2>5
<1> QED
  BY <1>1, <1>2 DEF SyncsAside

LEMMA MirrorAside ==
    ASSUME CalType, LinkedOnce, MirrorKept, DeadlinesAside, UNCHANGED <<task, astray>>, SyncsAside
    PROVE  LinkedOnce' /\ MirrorKept'
<1>1. OnCalendar' = OnCalendar
  BY DEF DeadlinesAside, OnCalendar
<1>2. Mirrored' = Mirrored
  BY <1>1 DEF DeadlinesAside, Mirrored, Assigned
<1>3. /\ \A s \in Editors : syncs'[s].pc = "apply" => syncs'[s] = syncs[s]
      /\ Deleting' <=> Deleting
      /\ Syncing' <=> Syncing
  BY SyncsKept
<1>4. LinkedOnce'
  BY <1>3 DEF LinkedOnce, DeadlinesAside
<1>5. MirrorKept'
  BY <1>1, <1>2, <1>3 DEF MirrorKept
<1> QED
  BY <1>4, <1>5

(* Edits by hand are remembered, and meetings are none of the mirror's.    *)
LEMMA MirrorByHand ==
    ASSUME LinkedOnce, MirrorKept, CalType, NEW e, WrittenOver(e), ByHand(e), UNCHANGED task, SyncsAside
    PROVE  LinkedOnce' /\ MirrorKept'
<1>1. Linked' = Linked /\ e \in DOMAIN events
  BY DEF Linked, WrittenOver
<1>2. CASE events[e].kind = "deadline"
  <2>1. astray' # "no" /\ (astray = "twice" <=> astray' = "twice")
    BY <1>2 DEF ByHand, CalType
  <2>2. \A s \in Editors : syncs'[s].pc = "apply" => syncs'[s] = syncs[s]
    BY SyncsKept
  <2> QED
    BY <1>1, <2>1, <2>2 DEF LinkedOnce, MirrorKept
<1>3. CASE events[e].kind # "deadline"
  <2>1. astray' = astray
    BY <1>3 DEF ByHand
  <2>2. DeadlinesAside
    BY <1>1, <1>3 DEF DeadlinesAside, WrittenOver, Linked
  <2> QED
    BY <2>1, <2>2, MirrorAside
<1> QED
  BY <1>2, <1>3

LEMMA MemberMirror ==
    ASSUME MirrorInv,
           \/ \E s \in Editors, p \in CalUsers, d \in Starts, guests \in Asks : PostEvent(s, p, d, guests)
           \/ \E s \in Editors, p \in CalUsers, e \in DOMAIN events :
                (\E d \in Starts : updateEvent(s, p, e, d)) \/ DeleteEvent(s, p, e)
           \/ \E p \in CalUsers, e \in DOMAIN events :
                \/ (\E x \in {"confirmed", "cancelled"} : updateStatus(p, e, x))
                \/ setAttendeeResponse(p, e, "declined")
    PROVE  ByMember /\ MirrorInv'
<1>1. CalType /\ LinkedOnce /\ MirrorKept
  BY DEF MirrorInv
<1>2. ASSUME NEW s \in Editors, NEW p \in CalUsers, NEW d \in Starts, NEW guests \in Asks,
             PostEvent(s, p, d, guests)
      PROVE  ByMember /\ LinkedOnce' /\ MirrorKept'
  <2>1. /\ ByMember /\ astray' = astray
        /\ \A e \in DOMAIN events : events'[e] = events[e]
        /\ \A e \in DOMAIN events' \ DOMAIN events : events'[e].kind = "meeting"
    BY <1>1, <1>2, PostStep
  <2>2. DOMAIN events \subseteq DOMAIN events' /\ UNCHANGED task /\ SyncsAside
    BY <2>1 DEF ByMember, SyncsAside
  <2>3. DeadlinesAside
    BY <2>1, <2>2 DEF DeadlinesAside, Linked
  <2> QED
    BY <1>1, <2>1, <2>2, <2>3, MirrorAside
<1>3. ASSUME NEW e \in DOMAIN events, ByMember, ByHand(e), WrittenOver(e)
      PROVE  ByMember /\ LinkedOnce' /\ MirrorKept'
  <2>1. UNCHANGED task /\ SyncsAside
    BY <1>3 DEF ByMember, SyncsAside
  <2> QED
    BY <1>1, <1>3, <2>1, MirrorByHand
<1>4. ASSUME NEW s \in Editors, NEW p \in CalUsers, NEW e \in DOMAIN events,
             (\E d \in Starts : updateEvent(s, p, e, d)) \/ DeleteEvent(s, p, e)
      PROVE  ByMember /\ LinkedOnce' /\ MirrorKept'
  BY <1>1, <1>3, <1>4, UpdateStep, DeleteStep
<1>5. ASSUME NEW p \in CalUsers, NEW e \in DOMAIN events, NEW x \in {"confirmed", "cancelled"},
             updateStatus(p, e, x)
      PROVE  ByMember /\ LinkedOnce' /\ MirrorKept'
  BY <1>1, <1>3, <1>5, StatusStep
<1>6. ASSUME NEW p \in CalUsers, NEW e \in DOMAIN events, setAttendeeResponse(p, e, "declined")
      PROVE  ByMember /\ LinkedOnce' /\ MirrorKept'
  <2>1. ByMember /\ WrittenOver(e) /\ astray' = astray
        /\ events'[e].status = events[e].status /\ events'[e].start = events[e].start
        /\ DOMAIN events'[e].who = DOMAIN events[e].who
    BY <1>1, <1>6, ResponseStep
  <2>2. UNCHANGED task /\ SyncsAside
    BY <2>1 DEF ByMember, SyncsAside
  <2>3. DeadlinesAside
    BY <2>1 DEF DeadlinesAside, Linked, WrittenOver
  <2> QED
    BY <1>1, <2>1, <2>2, <2>3, MirrorAside
<1>7. ByMember /\ LinkedOnce' /\ MirrorKept'
  BY <1>2, <1>4, <1>5, <1>6
<1> QED
  BY <1>7 DEF MirrorInv, ByMember

-----------------------------------------------------------------------------
(* The task and its syncs.                                                 *)

(* A step of an edit leaves rows and ticks alone.                          *)
ByEditor == CalType' /\ NoneInserting /\ TicksAside /\ DOMAIN events \subseteq DOMAIN events'

LEMMA TaskChanged ==
    ASSUME MirrorInv, NEW s \in Editors, NEW by \in CalUsers, NEW new \in TaskRows,
           new.there, syncs[s].pc = "idle", task' = new,
           UNCHANGED <<events, astray>>, TicksAside,
           \/ syncs' = [syncs EXCEPT ![s] = [pc |-> "read", by |-> by]]
           \/ syncs' = syncs /\ Linked = {} /\ new.due = 0
    PROVE  ByEditor /\ MirrorInv'
<1>1. CalType /\ LinkedOnce /\ MirrorKept
  BY DEF MirrorInv
<1>2. PICK v : v = [pc |-> "read", by |-> by]
  OBVIOUS
<1>3. v \in TaskSyncs /\ v.pc = "read"
  BY <1>2 DEF TaskSyncs
<1>4. SlotBecomes(s, v) \/ (syncs' = syncs /\ Linked = {} /\ new.due = 0)
  BY <1>2, <1>3 DEF SlotBecomes, HasEvent
<1>5. CalType' /\ NoneInserting /\ EventsWritten
  BY <1>1, <1>4, TaskAside, TypeAside DEF CalType
<1>6. Linked' = Linked /\ OnCalendar' = OnCalendar
  BY DEF Linked, OnCalendar
<1>7. \A o \in Editors : syncs'[o] = syncs[o] \/ (o = s /\ syncs'[o].pc = "read")
  BY <1>1, <1>3, <1>4, SlotOf
<1>8. Deleting' <=> Deleting
  BY <1>7 DEF Deleting
<1>9. LinkedOnce'
  BY <1>1, <1>6, <1>7 DEF LinkedOnce
<1>10. Mirrored' \/ Syncing'
  <2>1. CASE SlotBecomes(s, v)
    <3>1. syncs'[s].pc = "read"
      BY <1>1, <1>3, <2>1, SlotOf
    <3> QED
      BY <3>1 DEF Syncing
  <2>2. CASE Linked = {} /\ new.due = 0
    BY <1>6, <2>2 DEF Mirrored, OnCalendar
  <2> QED
    BY <1>4, <2>1, <2>2
<1>11. MirrorKept'
  BY <1>1, <1>6, <1>8, <1>10 DEF MirrorKept
<1> QED
  BY <1>5, <1>9, <1>11 DEF MirrorInv, ByEditor, EventsWritten

LEMMA TaskStep ==
    ASSUME MirrorInv, NEW s \in Editors, NEW p \in CalUsers,
           \/ \E d \in Starts \union {0}, a \in Admins \union {NoOne} :
                createTask(s, p, d, a) \/ updateTask(s, p, d, a)
           \/ \E raci \in Asks : setTaskRaci(s, p, raci)
    PROVE  ByEditor /\ MirrorInv'
<1>1. CalType /\ task \in TaskRows
  BY DEF MirrorInv, CalType
<1>2. ASSUME NEW d \in Starts \union {0}, NEW a \in Admins \union {NoOne}, createTask(s, p, d, a)
      PROVE  ByEditor /\ MirrorInv'
  <2> DEFINE new == [there |-> TRUE, due |-> d, raci |-> {}, assignee |-> a]
  <2>1. new \in TaskRows /\ new.there /\ new.due = d
    BY DEF TaskRows, Invited
  <2>2. /\ task' = new /\ syncs[s].pc = "idle" /\ Linked = {}
        /\ UNCHANGED <<events, astray>> /\ TicksAside
        /\ syncs' = IF d = 0 THEN syncs ELSE [syncs EXCEPT ![s] = [pc |-> "read", by |-> p]]
    BY <1>2 DEF createTask, TicksAside
  <2> HIDE DEF new
  <2> QED
    BY <2>1, <2>2, TaskChanged
<1>3. ASSUME NEW new \in TaskRows, new.there = task.there, TaskWritten(s, p, new)
      PROVE  ByEditor /\ MirrorInv'
  <2>1. /\ task' = new /\ new.there /\ syncs[s].pc = "idle"
        /\ UNCHANGED <<events, astray>> /\ TicksAside
        /\ syncs' = [syncs EXCEPT ![s] = [pc |-> "read", by |-> p]]
    BY <1>3 DEF TaskWritten, TicksAside
  <2> QED
    BY <2>1, TaskChanged
<1>4. ASSUME NEW d \in Starts \union {0}, NEW a \in Admins \union {NoOne}, updateTask(s, p, d, a)
      PROVE  ByEditor /\ MirrorInv'
  <2> DEFINE new == [task EXCEPT !.due = d, !.assignee = a]
  <2>1. new \in TaskRows /\ new.there = task.there
    BY <1>1 DEF TaskRows, Invited
  <2>2. TaskWritten(s, p, new)
    BY <1>4 DEF updateTask
  <2> HIDE DEF new
  <2> QED
    BY <1>3, <2>1, <2>2
<1>5. ASSUME NEW raci \in Asks, setTaskRaci(s, p, raci) PROVE ByEditor /\ MirrorInv'
  <2> DEFINE new == [task EXCEPT !.raci = raci]
  <2>1. raci \in SUBSET Invited
    BY DEF Invited
  <2>2. new \in TaskRows /\ new.there = task.there
    BY <1>1, <2>1 DEF TaskRows
  <2>3. TaskWritten(s, p, new)
    BY <1>5 DEF setTaskRaci
  <2> HIDE DEF new
  <2> QED
    BY <1>3, <2>2, <2>3
<1> QED
  BY <1>2, <1>4, <1>5

(* The sync reads the task, or finds it gone.                              *)
LEMMA ReadTaskStep ==
    ASSUME MirrorInv, NEW s \in Editors, syncTaskDeadline(s)
    PROVE  ByEditor /\ MirrorInv'
<1> DEFINE v == IF task.there THEN [pc |-> "apply", by |-> syncs[s].by, read |-> Reads] ELSE Idle
<1>1. CalType /\ LinkedOnce /\ MirrorKept
  BY DEF MirrorInv
<1>2. /\ syncs[s].pc = "read" /\ syncs' = [syncs EXCEPT ![s] = v]
      /\ UNCHANGED <<events, task, astray>> /\ TicksAside
  BY DEF syncTaskDeadline, TicksAside
<1>3. Reads \in DeadlineReadings /\ Reads.found = Linked
  <2>1. task \in TaskRows /\ Linked \in SUBSET (1..MaxEvents)
    BY <1>1, EventOfType DEF CalType, Linked
  <2>2. Assigned \in SUBSET Invited
    BY <2>1 DEF Assigned, TaskRows
  <2> QED
    BY <2>1, <2>2 DEF Reads, DeadlineReadings, TaskRows
<1>4. v \in TaskSyncs /\ v.pc = (IF task.there THEN "apply" ELSE "idle")
      /\ (task.there => v.read = Reads)
  BY <1>1, <1>2, <1>3, SyncKinds DEF TaskSyncs, Idle
<1> HIDE DEF v
<1>5. SlotBecomes(s, v)
  BY <1>2, <1>4 DEF SlotBecomes, HasEvent
<1>6. CalType' /\ NoneInserting /\ EventsWritten
  BY <1>1, <1>2, <1>5, TaskAside, TypeAside DEF CalType
<1>7. Linked' = Linked /\ OnCalendar' = OnCalendar /\ Mirrored' = Mirrored
  BY <1>2 DEF Linked, OnCalendar, Mirrored, Assigned
<1>8. syncs'[s] = v /\ \A o \in Editors \ {s} : syncs'[o] = syncs[o]
  BY <1>1, <1>5, SlotOf
<1>9. Deleting' <=> Deleting
  BY <1>2, <1>4, <1>8 DEF Deleting
<1>10. task.there => Syncing'
  BY <1>4, <1>8 DEF Syncing
<1>11. LinkedOnce'
  BY <1>1, <1>2, <1>3, <1>4, <1>7, <1>8 DEF LinkedOnce
<1>12. MirrorKept'
  BY <1>1, <1>2, <1>7, <1>9, <1>10 DEF MirrorKept
<1> QED
  BY <1>2, <1>6, <1>11, <1>12 DEF MirrorInv, ByEditor, EventsWritten

LEMMA SyncFailsStep ==
    ASSUME MirrorInv, NEW s \in Editors, SyncFails(s)
    PROVE  ByEditor /\ MirrorInv'
<1>1. CalType /\ LinkedOnce /\ MirrorKept
  BY DEF MirrorInv
<1>2. /\ UNCHANGED <<events, task>> /\ TicksAside /\ syncs[s].pc # "idle"
      /\ astray' = IF astray = "twice" \/ syncs[s].pc \in {"reread", "rows", "insert"} THEN astray
                    ELSE "hand"
  BY DEF SyncFails, TicksAside
<1>3. PICK v : /\ v = Idle \/ (v = [pc |-> "delete"] /\ syncs[s].pc = "drop")
               /\ syncs' = [syncs EXCEPT ![s] = v]
  BY DEF SyncFails
<1>4. v \in TaskSyncs /\ v.pc \in {"idle", "delete"} /\ (v.pc = "delete" => syncs[s].pc = "drop")
  BY <1>3 DEF TaskSyncs, Idle
<1>5. SlotBecomes(s, v)
  BY <1>3, <1>4 DEF SlotBecomes, HasEvent
<1>6. astray' \in {"no", "hand", "twice"} /\ (astray' = "twice" <=> astray = "twice")
  BY <1>1, <1>2 DEF CalType
<1>7. CalType' /\ NoneInserting /\ EventsWritten
  BY <1>1, <1>2, <1>5, <1>6, TaskAside, TypeAside DEF CalType
<1>8. Linked' = Linked
  BY <1>2 DEF Linked
<1>9. LinkedOnce' /\ MirrorKept'
  <2>1. CASE astray' # "no"
    <3>1. syncs'[s] = v /\ \A o \in Editors \ {s} : syncs'[o] = syncs[o]
      BY <1>1, <1>5, SlotOf
    <3> QED
      BY <1>1, <1>4, <1>6, <1>8, <2>1, <3>1 DEF LinkedOnce, MirrorKept
  <2>2. CASE astray' = "no"
    <3>1. syncs[s].pc \in {"reread", "rows", "insert"} /\ astray' = astray
      BY <1>2, <2>2
    <3>2. RowsOnly(s, v)
      BY <1>4, <1>5, <3>1 DEF RowsOnly, OfSync, SlotBecomes
    <3>3. DeadlinesAside
      BY <1>2, <1>8 DEF DeadlinesAside
    <3> QED
      BY <1>1, <1>2, <3>1, <3>2, <3>3, MirrorAside DEF SyncsAside
  <2> QED
    BY <2>1, <2>2
<1> QED
  BY <1>2, <1>7, <1>9 DEF MirrorInv, ByEditor, EventsWritten

(* The steps that write reminder rows are none of the mirror's.            *)
LEMMA RowsMirror ==
    ASSUME MirrorInv, CalType', UNCHANGED <<events, task, astray>>, SyncsAside
    PROVE  MirrorInv'
<1>1. Linked' = Linked
  BY DEF Linked
<1>2. DeadlinesAside
  BY <1>1 DEF DeadlinesAside
<1> QED
  BY <1>2, MirrorAside DEF MirrorInv

(* What is cancelled stands no more; nothing else is linked.               *)
LEMMA CancelledMirror ==
    ASSUME CalType, LinkedOnce, NEW s \in Editors, NEW e \in Linked, NEW gone \in BOOLEAN,
           cancelEvent(s, e, gone)
    PROVE  /\ EventsWritten /\ Linked' = Linked /\ (astray # "twice" => OnCalendar' = {})
           /\ \E v : SlotBecomes(s, v) /\ v.pc = "drop" /\ v.gone = gone
<1>1. e \in DOMAIN events
  BY DEF Linked
<1>2. /\ EventsWritten /\ DOMAIN events' = DOMAIN events
      /\ \E v : SlotBecomes(s, v) /\ v.pc = "drop" /\ v.gone = gone
      /\ events'[e] = [events[e] EXCEPT !.status = "cancelled"]
      /\ \A f \in DOMAIN events \ {e} : events'[f] = events[f]
  BY <1>1, EventCancelled
<1>3. events[e] \in calendarEvents
  BY <1>1, EventOfType
<1>4. events'[e].kind = events[e].kind /\ events'[e].status = "cancelled"
  BY <1>2, <1>3 DEF calendarEvents
<1>5. Linked' = Linked
  BY <1>1, <1>2, <1>4 DEF Linked
<1>6. astray # "twice" => Linked = {e}
  BY DEF LinkedOnce
<1> QED
  BY <1>2, <1>4, <1>5, <1>6 DEF OnCalendar

LEMMA DeleteTaskStep ==
    ASSUME MirrorInv, NEW s \in Editors, deleteTask(s)
    PROVE  ByEditor /\ MirrorInv'
<1>1. CalType /\ LinkedOnce /\ MirrorKept
  BY DEF MirrorInv
<1>2. syncs[s].pc = "idle" /\ task.there /\ UNCHANGED task /\ TicksAside
  BY DEF deleteTask, TicksAside
<1>3. PICK v : /\ SlotBecomes(s, v) /\ v.pc \in {"drop", "delete"} /\ (v.pc = "drop" => v.gone = TRUE)
               /\ EventsWritten /\ Linked' = Linked
               /\ astray' \in {"no", "hand", "twice"} /\ (astray' = "twice" <=> astray = "twice")
               /\ astray' = "no" => OnCalendar' = {}
  <2>1. ASSUME NEW e \in Linked, cancelEvent(s, e, TRUE), UNCHANGED astray
        PROVE  \E v : /\ SlotBecomes(s, v) /\ v.pc \in {"drop", "delete"} /\ (v.pc = "drop" => v.gone = TRUE)
                      /\ EventsWritten /\ Linked' = Linked
                      /\ astray' \in {"no", "hand", "twice"} /\ (astray' = "twice" <=> astray = "twice")
                      /\ astray' = "no" => OnCalendar' = {}
    <3>1. /\ EventsWritten /\ Linked' = Linked /\ (astray # "twice" => OnCalendar' = {})
          /\ \E v : SlotBecomes(s, v) /\ v.pc = "drop" /\ v.gone = TRUE
      BY <1>1, <2>1, CancelledMirror
    <3>2. astray' \in {"no", "hand", "twice"}
      BY <1>1, <2>1 DEF CalType
    <3> QED
      BY <2>1, <3>1, <3>2
  <2>2. ASSUME UNCHANGED events, syncs' = [syncs EXCEPT ![s] = [pc |-> "delete"]],
               astray' = IF Linked = {} \/ astray = "twice" THEN astray ELSE "hand"
        PROVE  \E v : /\ SlotBecomes(s, v) /\ v.pc \in {"drop", "delete"} /\ (v.pc = "drop" => v.gone = TRUE)
                      /\ EventsWritten /\ Linked' = Linked
                      /\ astray' \in {"no", "hand", "twice"} /\ (astray' = "twice" <=> astray = "twice")
                      /\ astray' = "no" => OnCalendar' = {}
    <3>1. PICK v : v = [pc |-> "delete"]
      OBVIOUS
    <3>2. v \in TaskSyncs /\ v.pc = "delete"
      BY <3>1 DEF TaskSyncs
    <3>3. SlotBecomes(s, v)
      BY <2>2, <3>1, <3>2 DEF SlotBecomes, HasEvent
    <3>4. EventsWritten /\ Linked' = Linked /\ OnCalendar' = OnCalendar
      BY <1>1, <2>2, TaskAside DEF Linked, OnCalendar
    <3>5. astray' \in {"no", "hand", "twice"} /\ (astray' = "twice" <=> astray = "twice")
          /\ (astray' = "no" => Linked = {})
      BY <1>1, <2>2 DEF CalType
    <3>6. Linked = {} => OnCalendar = {}
      BY DEF OnCalendar
    <3> QED
      BY <3>2, <3>3, <3>4, <3>5, <3>6
  <2> QED
    BY <2>1, <2>2 DEF deleteTask
<1>5. CalType' /\ NoneInserting
  BY <1>1, <1>2, <1>3, TypeAside DEF CalType
<1>6. syncs'[s] = v /\ \A o \in Editors \ {s} : syncs'[o] = syncs[o]
  BY <1>1, <1>3, SlotOf
<1>7. Deleting'
  BY <1>3, <1>6 DEF Deleting
<1>8. LinkedOnce'
  BY <1>1, <1>2, <1>3, <1>6 DEF LinkedOnce
<1>9. MirrorKept'
  BY <1>3, <1>7 DEF MirrorKept
<1> QED
  BY <1>2, <1>3, <1>5, <1>8, <1>9 DEF MirrorInv, ByEditor, EventsWritten

LEMMA TaskDeletedStep ==
    ASSUME MirrorInv, NEW s \in Editors, TaskDeleted(s)
    PROVE  ByEditor /\ MirrorInv'
<1>1. CalType /\ LinkedOnce /\ MirrorKept
  BY DEF MirrorInv
<1>2. /\ syncs[s].pc = "delete" /\ syncs' = [syncs EXCEPT ![s] = Idle]
      /\ task' = [there |-> FALSE, due |-> 0, raci |-> {}, assignee |-> NoOne]
      /\ UNCHANGED <<events, astray>> /\ TicksAside
  BY DEF TaskDeleted, TicksAside
<1>3. Idle \in TaskSyncs /\ Idle.pc = "idle"
  BY DEF TaskSyncs, Idle
<1>4. task' \in TaskRows /\ ~task'.there
  BY <1>2 DEF TaskRows
<1>5. SlotBecomes(s, Idle)
  BY <1>2, <1>3 DEF SlotBecomes, HasEvent
<1>6. CalType' /\ NoneInserting /\ EventsWritten
  BY <1>1, <1>2, <1>4, <1>5, TaskAside, TypeAside DEF CalType
<1>7. Linked' = Linked /\ OnCalendar' = OnCalendar
  BY <1>2 DEF Linked, OnCalendar
<1>8. syncs'[s] = Idle /\ \A o \in Editors \ {s} : syncs'[o] = syncs[o]
  BY <1>1, <1>5, SlotOf
<1>9. Deleting
  BY <1>2 DEF Deleting
<1>10. LinkedOnce' /\ MirrorKept'
  BY <1>1, <1>2, <1>3, <1>4, <1>7, <1>8, <1>9 DEF LinkedOnce, MirrorKept
<1> QED
  BY <1>2, <1>6, <1>10 DEF MirrorInv, ByEditor, EventsWritten

-----------------------------------------------------------------------------
(* upsertTaskDeadline.                                                     *)

(* The reading stands for the task as it is when it is written.            *)
LEMMA StraightWrite ==
    ASSUME CalType, NEW s \in Editors, Crossed(s), astray' = "no"
    PROVE  /\ astray # "twice" /\ task.there /\ ~Deleting /\ syncs[s].read = Reads
BY DEF Crossed, CalType

LEMMA OneLink ==
    ASSUME CalType, NEW s \in Editors, Crossed(s), astray' # "twice"
    PROVE  /\ astray # "twice"
           /\ syncs[s].read.found = {} /\ syncs[s].read.due # 0 => Linked = {}
BY DEF Crossed, CalType

(* The event is written as the task was read.                              *)
LEMMA ReconfirmStep ==
    ASSUME CalType, LinkedOnce, NEW s \in Editors, NEW e \in Linked, NEW due \in Starts,
           NEW who \in SUBSET Invited, NEW rounds \in Seq(Rounds),
           Rewritten(s, e, Reconfirmed(events[e], due, who), rounds)
    PROVE  /\ EventsWritten /\ Linked' = Linked
           /\ astray # "twice" => OnCalendar' = {e}
           /\ events'[e].start = due /\ DOMAIN events'[e].who = who
           /\ \E k : SlotBecomes(s, k) /\ k.pc = "reread"
<1> DEFINE w == [p \in who |-> "needsAction"]
           v == Reconfirmed(events[e], due, who)
<1>1. e \in DOMAIN events /\ events[e] \in calendarEvents
  BY EventOfType DEF Linked
<1>2. w \in [who -> Responses] /\ DOMAIN w = who
  BY DEF Responses
<1>3. w \in Attendance
  BY <1>2, AttendanceOf
<1>4. v = [events[e] EXCEPT !.start = due, !.status = "confirmed", !.who = w]
  BY DEF Reconfirmed
<1> HIDE DEF w
<1>5. v \in calendarEvents /\ v.kind = events[e].kind /\ v.status = "confirmed" /\ v.start = due /\ v.who = w
  BY <1>1, <1>3, <1>4 DEF calendarEvents
<1>6. Rewritten(s, e, v, rounds)
  OBVIOUS
<1> HIDE DEF v
<1>8. /\ EventsWritten /\ DOMAIN events' = DOMAIN events /\ events'[e] = v
      /\ \A f \in DOMAIN events \ {e} : events'[f] = events[f]
      /\ \E k : SlotBecomes(s, k) /\ k.pc = "reread"
  BY <1>1, <1>5, <1>6, EventMoved
<1>9. Linked' = Linked
  BY <1>1, <1>5, <1>8 DEF Linked
<1>10. astray # "twice" => Linked = {e}
  BY DEF LinkedOnce
<1> QED
  BY <1>2, <1>5, <1>8, <1>9, <1>10 DEF OnCalendar

(* What becomes of the request that wrote the event.                       *)
Goes(s) == \E v : SlotBecomes(s, v) /\ v.pc \in {"idle", "rows", "reread", "drop"} /\ (v.pc = "drop" => ~v.gone)

(* What the upsert writes, and what it leaves when nothing crossed.        *)
LEMMA UpsertWrites ==
    ASSUME MirrorInv, NEW s \in Editors, upsertTaskDeadline(s)
    PROVE  /\ EventsWritten /\ Goes(s) /\ Linked \subseteq Linked'
           /\ astray' # "twice" => \A e, f \in Linked' : e = f
           /\ astray' = "no" => Mirrored'
<1> DEFINE read == syncs[s].read
<1>1. CalType /\ LinkedOnce
  BY DEF MirrorInv
<1>2. syncs[s].pc = "apply" /\ Crossed(s) /\ UNCHANGED task
  BY DEF upsertTaskDeadline
<1>3. read \in DeadlineReadings /\ syncs[s].by \in CalUsers /\ read.found \subseteq Linked
  BY <1>1, <1>2, SyncKinds DEF LinkedOnce
<1>4. astray' = "no" => /\ astray # "twice" /\ task.there /\ read.due = task.due
                        /\ read.found = Linked /\ read.who = Assigned
  BY <1>1, <1>2, StraightWrite DEF Reads
<1>5. astray' # "twice" => astray # "twice" /\ (read.found = {} /\ read.due # 0 => Linked = {})
  BY <1>1, <1>2, OneLink
<1>6. read.due \in Starts \union {0} /\ read.who \in SUBSET Invited /\ Assigned' = Assigned
  BY <1>2, <1>3 DEF DeadlineReadings, Assigned
<1>7. CASE read.found = {} /\ read.due = 0
  <2>1. UNCHANGED events /\ syncs' = [syncs EXCEPT ![s] = Idle]
    BY <1>7 DEF upsertTaskDeadline
  <2>2. EventsWritten /\ Linked' = Linked /\ OnCalendar' = OnCalendar
    BY <1>1, <2>1, TaskAside DEF Linked, OnCalendar
  <2>3. astray' = "no" => Mirrored'
    BY <1>2, <1>4, <1>7, <2>2 DEF Mirrored, OnCalendar
  <2>4. Goes(s)
    <3>1. Idle \in TaskSyncs /\ Idle.pc = "idle"
      BY DEF TaskSyncs, Idle
    <3>2. SlotBecomes(s, Idle)
      BY <2>1, <3>1 DEF SlotBecomes, HasEvent
    <3> QED
      BY <3>1, <3>2 DEF Goes
  <2> QED
    BY <1>1, <1>5, <2>2, <2>3, <2>4 DEF LinkedOnce
<1>8. CASE read.found = {} /\ read.due # 0
  <2> DEFINE n == Len(events) + 1
  <2>0. PICK by \in CalUsers, due \in Starts, who \in SUBSET Invited :
            by = syncs[s].by /\ due = read.due /\ who = read.who
    BY <1>3, <1>6, <1>8
  <2>1. createEvent(s, "deadline", by, due, who)
    BY <1>8, <2>0 DEF upsertTaskDeadline
  <2>2. /\ EventsWritten
        /\ \E v : SlotBecomes(s, v) /\ v.pc \in {"idle", "rows"}
        /\ DOMAIN events' = DOMAIN events \union {n} /\ n \notin DOMAIN events
        /\ \A e \in DOMAIN events : events'[e] = events[e]
        /\ events'[n].kind = "deadline" /\ events'[n].start = due
        /\ events'[n].status = "confirmed" /\ DOMAIN events'[n].who = who \union {by}
    BY <1>1, <2>1, EventCreated
  <2> HIDE DEF n
  <2>3. Linked' = Linked \union {n}
    BY <2>2 DEF Linked
  <2>4. astray' # "twice" => Linked' = {n} /\ OnCalendar' = {n}
    BY <1>5, <1>8, <2>2, <2>3 DEF OnCalendar
  <2>5. astray' = "no" => Mirrored'
    BY <1>2, <1>4, <1>6, <1>8, <2>0, <2>2, <2>3, <2>4 DEF Mirrored
  <2>6. Goes(s)
    BY <2>2 DEF Goes
  <2> QED
    BY <2>2, <2>3, <2>4, <2>5, <2>6
<1>9. CASE read.found # {} /\ read.due = 0
  <2>1. PICK e \in read.found : cancelEvent(s, e, FALSE)
    BY <1>9 DEF upsertTaskDeadline
  <2>2. /\ EventsWritten /\ Linked' = Linked /\ (astray # "twice" => OnCalendar' = {})
        /\ \E v : SlotBecomes(s, v) /\ v.pc = "drop" /\ v.gone = FALSE
    BY <1>1, <1>3, <2>1, CancelledMirror
  <2>3. astray' = "no" => Mirrored'
    BY <1>2, <1>4, <1>9, <2>2 DEF Mirrored
  <2>4. Goes(s)
    BY <2>2 DEF Goes
  <2> QED
    BY <1>1, <1>5, <2>2, <2>3, <2>4 DEF LinkedOnce
<1>10. CASE read.found # {} /\ read.due # 0
  <2>1. PICK e \in read.found :
            Rewritten(s, e, Reconfirmed(events[e], read.due, read.who),
                  <<[start |-> read.due, subs |-> read.who]>>)
    BY <1>10 DEF upsertTaskDeadline
  <2>2. PICK due \in Starts, who \in SUBSET Invited : due = read.due /\ who = read.who
    BY <1>6, <1>10
  <2>6. e \in Linked
    BY <1>3, <2>1
  <2>7. PICK rounds \in Seq(Rounds) : rounds = <<[start |-> due, subs |-> who]>>
    <3>1. PICK round : round = [start |-> due, subs |-> who]
      OBVIOUS
    <3>2. round \in Rounds
      BY <3>1 DEF Rounds
    <3>3. <<round>> \in Seq(Rounds)
      BY <3>2
    <3> QED
      BY <3>1, <3>3
  <2>5. Rewritten(s, e, Reconfirmed(events[e], due, who), rounds)
    BY <2>1, <2>2, <2>7
  <2>3. /\ EventsWritten /\ Linked' = Linked
        /\ astray # "twice" => OnCalendar' = {e}
        /\ events'[e].start = due /\ DOMAIN events'[e].who = who
        /\ \E k : SlotBecomes(s, k) /\ k.pc = "reread"
    BY <1>1, <2>5, <2>6, ReconfirmStep
  <2>4. astray' = "no" => Mirrored'
    BY <1>2, <1>4, <1>6, <1>10, <2>2, <2>3 DEF Mirrored
  <2>8. Goes(s)
    BY <2>3 DEF Goes
  <2> QED
    BY <1>1, <1>5, <2>3, <2>4, <2>8 DEF LinkedOnce
<1> QED
  BY <1>7, <1>8, <1>9, <1>10

LEMMA UpsertStep ==
    ASSUME MirrorInv, NEW s \in Editors, upsertTaskDeadline(s)
    PROVE  ByEditor /\ MirrorInv'
<1>1. CalType /\ LinkedOnce /\ MirrorKept
  BY DEF MirrorInv
<1>2. UNCHANGED task /\ TicksAside /\ Crossed(s)
  BY DEF upsertTaskDeadline, TicksAside
<1>3. /\ EventsWritten /\ Goes(s) /\ Linked \subseteq Linked'
      /\ astray' # "twice" => \A e, f \in Linked' : e = f
      /\ astray' = "no" => Mirrored'
  BY UpsertWrites
<1>4. PICK v : SlotBecomes(s, v) /\ v.pc \in {"idle", "rows", "reread", "drop"} /\ (v.pc = "drop" => ~v.gone)
  BY <1>3 DEF Goes
<1>5. astray' \in {"no", "hand", "twice"}
  BY <1>2 DEF Crossed
<1>6. CalType' /\ NoneInserting
  BY <1>1, <1>2, <1>3, <1>4, <1>5, TypeAside DEF CalType
<1>7. syncs'[s] = v /\ \A o \in Editors \ {s} : syncs'[o] = syncs[o]
  BY <1>1, <1>4, SlotOf
<1>8. LinkedOnce'
  BY <1>1, <1>3, <1>4, <1>7 DEF LinkedOnce
<1>9. astray' = "no" => task'.there /\ ~Deleting'
  BY <1>1, <1>2, <1>4, <1>7, StraightWrite DEF Deleting
<1>10. MirrorKept'
  BY <1>3, <1>9 DEF MirrorKept
<1> QED
  BY <1>2, <1>3, <1>6, <1>8, <1>10 DEF MirrorInv, ByEditor, EventsWritten

-----------------------------------------------------------------------------
(* Requests that write reminder rows.                                      *)

(* The rows and who holds them stay: nothing is told of anew.              *)
LEMMA RemindersAside ==
    ASSUME TickInv, TicksAside, NoneInserting, DOMAIN events \subseteq DOMAIN events'
    PROVE  RowInv'
<1>1. RowsHeld /\ RowsKnown /\ RowsAhead /\ ToldEarly /\ OneTick /\ OneRow /\ NewNotice
  BY DEF TickInv, RowInv
<1>2. UNCHANGED <<clock, reminders, ticks, reminded, twice, overlap>>
  BY DEF TicksAside
<1>3. \A o \in Editors : syncs'[o].pc = "insert" => syncs'[o] = syncs[o]
  BY DEF NoneInserting
<1>4. RowsHeld' /\ RowsKnown' /\ ToldEarly' /\ OneTick' /\ OneRow'
  BY <1>1, <1>2 DEF RowsHeld, RowsKnown, ToldEarly, OneTick, OneRow
<1>5. RowsAhead'
  BY <1>1, <1>2, <1>3 DEF RowsAhead, Inserting
<1>6. NewNotice'
  BY <1>1, <1>2, <1>3 DEF NewNotice, Inserting
<1> QED
  BY <1>4, <1>5, <1>6 DEF RowInv

(* What of the rows a request that writes them leaves alone.               *)
RowsEdited(s, v) ==
    /\ v \in TaskSyncs /\ (v.pc \in HasEvent => v.ev \in DOMAIN events)
    /\ syncs' = [syncs EXCEPT ![s] = v]
    /\ reminders' \subseteq eventReminders /\ overlap' \in BOOLEAN /\ (overlap => overlap')
    /\ UNCHANGED <<clock, events, ticks, reminded, twice, task, astray>>

LEMMA RowsType ==
    ASSUME CalType, NEW s \in Editors, NEW v, RowsEdited(s, v)
    PROVE  /\ CalType' /\ syncs'[s] = v /\ \A o \in Editors \ {s} : syncs'[o] = syncs[o]
<1>1. /\ syncs' \in [Editors -> TaskSyncs]
      /\ syncs'[s] = v /\ \A o \in Editors \ {s} : syncs'[o] = syncs[o]
  BY DEF CalType, RowsEdited
<1>2. \A o \in Editors : syncs'[o].pc \in HasEvent => syncs'[o].ev \in DOMAIN events'
  BY <1>1 DEF CalType, RowsEdited
<1> QED
  BY <1>1, <1>2 DEF CalType, RowsEdited

(* Rows go, and s has nothing to insert: a notice is no nearer than before. *)
LEMMA RowsGo ==
    ASSUME TickInv, NEW s \in Editors, NEW v, RowsEdited(s, v), v.pc # "insert",
           reminders' \subseteq reminders
    PROVE  TickInv'
<1>1. CalType /\ RowsHeld /\ RowsKnown /\ RowsAhead /\ ToldEarly /\ OneTick /\ OneRow /\ NewNotice
  BY DEF TickInv, RowInv
<1>2. /\ CalType' /\ syncs'[s] = v /\ \A o \in Editors \ {s} : syncs'[o] = syncs[o]
  BY <1>1, RowsType
<1>3. UNCHANGED <<clock, events, ticks, reminded, twice>> /\ (overlap => overlap')
  BY DEF RowsEdited
<1>4. RowsHeld' /\ RowsKnown' /\ ToldEarly' /\ OneTick'
  BY <1>1, <1>3 DEF RowsHeld, RowsKnown, ToldEarly, OneTick
<1>5. OneRow'
  BY <1>1, <1>3 DEF OneRow
<1>6. RowsAhead'
  BY <1>1, <1>2, <1>3 DEF RowsAhead, Inserting
<1>7. NewNotice'
  BY <1>1, <1>2, <1>3 DEF NewNotice, Inserting
<1> QED
  BY <1>2, <1>4, <1>5, <1>6, <1>7 DEF TickInv, RowInv

LEMMA RereadStep ==
    ASSUME CalType, NEW s \in Editors, EventReread(s)
    PROVE  \E v : RowsEdited(s, v) /\ RowsOnly(s, v) /\ v.pc # "insert" /\ reminders' = reminders
<1>1. PICK e \in 1..MaxEvents : e = syncs[s].ev /\ e \in DOMAIN events
  BY SyncKinds DEF EventReread, HasEvent
<1>2. syncs[s].pc = "reread" /\ syncs[s].rounds \in Seq(Rounds)
  BY SyncKinds DEF EventReread
<1>3. events[e].start \in Starts /\ DOMAIN events[e].who \in SUBSET Invited
  BY <1>1, EventOfType DEF calendarEvents
<1>4. PICK rounds \in Seq(Rounds) :
            rounds = <<[start |-> events[e].start, subs |-> DOMAIN events[e].who]>> \o syncs[s].rounds
  <2>1. <<[start |-> events[e].start, subs |-> DOMAIN events[e].who]>> \in Seq(Rounds)
    BY <1>3 DEF Rounds
  <2> QED
    BY <1>2, <2>1, ConcatProperties
<1>5. syncs' = Rescheduling(s, e, rounds)
      /\ UNCHANGED <<clock, events, reminders, ticks, reminded, twice, overlap, task, astray>>
  BY <1>1, <1>4 DEF EventReread
<1>6. PICK v : SlotBecomes(s, v) /\ v.pc \in {"idle", "rows"}
  BY <1>1, <1>5, ReschedulingStage
<1>7. RowsEdited(s, v)
  BY <1>5, <1>6 DEF RowsEdited, SlotBecomes, CalType
<1>8. RowsOnly(s, v)
  BY <1>2, <1>6 DEF RowsOnly, OfSync, SlotBecomes
<1> QED
  BY <1>5, <1>6, <1>7, <1>8

LEMMA DroppedStep ==
    ASSUME CalType, NEW s \in Editors, RowsDropped(s)
    PROVE  \E v : /\ RowsEdited(s, v) /\ v.pc # "insert" /\ reminders' \subseteq reminders
                  /\ v.pc = (IF syncs[s].gone THEN "delete" ELSE "idle") /\ syncs[s].pc = "drop"
<1>1. PICK v : v = IF syncs[s].gone THEN [pc |-> "delete"] ELSE Idle
  OBVIOUS
<1>2. v \in TaskSyncs /\ v.pc = (IF syncs[s].gone THEN "delete" ELSE "idle")
  BY <1>1 DEF TaskSyncs, Idle
<1>3. /\ syncs[s].pc = "drop" /\ reminders' \subseteq reminders
      /\ syncs' = [syncs EXCEPT ![s] = v]
      /\ UNCHANGED <<clock, events, ticks, reminded, twice, overlap, task, astray>>
  BY <1>1 DEF RowsDropped
<1>4. RowsEdited(s, v)
  BY <1>2, <1>3 DEF RowsEdited, HasEvent, CalType
<1> QED
  BY <1>2, <1>3, <1>4

LEMMA DueType ==
    ASSUME CalType, NEW t \in Ticks, NEW i \in DOMAIN ticks[t].due
    PROVE  ticks[t].due[i] \in eventReminders
<1>1. ticks[t].due \in Seq(eventReminders)
  BY DEF CalType, CalTicks, NoTick, RunningTick
<1> QED
  BY <1>1

(* The rows of an event go, and those to come instead lie ahead.           *)
LEMMA DeletedRows ==
    ASSUME CalType, NEW s \in Editors, RowsDeleted(s)
    PROVE  \E v : /\ RowsEdited(s, v) /\ RowsOnly(s, v)
                  /\ v.pc = "insert" /\ v.rows \subseteq eventReminders
                  /\ \A w \in v.rows : w.at > clock /\ w.ev = v.ev /\ w.from = s /\ ~w.sent
                  /\ reminders' = {r \in reminders : r.ev # v.ev}
                  /\ overlap' = (overlap \/ \E o \in Editors \ {s} :
                                   syncs[o].pc = "insert" /\ syncs[o].ev = v.ev /\ syncs[o].rows # {})
<1>1. syncs[s].pc = "rows"
  BY DEF RowsDeleted
<1>2. PICK e \in 1..MaxEvents : e = syncs[s].ev /\ e \in DOMAIN events
  BY <1>1, SyncKinds DEF HasEvent
<1>3. PICK rounds \in Seq(Rounds) : rounds = syncs[s].rounds /\ rounds # <<>>
  BY <1>1, SyncKinds
<1>4. Head(rounds) \in Rounds /\ Tail(rounds) \in Seq(Rounds)
  BY <1>3, HeadTailProperties
<1>5. PICK start \in Starts, subs \in SUBSET Invited :
            start = Head(rounds).start /\ subs = Head(rounds).subs
  BY <1>4 DEF Rounds
<1>6. PICK new : new = scheduleReminders(s, e, start, subs)
  OBVIOUS
<1>7. \A w \in new : w \in eventReminders /\ w.at > clock /\ w.ev = e /\ w.from = s /\ ~w.sent
  BY <1>6, RowsWritten DEF CalType
<1>8. PICK v : v = [pc |-> "insert", ev |-> e, rounds |-> Tail(rounds), rows |-> new]
  OBVIOUS
<1>9. v.pc = "insert" /\ v.ev = e /\ v.rows = new
  BY <1>8
<1>10. v \in TaskSyncs
  <2>1. new \in SUBSET eventReminders
    BY <1>7
  <2>2. v \in [pc : {"insert"}, ev : 1..MaxEvents, rounds : Seq(Rounds), rows : SUBSET eventReminders]
    BY <1>4, <1>8, <2>1
  <2> QED
    BY <2>2 DEF TaskSyncs, RowWriters
<1>11. /\ reminders' = {r \in reminders : r.ev # e}
       /\ overlap' = (overlap \/ \E o \in Editors \ {s} :
                                   syncs[o].pc = "insert" /\ syncs[o].ev = e /\ syncs[o].rows # {})
       /\ syncs' = [syncs EXCEPT ![s] = v]
       /\ UNCHANGED <<clock, events, ticks, reminded, twice, task, astray>>
  BY <1>2, <1>3, <1>5, <1>6, <1>8 DEF RowsDeleted
<1>12. reminders' \subseteq eventReminders /\ overlap' \in BOOLEAN
  BY <1>11 DEF CalType
<1>13. RowsEdited(s, v)
  BY <1>2, <1>9, <1>10, <1>11, <1>12 DEF RowsEdited
<1>14. RowsOnly(s, v)
  BY <1>1, <1>9, <1>11 DEF RowsOnly, OfSync
<1> QED
  BY <1>7, <1>9, <1>11, <1>13, <1>14

(* What was told of or is due lies behind the clock.                       *)
LEMMA DeletedStep ==
    ASSUME TickInv, NEW s \in Editors, RowsDeleted(s)
    PROVE  TickInv' /\ SyncsAside /\ UNCHANGED <<events, task, astray>>
<1>1. /\ CalType /\ RowsHeld /\ RowsKnown /\ RowsAhead /\ ToldEarly /\ OneTick /\ OneRow /\ NewNotice
      /\ clock \in Nat /\ reminded \subseteq Notices
  BY DEF TickInv, RowInv, CalType
<1>2. PICK v : /\ RowsEdited(s, v) /\ RowsOnly(s, v)
               /\ v.pc = "insert" /\ v.rows \subseteq eventReminders
               /\ \A w \in v.rows : w.at > clock /\ w.ev = v.ev /\ w.from = s /\ ~w.sent
               /\ reminders' = {r \in reminders : r.ev # v.ev}
               /\ overlap' = (overlap \/ \E o \in Editors \ {s} :
                                syncs[o].pc = "insert" /\ syncs[o].ev = v.ev /\ syncs[o].rows # {})
  BY <1>1, DeletedRows
<1>3. CalType' /\ syncs'[s] = v /\ \A o \in Editors \ {s} : syncs'[o] = syncs[o]
  BY <1>1, <1>2, RowsType
<1>4. UNCHANGED <<clock, events, ticks, reminded, twice, task, astray>> /\ (overlap => overlap')
      /\ reminders' \subseteq reminders
  BY <1>2 DEF RowsEdited
<1>5. RowsHeld' /\ RowsKnown' /\ ToldEarly' /\ OneTick'
  BY <1>1, <1>4 DEF RowsHeld, RowsKnown, ToldEarly, OneTick
<1>6. OneRow'
  BY <1>1, <1>4 DEF OneRow
<1>7. ASSUME NEW w \in v.rows
      PROVE  /\ Notice(w).ev = v.ev /\ w \notin reminders' /\ Notice(w) \notin reminded
             /\ \A r \in reminders' : Notice(r) # Notice(w)
             /\ \A t \in Ticks : \A i \in DOMAIN ticks[t].due :
                  ticks[t].due[i] # w /\ Notice(ticks[t].due[i]) # Notice(w)
  <2>1. w \in eventReminders /\ w.at \in Nat /\ w.at > clock /\ w.ev = v.ev
    BY <1>2 DEF eventReminders
  <2>2. Notice(w).ev = w.ev /\ Notice(w).at = w.at
    BY DEF Notice
  <2>3. \A n \in reminded : n.at \in Nat /\ n.at <= clock
    BY <1>1 DEF ToldEarly, Notices
  <2>4. \A r \in reminders' : r.ev # v.ev /\ Notice(r).ev = r.ev
    BY <1>2 DEF Notice
  <2>5. ASSUME NEW t \in Ticks, NEW i \in DOMAIN ticks[t].due
        PROVE  ticks[t].due[i].at # w.at /\ Notice(ticks[t].due[i]).at = ticks[t].due[i].at
    <3>1. ticks[t].due[i].at \in Nat
      BY <1>1, DueType DEF eventReminders
    <3>2. ticks[t].due[i].at <= clock
      BY <1>1 DEF RowsHeld
    <3> QED
      BY <1>1, <2>1, <3>1, <3>2 DEF Notice
  <2>6. Notice(w) \notin reminded
    BY <1>1, <2>1, <2>2, <2>3
  <2> QED
    BY <2>1, <2>2, <2>4, <2>5, <2>6
<1>8. RowsAhead'
  <2> SUFFICES ASSUME NEW o \in Editors, syncs'[o].pc = "insert", NEW w \in syncs'[o].rows
               PROVE  /\ w.from = o /\ w.ev = syncs'[o].ev /\ ~w.sent /\ w \notin reminders'
                      /\ \A t \in Ticks : \A i \in DOMAIN ticks[t].due : ticks[t].due[i] # w
    BY <1>4 DEF RowsAhead, Inserting
  <2>1. CASE o = s
    BY <1>2, <1>3, <1>7, <2>1
  <2>2. CASE o # s
    BY <1>1, <1>3, <1>4, <2>2 DEF RowsAhead, Inserting
  <2> QED
    BY <2>1, <2>2
<1>9. NewNotice'
  <2> SUFFICES ASSUME ~overlap', NEW o \in Editors, syncs'[o].pc = "insert", NEW w \in syncs'[o].rows
               PROVE  /\ Notice(w) \notin reminded
                      /\ \A r \in reminders' : Notice(r) # Notice(w)
                      /\ \A t \in Ticks : \A i \in DOMAIN ticks[t].due : Notice(ticks[t].due[i]) # Notice(w)
                      /\ \A q \in Editors \ {o} : syncs'[q].pc = "insert" =>
                            \A x \in syncs'[q].rows : Notice(x) # Notice(w)
    BY <1>4 DEF NewNotice, Inserting
  <2>1. ~overlap
    BY <1>4
  <2>2. ASSUME NEW q \in Editors \ {s}, syncs[q].pc = "insert", NEW x \in syncs[q].rows
        PROVE  Notice(x).ev # v.ev
    <3>1. x.ev = syncs[q].ev
      BY <1>1, <2>2 DEF RowsAhead, Inserting
    <3>2. syncs[q].ev # v.ev
      BY <1>2, <2>2
    <3> QED
      BY <3>1, <3>2 DEF Notice
  <2>3. CASE o = s
    BY <1>3, <1>7, <2>2, <2>3
  <2>4. CASE o # s
    <3>1. syncs'[o] = syncs[o] /\ syncs[o].pc = "insert" /\ w \in syncs[o].rows
      BY <1>3, <2>4
    <3>2. /\ Notice(w) \notin reminded
          /\ \A r \in reminders : Notice(r) # Notice(w)
          /\ \A t \in Ticks : \A i \in DOMAIN ticks[t].due : Notice(ticks[t].due[i]) # Notice(w)
          /\ \A q \in Editors \ {o} : syncs[q].pc = "insert" =>
                \A x \in syncs[q].rows : Notice(x) # Notice(w)
      BY <1>1, <2>1, <3>1 DEF NewNotice, Inserting
    <3>3. \A x \in syncs'[s].rows : Notice(x) # Notice(w)
      BY <1>3, <1>7, <2>2, <2>4, <3>1
    <3>4. \A q \in Editors \ {o} : syncs'[q].pc = "insert" =>
                \A x \in syncs'[q].rows : Notice(x) # Notice(w)
      BY <1>3, <3>2, <3>3
    <3> QED
      BY <1>4, <3>2, <3>4
  <2> QED
    BY <2>3, <2>4
<1> QED
  BY <1>2, <1>3, <1>4, <1>5, <1>6, <1>8, <1>9 DEF TickInv, RowInv, SyncsAside

(* What is inserted is new, and each row of it is for a notice of its own. *)
LEMMA InsertedStep ==
    ASSUME TickInv, NEW s \in Editors, RowsInserted(s)
    PROVE  TickInv' /\ SyncsAside /\ UNCHANGED <<events, task, astray>>
<1>1. CalType /\ RowsHeld /\ RowsKnown /\ RowsAhead /\ ToldEarly /\ OneTick /\ OneRow /\ NewNotice
  BY DEF TickInv, RowInv
<1>2. PICK new : new = syncs[s].rows
  OBVIOUS
<1>3. /\ syncs[s].pc = "insert" /\ reminders' = reminders \union new
      /\ syncs' = Rescheduling(s, syncs[s].ev, syncs[s].rounds)
      /\ UNCHANGED <<clock, events, ticks, reminded, twice, overlap, task, astray>>
  BY <1>2 DEF RowsInserted
<1>4. PICK e \in 1..MaxEvents, rounds \in Seq(Rounds) :
            e = syncs[s].ev /\ e \in DOMAIN events /\ rounds = syncs[s].rounds
  BY <1>1, <1>3, SyncKinds DEF HasEvent
<1>5. PICK v : SlotBecomes(s, v) /\ v.pc \in {"idle", "rows"}
  BY <1>3, <1>4, ReschedulingStage
<1>6. new \subseteq eventReminders
  BY <1>1, <1>2, <1>3, SyncKinds
<1>7. RowsEdited(s, v)
  BY <1>1, <1>3, <1>5, <1>6 DEF RowsEdited, SlotBecomes, CalType
<1>8. RowsOnly(s, v)
  BY <1>3, <1>5 DEF RowsOnly, OfSync, SlotBecomes
<1>9. CalType' /\ syncs'[s] = v /\ \A o \in Editors \ {s} : syncs'[o] = syncs[o]
  BY <1>1, <1>7, RowsType
<1>10. \A w \in new :
          /\ w.from = s /\ w.ev = e /\ ~w.sent /\ w \notin reminders
          /\ \A t \in Ticks : \A i \in DOMAIN ticks[t].due : ticks[t].due[i] # w
  BY <1>1, <1>2, <1>3, <1>4 DEF RowsAhead, Inserting
<1>11. ~overlap => \A w \in new :
          /\ Notice(w) \notin reminded
          /\ \A r \in reminders : Notice(r) # Notice(w)
          /\ \A t \in Ticks : \A i \in DOMAIN ticks[t].due : Notice(ticks[t].due[i]) # Notice(w)
          /\ \A o \in Editors \ {s} : syncs[o].pc = "insert" => \A x \in syncs[o].rows : Notice(x) # Notice(w)
  BY <1>1, <1>2, <1>3 DEF NewNotice, Inserting
<1>12. \A w, x \in new : Notice(w) = Notice(x) => w = x
  <2> SUFFICES ASSUME NEW w \in new, NEW x \in new, Notice(w) = Notice(x) PROVE w = x
    OBVIOUS
  <2>1. w \in eventReminders /\ x \in eventReminders /\ w.sent = x.sent /\ w.from = x.from
    BY <1>6, <1>10 DEF eventReminders
  <2>2. w.ev = x.ev /\ w.sub = x.sub /\ w.at = x.at
    BY DEF Notice
  <2> QED
    BY <2>1, <2>2 DEF eventReminders
<1>13. RowsHeld'
  <2> SUFFICES ASSUME NEW t \in Ticks, ticks[t].pc = "send" PROVE ticks[t].due[1] \notin reminders'
    BY <1>1, <1>3 DEF RowsHeld
  <2>1. ticks[t] \in RunningTick /\ ticks[t].due # <<>>
    BY <1>1 DEF CalType, CalTicks, NoTick
  <2>2. 1 \in DOMAIN ticks[t].due
    BY <2>1 DEF RunningTick
  <2>3. ticks[t].due[1] \notin reminders
    BY <1>1 DEF RowsHeld
  <2> QED
    BY <1>3, <1>10, <2>2, <2>3
<1>14. RowsKnown' /\ ToldEarly' /\ OneTick'
  BY <1>1, <1>3, <1>4, <1>10 DEF RowsKnown, ToldEarly, OneTick
<1>15. RowsAhead'
  <2> SUFFICES ASSUME NEW o \in Editors, syncs'[o].pc = "insert", NEW w \in syncs'[o].rows
               PROVE  /\ w.from = o /\ w.ev = syncs'[o].ev /\ ~w.sent /\ w \notin reminders'
                      /\ \A t \in Ticks : \A i \in DOMAIN ticks[t].due : ticks[t].due[i] # w
    BY <1>3 DEF RowsAhead, Inserting
  <2>1. o # s /\ syncs'[o] = syncs[o]
    BY <1>5, <1>9
  <2> QED
    BY <1>1, <1>3, <1>10, <2>1 DEF RowsAhead, Inserting
<1>16. OneRow'
  <2> SUFFICES ASSUME ~overlap, NEW r \in reminders'
               PROVE  /\ ~r.sent => Notice(r) \notin reminded
                      /\ \A q \in reminders' : Notice(q) = Notice(r) => q = r
                      /\ \A t \in Ticks : \A i \in DOMAIN ticks[t].due :
                           ~r.sent /\ Notice(r) = Notice(ticks[t].due[i]) => r = ticks[t].due[i]
    BY <1>3 DEF OneRow
  <2>1. CASE r \in new
    BY <1>3, <1>11, <1>12, <2>1
  <2>2. CASE r \in reminders
    <3>1. /\ ~r.sent => Notice(r) \notin reminded
          /\ \A q \in reminders : Notice(q) = Notice(r) => q = r
          /\ \A t \in Ticks : \A i \in DOMAIN ticks[t].due :
               ~r.sent /\ Notice(r) = Notice(ticks[t].due[i]) => r = ticks[t].due[i]
      BY <1>1, <2>2 DEF OneRow
    <3>2. \A q \in new : Notice(q) # Notice(r)
      BY <1>11, <2>2
    <3> QED
      BY <1>3, <3>1, <3>2
  <2> QED
    BY <1>3, <2>1, <2>2
<1>17. NewNotice'
  <2> SUFFICES ASSUME ~overlap, NEW o \in Editors, syncs'[o].pc = "insert", NEW w \in syncs'[o].rows
               PROVE  /\ Notice(w) \notin reminded
                      /\ \A r \in reminders' : Notice(r) # Notice(w)
                      /\ \A t \in Ticks : \A i \in DOMAIN ticks[t].due : Notice(ticks[t].due[i]) # Notice(w)
                      /\ \A q \in Editors \ {o} : syncs'[q].pc = "insert" =>
                            \A x \in syncs'[q].rows : Notice(x) # Notice(w)
    BY <1>3 DEF NewNotice, Inserting
  <2>1. o # s /\ syncs'[o] = syncs[o] /\ syncs'[s].pc # "insert"
    BY <1>5, <1>9
  <2>2. /\ Notice(w) \notin reminded
        /\ \A r \in reminders : Notice(r) # Notice(w)
        /\ \A t \in Ticks : \A i \in DOMAIN ticks[t].due : Notice(ticks[t].due[i]) # Notice(w)
        /\ \A q \in Editors \ {o} : syncs[q].pc = "insert" => \A x \in syncs[q].rows : Notice(x) # Notice(w)
    BY <1>1, <2>1 DEF NewNotice, Inserting
  <2>3. \A r \in new : Notice(r) # Notice(w)
    BY <1>2, <1>3, <2>1, <2>2
  <2>4. \A q \in Editors \ {o} : syncs'[q].pc = "insert" => \A x \in syncs'[q].rows : Notice(x) # Notice(w)
    BY <1>9, <2>1, <2>2
  <2> QED
    BY <1>3, <2>2, <2>3, <2>4
<1> QED
  BY <1>3, <1>7, <1>8, <1>9, <1>13, <1>14, <1>15, <1>16, <1>17 DEF TickInv, RowInv, SyncsAside

-----------------------------------------------------------------------------
(* The ticks.                                                              *)

LEMMA NoTickType == NoTick \in CalTicks /\ NoTick.pc = "idle" /\ DOMAIN NoTick.due = {}
BY DEF CalTicks, NoTick

LEMMA ClockStep ==
    ASSUME TickInv, ClockTicks
    PROVE  TickInv'
<1>1. /\ clock' = clock + 1
      /\ UNCHANGED <<events, reminders, ticks, reminded, twice, overlap, task, syncs, astray>>
  BY DEF ClockTicks
<1>2. /\ CalType /\ RowsHeld /\ RowsKnown /\ RowsAhead /\ ToldEarly /\ OneTick /\ OneRow /\ NewNotice
      /\ clock \in Nat
  BY DEF TickInv, RowInv, CalType
<1>3. CalType' /\ RowsKnown'
  BY <1>1, <1>2 DEF CalType, RowsKnown
<1>4. \A n \in reminded : n.at \in Nat
  BY <1>2 DEF CalType, Notices
<1>5. \A t \in Ticks : \A i \in DOMAIN ticks[t].due : ticks[t].due[i].at \in Nat
  BY <1>2, DueType DEF eventReminders
<1>6. RowsHeld'
  BY <1>1, <1>2, <1>5 DEF RowsHeld
<1>7. ToldEarly'
  BY <1>1, <1>2, <1>4 DEF ToldEarly
<1>8. RowsAhead' /\ NewNotice'
  BY <1>1, <1>2 DEF RowsAhead, NewNotice, Inserting
<1>9. OneTick' /\ OneRow'
  BY <1>1, <1>2 DEF OneTick, OneRow
<1> QED
  BY <1>3, <1>6, <1>7, <1>8, <1>9 DEF TickInv, RowInv

(* The tick of t becomes k; nothing else of the ticks changes.             *)
TickBecomes(t, k) ==
    /\ k \in CalTicks /\ ticks' = [ticks EXCEPT ![t] = k]
    /\ UNCHANGED <<clock, events, task, syncs, astray>>

LEMMA TickType ==
    ASSUME CalType, NEW t \in Ticks, NEW k, TickBecomes(t, k),
           reminders' \subseteq eventReminders, reminded' \subseteq Notices,
           twice' \in BOOLEAN, overlap' \in BOOLEAN
    PROVE  CalType' /\ ticks'[t] = k /\ \A u \in Ticks \ {t} : ticks'[u] = ticks[u]
BY DEF CalType, TickBecomes

LEMMA AdvancedType ==
    ASSUME NEW k \in RunningTick, k.due # <<>>
    PROVE  /\ Advanced(k) \in CalTicks
           /\ Advanced(k).pc \in {"idle", "row"}
           /\ \A i \in DOMAIN Advanced(k).due :
                i + 1 \in DOMAIN k.due /\ Advanced(k).due[i] = k.due[i + 1]
<1>1. k.due \in Seq(eventReminders) /\ Len(k.due) \in Nat
  BY DEF RunningTick
<1>2. CASE Len(k.due) = 1
  BY <1>2, NoTickType DEF Advanced
<1>3. CASE Len(k.due) # 1
  <2> DEFINE v == [k EXCEPT !.pc = "row", !.due = Tail(@)]
  <2>1. /\ Tail(k.due) \in Seq(eventReminders) /\ Len(Tail(k.due)) = Len(k.due) - 1
        /\ \A i \in 1..Len(k.due) - 1 : Tail(k.due)[i] = k.due[i + 1]
    BY <1>1, HeadTailProperties
  <2>9. DOMAIN Tail(k.due) = 1..Len(k.due) - 1 /\ DOMAIN k.due = 1..Len(k.due)
    BY <1>1, <2>1
  <2>10. Len(Tail(k.due)) # 0
    BY <1>1, <1>3, <2>1
  <2>2. Tail(k.due) # <<>>
    BY <2>1, <2>10, EmptySeq
  <2>3. v \in RunningTick /\ v.due = Tail(k.due) /\ v.pc = "row"
    BY <2>1 DEF RunningTick
  <2>4. Advanced(k) = v
    BY <1>3 DEF Advanced
  <2>5. v \in CalTicks
    BY <2>2, <2>3 DEF CalTicks
  <2> HIDE DEF v
  <2>6. \A i \in DOMAIN v.due : i \in 1..Len(k.due) - 1
    BY <2>3, <2>9
  <2>7. \A i \in 1..Len(k.due) - 1 : i + 1 \in DOMAIN k.due
    BY <1>1, <2>9
  <2> QED
    BY <2>1, <2>3, <2>4, <2>5, <2>6, <2>7
<1> QED
  BY <1>2, <1>3

(* The tick of t goes on with the rows it had, from the one after the d-th. *)
GoesOn(t, k, d) ==
    /\ TickBecomes(t, k) /\ overlap' = overlap
    /\ \A i \in DOMAIN k.due :
         i + d \in DOMAIN ticks[t].due /\ k.due[i] = ticks[t].due[i + d]
    /\ k.pc = "send" => d = 0 /\ ticks[t].pc # "idle" /\ ticks[t].due[1] \notin reminders'
    /\ k.pc # "idle" => ticks[t].pc # "idle"

(* No row becomes due again: at most one is new, which is sent and stands  *)
(* for one that is gone.                                                   *)
NoneDueAgain ==
    /\ reminders' \subseteq eventReminders
    /\ \A r \in reminders' \ reminders :
          /\ r.sent
          /\ \E q \in reminders : q \notin reminders' /\ q.ev = r.ev /\ Notice(q) = Notice(r)
          /\ \A q \in reminders' \ reminders : q = r

LEMMA DueIndex ==
    ASSUME NEW k \in CalTicks, NEW i \in DOMAIN k.due
    PROVE  i \in Nat /\ i >= 1
<1>1. k \in RunningTick
  BY NoTickType DEF CalTicks
<1>2. k.due \in Seq(eventReminders)
  BY <1>1 DEF RunningTick
<1> QED
  BY <1>2

LEMMA RowsGoOn ==
    ASSUME TickInv, NEW t \in Ticks, NEW k, NEW d \in {0, 1}, GoesOn(t, k, d), NoneDueAgain, CalType',
           ticks'[t] = k, \A u \in Ticks \ {t} : ticks'[u] = ticks[u]
    PROVE  RowsHeld' /\ RowsKnown'
<1>1. CalType /\ RowsHeld /\ RowsKnown /\ clock' = clock /\ events' = events /\ k \in CalTicks
  BY DEF TickInv, RowInv, GoesOn, TickBecomes
<1>2. \A i \in DOMAIN k.due : i + d \in DOMAIN ticks[t].due /\ k.due[i] = ticks[t].due[i + d]
  BY DEF GoesOn
<1>3. \A i \in DOMAIN k.due : i \in Nat
  BY <1>1, DueIndex
<1>4. \A i \in DOMAIN k.due : ~k.due[i].sent /\ k.due[i].at <= clock
  BY <1>1, <1>2 DEF RowsHeld
<1>5. \A i, j \in DOMAIN k.due : k.due[i] = k.due[j] => i = j
  <2> SUFFICES ASSUME NEW i \in DOMAIN k.due, NEW j \in DOMAIN k.due, k.due[i] = k.due[j]
               PROVE  i = j
    OBVIOUS
  <2>1. i + d = j + d
    BY <1>1, <1>2 DEF RowsHeld
  <2> QED
    BY <1>3, <2>1
<1>6. ASSUME k.pc = "send" PROVE k.due[1] \notin reminders'
  <2>1. k \in RunningTick /\ k.due # <<>>
    BY <1>6 DEF GoesOn, TickBecomes, CalTicks, NoTick
  <2>2. 1 \in DOMAIN k.due
    BY <2>1 DEF RunningTick
  <2> QED
    BY <1>2, <1>6, <2>2 DEF GoesOn
<1>7. ASSUME NEW u \in Ticks, ticks[u].pc = "send" PROVE ticks[u].due[1] \notin reminders'
  <2>1. ticks[u] \in RunningTick /\ ticks[u].due # <<>>
    BY <1>1, <1>7 DEF CalType, CalTicks, NoTick
  <2>2. 1 \in DOMAIN ticks[u].due
    BY <2>1 DEF RunningTick
  <2>3. ~ticks[u].due[1].sent /\ ticks[u].due[1] \notin reminders
    BY <1>1, <1>7, <2>2 DEF RowsHeld
  <2> QED
    BY <2>3 DEF NoneDueAgain
<1>8. RowsHeld'
  BY <1>1, <1>4, <1>5, <1>6, <1>7 DEF RowsHeld
<1>9. \A i \in DOMAIN k.due : k.due[i].ev \in DOMAIN events
  BY <1>1, <1>2 DEF RowsKnown
<1>10. \A r \in reminders' : r.ev \in DOMAIN events
  BY <1>1 DEF NoneDueAgain, RowsKnown
<1>11. RowsKnown'
  BY <1>1, <1>9, <1>10 DEF RowsKnown
<1> QED
  BY <1>8, <1>11

LEMMA AheadGoesOn ==
    ASSUME RowsAhead, NEW t \in Ticks, NEW k, NEW d \in {0, 1}, GoesOn(t, k, d), NoneDueAgain,
           ticks'[t] = k, \A u \in Ticks \ {t} : ticks'[u] = ticks[u]
    PROVE  RowsAhead'
<1>1. syncs' = syncs /\ \A i \in DOMAIN k.due : i + d \in DOMAIN ticks[t].due /\ k.due[i] = ticks[t].due[i + d]
  BY DEF GoesOn, TickBecomes
<1> SUFFICES ASSUME NEW s \in Editors, syncs[s].pc = "insert", NEW w \in syncs[s].rows
             PROVE  /\ w.from = s /\ w.ev = syncs[s].ev /\ ~w.sent /\ w \notin reminders'
                    /\ \A u \in Ticks : \A i \in DOMAIN ticks'[u].due : ticks'[u].due[i] # w
  BY <1>1 DEF RowsAhead, Inserting
<1>2. /\ w.from = s /\ w.ev = syncs[s].ev /\ ~w.sent /\ w \notin reminders
      /\ \A u \in Ticks : \A i \in DOMAIN ticks[u].due : ticks[u].due[i] # w
  BY DEF RowsAhead, Inserting
<1>3. w \notin reminders'
  BY <1>2 DEF NoneDueAgain
<1>4. \A i \in DOMAIN k.due : k.due[i] # w
  BY <1>1, <1>2
<1> QED
  BY <1>2, <1>3, <1>4

(* While nothing overlaps, one notice each.                                *)
LEMMA NoticesGoOn ==
    ASSUME CalType, OneTick, OneRow, NewNotice, NEW t \in Ticks, NEW k, NEW d \in {0, 1},
           GoesOn(t, k, d), NoneDueAgain, UNCHANGED <<reminded, twice>>,
           ticks'[t] = k, \A u \in Ticks \ {t} : ticks'[u] = ticks[u]
    PROVE  OneTick' /\ OneRow' /\ NewNotice'
<1>1. syncs' = syncs /\ overlap' = overlap /\ k \in CalTicks
  BY DEF GoesOn, TickBecomes
<1>2. /\ k.pc # "idle" => ticks[t].pc # "idle"
      /\ \A i \in DOMAIN k.due :
           i \in Nat /\ i + d \in DOMAIN ticks[t].due /\ k.due[i] = ticks[t].due[i + d]
  BY <1>1, DueIndex DEF GoesOn
<1>3. \A u \in Ticks : \A i \in DOMAIN ticks'[u].due :
          \E j \in DOMAIN ticks[u].due : ticks'[u].due[i] = ticks[u].due[j]
  BY <1>2
<1>4. \A r \in reminders' : r \in reminders \/ (r.sent /\ \E q \in reminders : q \notin reminders' /\ Notice(q) = Notice(r))
  BY DEF NoneDueAgain
<1>5. OneTick'
  <2> SUFFICES ASSUME ~overlap
               PROVE  /\ ~twice
                      /\ \A v, u \in Ticks : v # u => ticks'[v].pc = "idle" \/ ticks'[u].pc = "idle"
                      /\ \A u \in Ticks : \A i \in DOMAIN ticks'[u].due :
                           /\ Notice(ticks'[u].due[i]) \notin reminded
                           /\ \A j \in DOMAIN ticks'[u].due : Notice(ticks'[u].due[i]) = Notice(ticks'[u].due[j]) => i = j
    BY <1>1 DEF OneTick
  <2>1. /\ ~twice
        /\ \A v, u \in Ticks : v # u => ticks[v].pc = "idle" \/ ticks[u].pc = "idle"
        /\ \A u \in Ticks : \A i \in DOMAIN ticks[u].due :
             /\ Notice(ticks[u].due[i]) \notin reminded
             /\ \A j \in DOMAIN ticks[u].due : Notice(ticks[u].due[i]) = Notice(ticks[u].due[j]) => i = j
    BY DEF OneTick
  <2>2. \A v, u \in Ticks : v # u => ticks'[v].pc = "idle" \/ ticks'[u].pc = "idle"
    BY <1>2, <2>1
  <2>3. \A u \in Ticks : \A i \in DOMAIN ticks'[u].due : Notice(ticks'[u].due[i]) \notin reminded
    BY <1>3, <2>1
  <2>4. ASSUME NEW i \in DOMAIN k.due, NEW j \in DOMAIN k.due, Notice(k.due[i]) = Notice(k.due[j])
        PROVE  i = j
    <3>1. i + d = j + d
      BY <1>2, <2>1, <2>4
    <3> QED
      BY <1>2, <3>1
  <2>5. \A u \in Ticks : \A i \in DOMAIN ticks'[u].due :
            \A j \in DOMAIN ticks'[u].due : Notice(ticks'[u].due[i]) = Notice(ticks'[u].due[j]) => i = j
    BY <2>1, <2>4
  <2> QED
    BY <2>1, <2>2, <2>3, <2>5
<1>6. OneRow'
  <2> SUFFICES ASSUME ~overlap, NEW r \in reminders'
               PROVE  /\ ~r.sent => Notice(r) \notin reminded
                      /\ \A q \in reminders' : Notice(q) = Notice(r) => q = r
                      /\ \A u \in Ticks : \A i \in DOMAIN ticks'[u].due :
                           ~r.sent /\ Notice(r) = Notice(ticks'[u].due[i]) => r = ticks'[u].due[i]
    BY <1>1 DEF OneRow
  <2>1. \A x \in reminders :
          /\ ~x.sent => Notice(x) \notin reminded
          /\ \A q \in reminders : Notice(q) = Notice(x) => q = x
          /\ \A u \in Ticks : \A i \in DOMAIN ticks[u].due :
               ~x.sent /\ Notice(x) = Notice(ticks[u].due[i]) => x = ticks[u].due[i]
    BY DEF OneRow
  <2>2. ~r.sent => r \in reminders
    BY <1>4
  <2>3. ASSUME NEW q \in reminders', Notice(q) = Notice(r) PROVE q = r
    <3>1. CASE q \in reminders /\ r \in reminders
      BY <2>1, <2>3, <3>1
    <3>2. CASE q \notin reminders /\ r \notin reminders
      BY <3>2 DEF NoneDueAgain
    <3>3. CASE q \in reminders /\ r \notin reminders
      BY <1>4, <2>1, <2>3, <3>3
    <3>4. CASE q \notin reminders /\ r \in reminders
      BY <1>4, <2>1, <2>3, <3>4
    <3> QED
      BY <3>1, <3>2, <3>3, <3>4
  <2>4. \A u \in Ticks : \A i \in DOMAIN ticks'[u].due :
               ~r.sent /\ Notice(r) = Notice(ticks'[u].due[i]) => r = ticks'[u].due[i]
    BY <1>3, <2>1, <2>2
  <2> QED
    BY <2>1, <2>2, <2>3, <2>4
<1>7. NewNotice'
  <2> SUFFICES ASSUME ~overlap, NEW s \in Editors, syncs[s].pc = "insert", NEW w \in syncs[s].rows
               PROVE  /\ Notice(w) \notin reminded
                      /\ \A r \in reminders' : Notice(r) # Notice(w)
                      /\ \A u \in Ticks : \A i \in DOMAIN ticks'[u].due : Notice(ticks'[u].due[i]) # Notice(w)
                      /\ \A o \in Editors \ {s} : syncs[o].pc = "insert" => \A x \in syncs[o].rows : Notice(x) # Notice(w)
    BY <1>1 DEF NewNotice, Inserting
  <2>1. /\ Notice(w) \notin reminded
        /\ \A r \in reminders : Notice(r) # Notice(w)
        /\ \A u \in Ticks : \A i \in DOMAIN ticks[u].due : Notice(ticks[u].due[i]) # Notice(w)
        /\ \A o \in Editors \ {s} : syncs[o].pc = "insert" => \A x \in syncs[o].rows : Notice(x) # Notice(w)
    BY DEF NewNotice, Inserting
  <2>2. \A r \in reminders' : Notice(r) # Notice(w)
    BY <1>4, <2>1
  <2>3. \A u \in Ticks : \A i \in DOMAIN ticks'[u].due : Notice(ticks'[u].due[i]) # Notice(w)
    BY <1>3, <2>1
  <2> QED
    BY <2>1, <2>2, <2>3
<1> QED
  BY <1>5, <1>6, <1>7

LEMMA NothingSent ==
    ASSUME TickInv, NEW t \in Ticks, NEW k, NEW d \in {0, 1}, GoesOn(t, k, d), NoneDueAgain,
           UNCHANGED <<reminded, twice>>
    PROVE  TickInv'
<1>1. CalType /\ RowsHeld /\ RowsKnown /\ RowsAhead /\ ToldEarly /\ OneTick /\ OneRow /\ NewNotice
  BY DEF TickInv, RowInv
<1>2. reminded' \subseteq Notices /\ twice' \in BOOLEAN /\ overlap' \in BOOLEAN /\ TickBecomes(t, k)
      /\ reminders' \subseteq eventReminders /\ clock' = clock
  BY <1>1 DEF CalType, GoesOn, TickBecomes, NoneDueAgain
<1>3. CalType' /\ ticks'[t] = k /\ \A u \in Ticks \ {t} : ticks'[u] = ticks[u]
  BY <1>1, <1>2, TickType
<1>4. RowsHeld' /\ RowsKnown'
  BY <1>3, RowsGoOn
<1>5. ToldEarly'
  BY <1>1, <1>2 DEF ToldEarly
<1>6. RowsAhead'
  BY <1>1, <1>3, AheadGoesOn
<1>7. OneTick' /\ OneRow' /\ NewNotice'
  BY <1>1, <1>3, NoticesGoOn
<1> QED
  BY <1>3, <1>4, <1>5, <1>6, <1>7 DEF TickInv, RowInv

LEMMA StartsStep ==
    ASSUME TickInv, NEW t \in Ticks, TickStarts(t)
    PROVE  TickInv'
<1>1. /\ CalType /\ RowsHeld /\ RowsKnown /\ RowsAhead /\ ToldEarly /\ OneTick /\ OneRow /\ NewNotice
      /\ clock \in Nat
  BY DEF TickInv, RowInv, CalType
<1>2. PICK n \in 1..Limit : \E page \in [1..n -> Due] :
           /\ Page(page)
           /\ ticks' = [ticks EXCEPT ![t] = [pc |-> "row", at |-> clock, due |-> page, read |-> <<>>]]
  BY DEF TickStarts
<1>3. PICK page \in [1..n -> Due] :
           /\ Page(page)
           /\ ticks' = [ticks EXCEPT ![t] = [pc |-> "row", at |-> clock, due |-> page, read |-> <<>>]]
  BY <1>2
<1>4. /\ overlap' = (overlap \/ \E u \in Ticks \ {t} : ticks[u].pc # "idle")
      /\ ticks[t].pc = "idle"
      /\ UNCHANGED <<clock, events, reminders, reminded, twice, task, syncs, astray, calOps>>
  BY DEF TickStarts
<1> DEFINE k == [pc |-> "row", at |-> clock, due |-> page, read |-> <<>>]
<1>5. /\ n \in Nat /\ n >= 1 /\ DOMAIN page = 1..n
      /\ \A i \in 1..n : page[i] \in eventReminders /\ page[i] \in reminders
                         /\ ~page[i].sent /\ page[i].at <= clock
  BY <1>1, CalendarAssumption DEF Due, CalType
<1>6. page \in Seq(eventReminders) /\ Len(page) = n
  <2>1. page \in [1..n -> eventReminders]
    BY <1>5
  <2> QED
    BY <1>5, <2>1
<1>7. page # <<>>
  BY <1>5, <1>6, EmptySeq
<1>8. <<>> \in CachedEvents
  <2>1. <<>> \in [{} -> calendarEvents]
    OBVIOUS
  <2> QED
    BY <2>1 DEF CachedEvents
<1>9. k \in CalTicks /\ k.pc = "row" /\ k.due = page
  BY <1>1, <1>6, <1>7, <1>8 DEF CalTicks, RunningTick
<1>10. ticks' = [ticks EXCEPT ![t] = k]
  BY <1>3
<1> HIDE DEF k
<1>11. TickBecomes(t, k)
  BY <1>4, <1>9, <1>10 DEF TickBecomes
<1>12. reminders' \subseteq eventReminders /\ reminded' \subseteq Notices /\ twice' \in BOOLEAN
       /\ overlap' \in BOOLEAN
  BY <1>1, <1>4 DEF CalType
<1>13. CalType' /\ ticks'[t] = k /\ \A u \in Ticks \ {t} : ticks'[u] = ticks[u]
  BY <1>1, <1>11, <1>12, TickType
<1>14. \A i, j \in 1..n : page[i] = page[j] => i = j
  <2> SUFFICES ASSUME NEW i \in 1..n, NEW j \in 1..n, i # j PROVE page[i] # page[j]
    OBVIOUS
  <2>1. i \in Nat /\ j \in Nat /\ (i < j \/ j < i)
    BY <1>5
  <2> QED
    BY <1>3, <1>5, <2>1 DEF Page
<1>15. RowsHeld'
  BY <1>1, <1>4, <1>5, <1>9, <1>13, <1>14 DEF RowsHeld
<1>16. RowsKnown'
  BY <1>1, <1>4, <1>5, <1>9, <1>13 DEF RowsKnown
<1>17. ToldEarly'
  BY <1>1, <1>4 DEF ToldEarly
<1>18. \A i \in DOMAIN k.due : i \in 1..n /\ k.due[i] \in reminders /\ ~k.due[i].sent
  BY <1>5, <1>9
<1>19. OneTick'
  <2> SUFFICES ASSUME ~overlap'
               PROVE  /\ ~twice
                      /\ \A v, u \in Ticks : v # u => ticks'[v].pc = "idle" \/ ticks'[u].pc = "idle"
                      /\ \A u \in Ticks : \A i \in DOMAIN ticks'[u].due :
                           /\ Notice(ticks'[u].due[i]) \notin reminded
                           /\ \A j \in DOMAIN ticks'[u].due : Notice(ticks'[u].due[i]) = Notice(ticks'[u].due[j]) => i = j
    BY <1>4 DEF OneTick
  <2>1. ~overlap /\ \A u \in Ticks \ {t} : ticks[u].pc = "idle"
    BY <1>4
  <2>2. ASSUME NEW i \in DOMAIN k.due
        PROVE  /\ Notice(k.due[i]) \notin reminded
               /\ \A j \in DOMAIN k.due : Notice(k.due[i]) = Notice(k.due[j]) => i = j
    <3>1. Notice(k.due[i]) \notin reminded
      BY <1>1, <1>18, <2>1 DEF OneRow
    <3>2. \A j \in DOMAIN k.due : Notice(k.due[i]) = Notice(k.due[j]) => k.due[i] = k.due[j]
      BY <1>1, <1>18, <2>1 DEF OneRow
    <3>3. \A j \in DOMAIN k.due : k.due[i] = k.due[j] => i = j
      BY <1>9, <1>14, <1>18
    <3> QED
      BY <3>1, <3>2, <3>3
  <2>3. \A u \in Ticks \ {t} : \A i \in DOMAIN ticks'[u].due :
                           /\ Notice(ticks'[u].due[i]) \notin reminded
                           /\ \A j \in DOMAIN ticks'[u].due : Notice(ticks'[u].due[i]) = Notice(ticks'[u].due[j]) => i = j
    BY <1>1, <1>13, <2>1 DEF OneTick
  <2>4. \A v, u \in Ticks : v # u => ticks'[v].pc = "idle" \/ ticks'[u].pc = "idle"
    BY <1>13, <2>1
  <2>5. ~twice
    BY <1>1, <2>1 DEF OneTick
  <2> QED
    BY <1>13, <2>2, <2>3, <2>4, <2>5
<1>20. OneRow'
  <2> SUFFICES ASSUME ~overlap', NEW r \in reminders
               PROVE  /\ ~r.sent => Notice(r) \notin reminded
                      /\ \A q \in reminders : Notice(q) = Notice(r) => q = r
                      /\ \A u \in Ticks : \A i \in DOMAIN ticks'[u].due :
                           ~r.sent /\ Notice(r) = Notice(ticks'[u].due[i]) => r = ticks'[u].due[i]
    BY <1>4 DEF OneRow
  <2>1. ~overlap
    BY <1>4
  <2>2. /\ ~r.sent => Notice(r) \notin reminded
        /\ \A q \in reminders : Notice(q) = Notice(r) => q = r
        /\ \A u \in Ticks : \A i \in DOMAIN ticks[u].due :
             ~r.sent /\ Notice(r) = Notice(ticks[u].due[i]) => r = ticks[u].due[i]
    BY <1>1, <2>1 DEF OneRow
  <2>3. \A i \in DOMAIN k.due : Notice(r) = Notice(k.due[i]) => r = k.due[i]
    BY <1>18, <2>2
  <2> QED
    BY <1>13, <2>2, <2>3
<1>21. RowsAhead'
  <2> SUFFICES ASSUME NEW s \in Editors, syncs[s].pc = "insert", NEW w \in syncs[s].rows
               PROVE  /\ w.from = s /\ w.ev = syncs[s].ev /\ ~w.sent /\ w \notin reminders
                      /\ \A u \in Ticks : \A i \in DOMAIN ticks'[u].due : ticks'[u].due[i] # w
    BY <1>4 DEF RowsAhead, Inserting
  <2>1. /\ w.from = s /\ w.ev = syncs[s].ev /\ ~w.sent /\ w \notin reminders
        /\ \A u \in Ticks : \A i \in DOMAIN ticks[u].due : ticks[u].due[i] # w
    BY <1>1 DEF RowsAhead, Inserting
  <2> QED
    BY <1>13, <1>18, <2>1
<1>22. NewNotice'
  <2> SUFFICES ASSUME ~overlap', NEW s \in Editors, syncs[s].pc = "insert", NEW w \in syncs[s].rows
               PROVE  /\ Notice(w) \notin reminded
                      /\ \A r \in reminders : Notice(r) # Notice(w)
                      /\ \A u \in Ticks : \A i \in DOMAIN ticks'[u].due : Notice(ticks'[u].due[i]) # Notice(w)
                      /\ \A o \in Editors \ {s} : syncs[o].pc = "insert" => \A x \in syncs[o].rows : Notice(x) # Notice(w)
    BY <1>4 DEF NewNotice, Inserting
  <2>1. ~overlap
    BY <1>4
  <2>2. /\ Notice(w) \notin reminded
        /\ \A r \in reminders : Notice(r) # Notice(w)
        /\ \A u \in Ticks : \A i \in DOMAIN ticks[u].due : Notice(ticks[u].due[i]) # Notice(w)
        /\ \A o \in Editors \ {s} : syncs[o].pc = "insert" => \A x \in syncs[o].rows : Notice(x) # Notice(w)
    BY <1>1, <2>1 DEF NewNotice, Inserting
  <2>3. \A i \in DOMAIN k.due : Notice(k.due[i]) # Notice(w)
    BY <1>18, <2>2
  <2> QED
    BY <1>13, <2>2, <2>3
<1> QED
  BY <1>13, <1>15, <1>16, <1>17, <1>19, <1>20, <1>21, <1>22 DEF TickInv, RowInv

(* A tick that runs, and the first of its rows.                            *)
LEMMA RunningType ==
    ASSUME TickInv, NEW t \in Ticks, ticks[t].pc # "idle"
    PROVE  /\ ticks[t] \in RunningTick /\ ticks[t].due # <<>> /\ 1 \in DOMAIN ticks[t].due
           /\ TickRow(t) = ticks[t].due[1] /\ TickRow(t) \in eventReminders
           /\ TickRow(t).ev \in DOMAIN events
<1>1. CalType /\ RowsKnown
  BY DEF TickInv, RowInv
<1>2. ticks[t] \in RunningTick /\ ticks[t].due # <<>>
  BY <1>1 DEF CalType, CalTicks, NoTick
<1>3. ticks[t].due \in Seq(eventReminders)
  BY <1>2 DEF RunningTick
<1>4. 1 \in DOMAIN ticks[t].due /\ TickRow(t) = ticks[t].due[1]
  BY <1>2, <1>3 DEF TickRow
<1> QED
  BY <1>1, <1>2, <1>4, DueType DEF RowsKnown

(* Marking makes no row due.                                               *)
LEMMA MarkedRows ==
    ASSUME TickInv, NEW row \in eventReminders, row.ev \in DOMAIN events,
           reminders' = Marked(reminders, row), ~row.sent
    PROVE  NoneDueAgain /\ row \notin reminders'
<1>1. reminders \subseteq eventReminders
  BY DEF TickInv, CalType
<1>2. PICK q : q = [row EXCEPT !.sent = TRUE]
  OBVIOUS
<1>3. q \in eventReminders /\ q.sent /\ q.ev = row.ev /\ Notice(q) = Notice(row) /\ q # row
  BY <1>2 DEF eventReminders, Notice
<1>4. reminders' = {r \in reminders : r # row} \union ({q : r \in reminders \intersect {row}})
  BY <1>2 DEF Marked
<1>5. row \notin reminders' /\ \A r \in reminders' \ reminders : r = q /\ row \in reminders
  BY <1>3, <1>4
<1>6. reminders' \subseteq eventReminders
  BY <1>1, <1>3, <1>4
<1> QED
  BY <1>3, <1>5, <1>6 DEF NoneDueAgain

LEMMA CachedType ==
    ASSUME TickInv, NEW t \in Ticks, ticks[t].pc # "idle"
    PROVE  Cached(t) \in CachedEvents
<1> DEFINE e == TickRow(t).ev
           D == (DOMAIN ticks[t].read \union {e}) \intersect {ticks[t].due[i].ev : i \in 2..Len(ticks[t].due)}
<1>1. ticks[t].read \in CachedEvents /\ e \in DOMAIN events /\ events[e] \in calendarEvents
      /\ e \in 1..MaxEvents
  BY RunningType, EventOfType DEF RunningTick, TickInv
<1>2. PICK E \in SUBSET (1..MaxEvents) : ticks[t].read \in [E -> calendarEvents]
  BY <1>1 DEF CachedEvents
<1>3. EventOf(t) \in calendarEvents
  BY <1>1, <1>2 DEF EventOf
<1>4. D \in SUBSET (1..MaxEvents) /\ D \subseteq E \union {e}
  BY <1>1, <1>2
<1>5. Cached(t) = [x \in D |-> IF x = e THEN EventOf(t) ELSE ticks[t].read[x]]
  BY DEF Cached
<1> HIDE DEF D, e
<1>6. Cached(t) \in [D -> calendarEvents]
  BY <1>2, <1>3, <1>4, <1>5
<1> QED
  BY <1>4, <1>6 DEF CachedEvents

LEMMA MarksStep ==
    ASSUME TickInv, NEW t \in Ticks, TickMarks(t)
    PROVE  TickInv'
<1> DEFINE k0 == [ticks[t] EXCEPT !.read = Cached(t)]
           k == IF Skips(t) THEN Advanced(k0) ELSE [k0 EXCEPT !.pc = "send"]
<1>1. /\ ticks[t].pc = "row" /\ reminders' = Marked(reminders, TickRow(t))
      /\ ticks' = [ticks EXCEPT ![t] = k]
      /\ UNCHANGED <<clock, events, reminded, twice, overlap, task, syncs, astray>>
  BY DEF TickMarks, Handled
<1>2. /\ ticks[t] \in RunningTick /\ ticks[t].due # <<>> /\ 1 \in DOMAIN ticks[t].due
      /\ TickRow(t) = ticks[t].due[1] /\ TickRow(t) \in eventReminders
      /\ TickRow(t).ev \in DOMAIN events
  BY <1>1, RunningType
<1>3. ~TickRow(t).sent
  BY <1>2 DEF TickInv, RowInv, RowsHeld
<1>4. NoneDueAgain /\ ticks[t].due[1] \notin reminders'
  BY <1>1, <1>2, <1>3, MarkedRows
<1>5. k0 \in RunningTick /\ k0.due = ticks[t].due
  BY <1>1, <1>2, CachedType DEF RunningTick
<1> HIDE DEF k0
<1>6. \E d \in {0, 1} : GoesOn(t, k, d)
  <2>1. CASE Skips(t)
    <3>1. k = Advanced(k0)
      BY <2>1
    <3>2. /\ k \in CalTicks /\ k.pc \in {"idle", "row"}
          /\ \A i \in DOMAIN k.due : i + 1 \in DOMAIN ticks[t].due /\ k.due[i] = ticks[t].due[i + 1]
      BY <1>2, <1>5, <3>1, AdvancedType
    <3> HIDE DEF k
    <3>3. GoesOn(t, k, 1)
      BY <1>1, <3>2 DEF GoesOn, TickBecomes
    <3> QED
      BY <3>3
  <2>2. CASE ~Skips(t)
    <3>1. k = [k0 EXCEPT !.pc = "send"]
      BY <2>2
    <3>2. k \in RunningTick /\ k.due = ticks[t].due /\ k.pc = "send"
      BY <1>5, <3>1 DEF RunningTick
    <3>3. k \in CalTicks /\ \A i \in DOMAIN ticks[t].due : i + 0 = i
      BY <1>2, <3>2 DEF CalTicks, RunningTick
    <3> HIDE DEF k
    <3>4. GoesOn(t, k, 0)
      BY <1>1, <1>4, <3>2, <3>3 DEF GoesOn, TickBecomes
    <3> QED
      BY <3>4
  <2> QED
    BY <2>1, <2>2
<1> HIDE DEF k
<1> QED
  BY <1>1, <1>4, <1>6, NothingSent

LEMMA CutStep ==
    ASSUME TickInv, NEW t \in Ticks, TickCut(t)
    PROVE  TickInv'
<1>1. ticks' = [ticks EXCEPT ![t] = NoTick]
      /\ UNCHANGED <<clock, events, reminders, reminded, twice, overlap, task, syncs, astray>>
  BY DEF TickCut
<1>2. GoesOn(t, NoTick, 0)
  BY <1>1, NoTickType DEF GoesOn, TickBecomes
<1>3. NoneDueAgain
  BY <1>1 DEF NoneDueAgain, TickInv, CalType
<1> QED
  BY <1>1, <1>2, <1>3, NothingSent

(* The notice goes out for a row that is marked.                           *)
LEMMA SendsStep ==
    ASSUME TickInv, NEW t \in Ticks, TickSends(t)
    PROVE  TickInv'
<1> DEFINE row == TickRow(t)
           k == Advanced(ticks[t])
<1>1. /\ ticks[t].pc = "send" /\ ticks' = [ticks EXCEPT ![t] = k]
      /\ reminded' = reminded \union {Notice(row)}
      /\ twice' = (twice \/ Notice(row) \in reminded)
      /\ UNCHANGED <<clock, events, reminders, overlap, task, syncs, astray>>
  BY DEF TickSends
<1>2. /\ CalType /\ RowsHeld /\ RowsKnown /\ RowsAhead /\ ToldEarly /\ OneTick /\ OneRow /\ NewNotice
      /\ clock \in Nat
  BY DEF TickInv, RowInv, CalType
<1>3. /\ ticks[t] \in RunningTick /\ ticks[t].due # <<>> /\ 1 \in DOMAIN ticks[t].due
      /\ row = ticks[t].due[1] /\ row \in eventReminders
  BY <1>1, RunningType
<1>4. ~row.sent /\ row.at <= clock /\ row \notin reminders
  BY <1>1, <1>2, <1>3 DEF RowsHeld
<1>5. /\ k \in CalTicks /\ k.pc \in {"idle", "row"}
      /\ \A i \in DOMAIN k.due : i + 1 \in DOMAIN ticks[t].due /\ k.due[i] = ticks[t].due[i + 1]
  BY <1>3, AdvancedType
<1> HIDE DEF row, k
<1>6. GoesOn(t, k, 1)
  BY <1>1, <1>5 DEF GoesOn, TickBecomes
<1>7. NoneDueAgain
  BY <1>1, <1>2 DEF NoneDueAgain, CalType
<1>8. reminded' \subseteq Notices /\ twice' \in BOOLEAN /\ overlap' \in BOOLEAN /\ reminders' \subseteq eventReminders
  BY <1>1, <1>2, <1>3 DEF CalType, Notices, eventReminders, Notice
<1>9. CalType' /\ ticks'[t] = k /\ \A u \in Ticks \ {t} : ticks'[u] = ticks[u]
  BY <1>2, <1>6, <1>8, TickType DEF GoesOn
<1>10. RowsHeld' /\ RowsKnown' /\ RowsAhead'
  BY <1>2, <1>6, <1>7, <1>9, RowsGoOn, AheadGoesOn
<1>11. ToldEarly'
  <2>1. Notice(row).at <= clock
    BY <1>4 DEF Notice
  <2> QED
    BY <1>1, <1>2, <2>1 DEF ToldEarly
<1>12. \A i \in DOMAIN k.due : i \in Nat /\ i >= 1
  BY <1>5, DueIndex
<1>13. ~overlap => /\ \A u \in Ticks \ {t} : ticks[u].pc = "idle"
                   /\ \A u \in Ticks \ {t} : DOMAIN ticks'[u].due = {}
                   /\ ~twice'
  <2> SUFFICES ASSUME ~overlap
               PROVE  /\ \A u \in Ticks \ {t} : ticks[u].pc = "idle"
                      /\ \A u \in Ticks \ {t} : DOMAIN ticks'[u].due = {}
                      /\ ~twice'
    OBVIOUS
  <2>1. \A u \in Ticks \ {t} : ticks[u].pc = "idle"
    BY <1>1, <1>2 DEF OneTick
  <2>2. \A u \in Ticks \ {t} : DOMAIN ticks'[u].due = {}
    BY <1>2, <1>9, <2>1, NoTickType DEF CalType, CalTicks, RunningTick
  <2>3. ~twice'
    BY <1>1, <1>2, <1>3 DEF OneTick
  <2> QED
    BY <2>1, <2>2, <2>3
<1>14. OneTick'
  <2> SUFFICES ASSUME ~overlap
               PROVE  /\ ~twice'
                      /\ \A v, u \in Ticks : v # u => ticks'[v].pc = "idle" \/ ticks'[u].pc = "idle"
                      /\ \A u \in Ticks : \A i \in DOMAIN ticks'[u].due :
                           /\ Notice(ticks'[u].due[i]) \notin reminded'
                           /\ \A j \in DOMAIN ticks'[u].due : Notice(ticks'[u].due[i]) = Notice(ticks'[u].due[j]) => i = j
    BY <1>1 DEF OneTick
  <2>1. \A i \in DOMAIN ticks[t].due :
           /\ Notice(ticks[t].due[i]) \notin reminded
           /\ \A j \in DOMAIN ticks[t].due : Notice(ticks[t].due[i]) = Notice(ticks[t].due[j]) => i = j
    BY <1>2 DEF OneTick
  <2>2. ASSUME NEW i \in DOMAIN k.due
        PROVE  /\ Notice(k.due[i]) \notin reminded'
               /\ \A j \in DOMAIN k.due : Notice(k.due[i]) = Notice(k.due[j]) => i = j
    <3>1. k.due[i] = ticks[t].due[i + 1] /\ i + 1 \in DOMAIN ticks[t].due /\ i + 1 # 1
      BY <1>5, <1>12
    <3>2. Notice(k.due[i]) \notin reminded /\ Notice(k.due[i]) # Notice(row)
      BY <1>3, <2>1, <3>1
    <3>3. ASSUME NEW j \in DOMAIN k.due, Notice(k.due[i]) = Notice(k.due[j]) PROVE i = j
      <4>1. i + 1 = j + 1
        BY <1>5, <2>1, <3>3
      <4> QED
        BY <1>12, <4>1
    <3> QED
      BY <1>1, <3>2, <3>3
  <2>3. \A v, u \in Ticks : v # u => ticks'[v].pc = "idle" \/ ticks'[u].pc = "idle"
    BY <1>9, <1>13
  <2>4. \A u \in Ticks : u = t \/ DOMAIN ticks'[u].due = {}
    BY <1>13
  <2> QED
    BY <1>9, <1>13, <2>2, <2>3, <2>4
<1>15. OneRow'
  <2> SUFFICES ASSUME ~overlap, NEW r \in reminders
               PROVE  /\ ~r.sent => Notice(r) \notin reminded'
                      /\ \A q \in reminders : Notice(q) = Notice(r) => q = r
                      /\ \A u \in Ticks : \A i \in DOMAIN ticks'[u].due :
                           ~r.sent /\ Notice(r) = Notice(ticks'[u].due[i]) => r = ticks'[u].due[i]
    BY <1>1 DEF OneRow
  <2>1. /\ ~r.sent => Notice(r) \notin reminded
        /\ \A q \in reminders : Notice(q) = Notice(r) => q = r
        /\ \A u \in Ticks : \A i \in DOMAIN ticks[u].due :
             ~r.sent /\ Notice(r) = Notice(ticks[u].due[i]) => r = ticks[u].due[i]
    BY <1>2 DEF OneRow
  <2>2. ~r.sent => Notice(r) # Notice(row)
    BY <1>3, <1>4, <2>1
  <2>3. \A i \in DOMAIN k.due : ~r.sent /\ Notice(r) = Notice(k.due[i]) => r = k.due[i]
    BY <1>5, <2>1
  <2>4. \A u \in Ticks : u = t \/ DOMAIN ticks'[u].due = {}
    BY <1>13
  <2> QED
    BY <1>1, <1>9, <2>1, <2>2, <2>3, <2>4
<1>16. NewNotice'
  <2> SUFFICES ASSUME ~overlap, NEW s \in Editors, syncs[s].pc = "insert", NEW w \in syncs[s].rows
               PROVE  /\ Notice(w) \notin reminded'
                      /\ \A r \in reminders : Notice(r) # Notice(w)
                      /\ \A u \in Ticks : \A i \in DOMAIN ticks'[u].due : Notice(ticks'[u].due[i]) # Notice(w)
                      /\ \A o \in Editors \ {s} : syncs[o].pc = "insert" => \A x \in syncs[o].rows : Notice(x) # Notice(w)
    BY <1>1 DEF NewNotice, Inserting
  <2>1. /\ Notice(w) \notin reminded
        /\ \A r \in reminders : Notice(r) # Notice(w)
        /\ \A u \in Ticks : \A i \in DOMAIN ticks[u].due : Notice(ticks[u].due[i]) # Notice(w)
        /\ \A o \in Editors \ {s} : syncs[o].pc = "insert" => \A x \in syncs[o].rows : Notice(x) # Notice(w)
    BY <1>2 DEF NewNotice, Inserting
  <2>2. Notice(w) # Notice(row)
    BY <1>3, <2>1
  <2>3. \A i \in DOMAIN k.due : Notice(k.due[i]) # Notice(w)
    BY <1>5, <2>1
  <2>4. \A u \in Ticks : u = t \/ DOMAIN ticks'[u].due = {}
    BY <1>13
  <2> QED
    BY <1>1, <1>9, <2>1, <2>2, <2>3, <2>4
<1> QED
  BY <1>9, <1>10, <1>11, <1>14, <1>15, <1>16 DEF TickInv, RowInv

-----------------------------------------------------------------------------
(* Both invariants hold at the start and are kept by every step.           *)
CalInv == TickInv /\ MirrorInv

LEMMA CalStart == CalInit => CalInv
<1> SUFFICES ASSUME CalInit PROVE CalInv
  OBVIOUS
<1>1. CalType
  <2>1. <<>> \in Seq(calendarEvents) /\ Len(<<>>) = 0
    OBVIOUS
  <2>2. task \in TaskRows
    BY DEF CalInit, TaskRows
  <2>3. Idle \in TaskSyncs
    BY DEF Idle, TaskSyncs
  <2>4. /\ ticks \in [Ticks -> CalTicks] /\ syncs \in [Editors -> TaskSyncs]
        /\ \A s \in Editors : syncs[s].pc \notin HasEvent
    BY <2>3, NoTickType DEF CalInit, HasEvent, Idle
  <2>5. events \in Seq(calendarEvents) /\ Len(events) <= MaxEvents
    BY <2>1, CalendarAssumption DEF CalInit
  <2> QED
    BY <2>2, <2>4, <2>5 DEF CalInit, CalType
<1>2. Linked = {} /\ OnCalendar = {}
  BY DEF CalInit, Linked, OnCalendar
<1>3. LinkedOnce /\ MirrorKept
  BY <1>2 DEF CalInit, LinkedOnce, MirrorKept, Deleting, Idle
<1>4. RowsHeld /\ RowsKnown /\ ToldEarly
  BY NoTickType DEF CalInit, RowsHeld, RowsKnown, ToldEarly
<1>5. OneTick /\ OneRow
  BY NoTickType DEF CalInit, OneTick, OneRow
<1>6. RowsAhead /\ NewNotice
  BY DEF CalInit, RowsAhead, NewNotice, Inserting, Idle
<1> QED
  BY <1>1, <1>3, <1>4, <1>5, <1>6 DEF CalInv, TickInv, RowInv, MirrorInv

(* The rows dropped of an event whose task goes: it is on its way out still. *)
LEMMA DroppedMirror ==
    ASSUME TickInv, MirrorInv, NEW s \in Editors, RowsDropped(s)
    PROVE  TickInv' /\ MirrorInv'
<1>1. CalType /\ LinkedOnce /\ MirrorKept
  BY DEF MirrorInv
<1>2. PICK v : /\ RowsEdited(s, v) /\ v.pc # "insert" /\ reminders' \subseteq reminders
               /\ v.pc = (IF syncs[s].gone THEN "delete" ELSE "idle") /\ syncs[s].pc = "drop"
  BY <1>1, DroppedStep
<1>3. TickInv'
  BY <1>2, RowsGo
<1>4. CalType' /\ syncs'[s] = v /\ \A o \in Editors \ {s} : syncs'[o] = syncs[o]
  BY <1>1, <1>2, RowsType
<1>5. UNCHANGED <<events, task, astray>>
  BY <1>2 DEF RowsEdited
<1>6. Deleting' <=> Deleting
  BY <1>2, <1>4 DEF Deleting
<1>7. Syncing' <=> Syncing
  BY <1>2, <1>4 DEF Syncing
<1>8. Linked' = Linked /\ OnCalendar' = OnCalendar
  BY <1>5 DEF Linked, OnCalendar
<1>9. Mirrored' <=> Mirrored
  BY <1>5, <1>8 DEF Mirrored, Assigned
<1>10. LinkedOnce'
  BY <1>1, <1>2, <1>4, <1>5, <1>8 DEF LinkedOnce
<1>11. MirrorKept'
  BY <1>1, <1>5, <1>6, <1>7, <1>8, <1>9 DEF MirrorKept
<1> QED
  BY <1>3, <1>4, <1>10, <1>11 DEF MirrorInv

LEMMA CalStep == CalInv /\ [CalNext]_calVars => CalInv'
<1> SUFFICES ASSUME CalInv, [CalNext]_calVars PROVE CalInv'
  OBVIOUS
<1>1. TickInv /\ MirrorInv /\ CalType
  BY DEF CalInv, TickInv
<1>2. ASSUME TickInv', UNCHANGED <<events, task, astray>>, SyncsAside PROVE CalInv'
  <2>1. CalType'
    BY <1>2 DEF TickInv
  <2>2. MirrorInv'
    BY <1>1, <1>2, <2>1, RowsMirror
  <2> QED
    BY <1>2, <2>2 DEF CalInv
<1>3. ASSUME MirrorInv', ByEditor PROVE CalInv'
  <2>1. RowInv'
    BY <1>1, <1>3, RemindersAside DEF ByEditor
  <2> QED
    BY <1>3, <2>1 DEF CalInv, TickInv, ByEditor
<1>4. CASE UNCHANGED calVars
  <2>1. TicksAside /\ NoneInserting /\ UNCHANGED events
    BY <1>4 DEF calVars, TicksAside, NoneInserting
  <2>2. RowInv'
    BY <1>1, <2>1, RemindersAside
  <2>3. CalType'
    BY <1>1, <1>4 DEF calVars, CalType
  <2> QED
    BY <1>2, <1>4, <2>2, <2>3 DEF calVars, TickInv, SyncsAside
<1>5. CASE ClockTicks
  BY <1>1, <1>2, <1>5, ClockStep DEF ClockTicks, SyncsAside
<1>6. ASSUME NEW t \in Ticks, TickStarts(t) \/ TickMarks(t) \/ TickSends(t) \/ TickCut(t)
      PROVE  CalInv'
  <2>1. TickInv'
    BY <1>1, <1>6, StartsStep, MarksStep, SendsStep, CutStep
  <2>2. UNCHANGED <<events, task, syncs, astray>>
    BY <1>6 DEF TickStarts, TickMarks, TickSends, TickCut
  <2> QED
    BY <1>2, <2>1, <2>2 DEF SyncsAside
<1>7. CASE \/ \E s \in Editors, p \in CalUsers, d \in Starts, guests \in Asks : PostEvent(s, p, d, guests)
           \/ \E s \in Editors, p \in CalUsers, e \in DOMAIN events :
                (\E d \in Starts : updateEvent(s, p, e, d)) \/ DeleteEvent(s, p, e)
           \/ \E p \in CalUsers, e \in DOMAIN events :
                \/ (\E x \in {"confirmed", "cancelled"} : updateStatus(p, e, x))
                \/ setAttendeeResponse(p, e, "declined")
  <2>1. ByMember /\ MirrorInv'
    BY <1>1, <1>7, MemberMirror
  <2>2. ByEditor
    BY <2>1 DEF ByMember, ByEditor
  <2> QED
    BY <1>3, <2>1, <2>2
<1>8. ASSUME NEW s \in Editors, NEW p \in CalUsers,
             \/ \E d \in Starts \union {0}, a \in Admins \union {NoOne} :
                  createTask(s, p, d, a) \/ updateTask(s, p, d, a)
             \/ \E raci \in Asks : setTaskRaci(s, p, raci)
      PROVE  CalInv'
  BY <1>1, <1>3, <1>8, TaskStep
<1>9. ASSUME NEW s \in Editors,
             \/ syncTaskDeadline(s) \/ upsertTaskDeadline(s) \/ SyncFails(s)
             \/ deleteTask(s) \/ TaskDeleted(s)
      PROVE  CalInv'
  BY <1>1, <1>3, <1>9, ReadTaskStep, UpsertStep, SyncFailsStep, DeleteTaskStep, TaskDeletedStep
<1>10. ASSUME NEW s \in Editors, RowsDeleted(s) \/ RowsInserted(s) PROVE CalInv'
  BY <1>1, <1>2, <1>10, DeletedStep, InsertedStep
<1>11. ASSUME NEW s \in Editors, EventReread(s) PROVE CalInv'
  <2>1. PICK v : RowsEdited(s, v) /\ RowsOnly(s, v) /\ v.pc # "insert" /\ reminders' = reminders
    BY <1>1, <1>11, RereadStep
  <2>2. TickInv'
    BY <1>1, <2>1, RowsGo
  <2> QED
    BY <1>2, <2>1, <2>2 DEF RowsEdited, SyncsAside
<1>12. ASSUME NEW s \in Editors, RowsDropped(s) PROVE CalInv'
  BY <1>1, <1>12, DroppedMirror DEF CalInv
<1>13. ASSUME EventNext PROVE CalInv'
  BY <1>5, <1>6, <1>7, <1>9, <1>10, <1>11, <1>12, <1>13 DEF EventNext, TickStep
<1>14. ASSUME TaskNext PROVE CalInv'
  BY <1>8, <1>9, <1>14 DEF TaskNext
<1> QED
  BY <1>4, <1>13, <1>14 DEF CalNext

LEMMA CalInvHolds == CalSpec => []CalInv
  BY CalStart, CalStep, PTL DEF CalSpec

(* For any people, invocations, requests that edit and batch: nobody is     *)
(* reminded twice of one start, unless two ticks overlap or two requests   *)
(* have both deleted an event's rows before the first of them inserts      *)
(* (runDueReminders marks a row before it sends; scheduleReminders deletes *)
(* the rows of an event and inserts only those whose time has not come).   *)
THEOREM RemindedOnceHolds == CalSpec => []RemindedOnce
<1>1. CalInv => RemindedOnce
  BY DEF CalInv, TickInv, RowInv, OneTick, RemindedOnce
<1> QED
  BY <1>1, CalInvHolds, PTL

(* For any number of overlapping saves: at rest the deadline of the task is *)
(* on the calendar once, as the task has it, unless the event was changed   *)
(* by hand, a sync failed or syncs crossed (syncTaskDeadline,               *)
(* upsertTaskDeadline).                                                    *)
THEOREM DeadlineMirroredHolds == CalSpec => []DeadlineMirrored
<1>1. CalInv => DeadlineMirrored
  <2> SUFFICES ASSUME CalInv, astray = "no", \A s \in Editors : syncs[s].pc = "idle"
               PROVE  Mirrored
    BY DEF DeadlineMirrored
  <2>1. ~Deleting /\ ~Syncing
    BY DEF Deleting, Syncing
  <2>2. ~task.there => OnCalendar = {}
    BY DEF CalInv, MirrorInv, MirrorKept
  <2>3. task.there => Mirrored
    BY <2>1 DEF CalInv, MirrorInv, MirrorKept
  <2> QED
    BY <2>2, <2>3 DEF Mirrored
<1> QED
  BY <1>1, CalInvHolds, PTL
=============================================================================

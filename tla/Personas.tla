------------------------------ MODULE Personas ------------------------------
(***************************************************************************)
(* The personas agents work as and who may configure them: personas.ts,    *)
(* agent-config.ts and persona-scope.ts, behind the personas/* and         *)
(* persona-config-grants/* routes.                                         *)
(*                                                                         *)
(* A request is authorised, then makes its statements one by one; others   *)
(* run between them.  Foreign keys point from prompts, skills, resources,  *)
(* grants and threads to the persona, with no cascade.  What prompts and   *)
(* settings say is left out: a layer is set or not, a skill on or off.     *)
(***************************************************************************)
EXTENDS Naturals, FiniteSets

CONSTANTS Accounts, Owner,    \* members, and the one who owns the workspace
          Templates, Customs, \* ids of the default personas, and of others
          Layers, Skills,     \* prompt layers (1-4) and skills
          Resources,          \* ids of resources
          Grants, AllPersonas,\* ids of grants, and what one over all names
          Reqs,               \* requests in flight
          MaxReqs             \* bound on requests

VARIABLES
    role,       \* user -> "Member", "Partner" or "gone"; the owner's is fixed
    personas,   \* ids that have a row
    prompts,    \* <<persona, layer>> with content
    skills,     \* <<persona, skill>> enabled
    resources,  \* id -> [of, on]
    grants,     \* id -> [who, of]
    talked,     \* personas some thread is with
    reqs,       \* request -> what it does
    overstepped,\* a persona was configured by one who might not
    begun       \* requests so far

perVars == <<role, personas, prompts, skills, resources, grants, talked, reqs, overstepped, begun>>

NoRequest == [pc |-> "free"]

PerInit ==
    /\ role = [u \in Accounts |-> "Member"]
    /\ personas = {} /\ prompts = {} /\ skills = {} /\ talked = {}
    /\ resources = <<>> /\ grants = <<>>
    /\ reqs = [q \in Reqs |-> NoRequest]
    /\ overstepped = FALSE /\ begun = 0

Ask(q) == reqs[q].pc = "free" /\ begun < MaxReqs /\ begun' = begun + 1

Done(q) == reqs' = [reqs EXCEPT ![q] = NoRequest]

-----------------------------------------------------------------------------
(* Who may configure what. *)

personaInWorkspace(p) == p \in personas

Internal(u) == u = Owner \/ role[u] = "Member"

(* Mutant: any grant will do. *)
canConfigureAny(u, p) ==
    /\ personaInWorkspace(p)
    /\ u = Owner \/ (Internal(u) /\ \E g \in DOMAIN grants : grants[g].who = u)

canConfigurePersona(u, p) ==
    /\ personaInWorkspace(p)
    /\ u = Owner \/ (Internal(u) /\ \E g \in DOMAIN grants :
                        grants[g].who = u /\ grants[g].of \in {AllPersonas, p})

(* What the delegation promises, apart from how it is checked. *)
Entitled(u) ==
    {p \in Templates \union Customs :
        u = Owner \/ (role[u] = "Member" /\ \E g \in DOMAIN grants :
                         grants[g].who = u /\ (grants[g].of = AllPersonas \/ grants[g].of = p))}

Touch(q, touched) == overstepped' = (overstepped \/ ~(touched \subseteq reqs[q].may))

-----------------------------------------------------------------------------
(* Personas come into being. *)

(* The list, on first read, and the owner's re-seed: what is missing.  A   *)
(* second seeding of the same key fails on the index.                      *)
seedDefaultPersonas(u) ==
    /\ Internal(u) /\ (personas = {} \/ u = Owner) /\ ~(Templates \subseteq personas)
    /\ personas' = personas \union Templates
    /\ skills' = skills \union (Templates \X Skills)
    /\ UNCHANGED <<role, prompts, resources, grants, talked, reqs, overstepped, begun>>

getPersonaConfig(p) ==
    [layers |-> {l \in Layers : <<p, l>> \in prompts}, skills |-> {s \in Skills : <<p, s>> \in skills}]

(* clonePersona reads the source, importPersona takes what it is given.    *)
StartCopy(q, cfg) ==
    /\ Ask(q)
    /\ reqs' = [reqs EXCEPT ![q] = [pc |-> "insert", cfg |-> cfg, may |-> Entitled(Owner)]]
    /\ UNCHANGED <<role, personas, prompts, skills, resources, grants, talked, overstepped>>

clonePersona(q, p) == personaInWorkspace(p) /\ StartCopy(q, getPersonaConfig(p))

importPersona(q, ls, ss) == StartCopy(q, [layers |-> ls, skills |-> ss])

InsertCopy(q, p) ==
    /\ reqs[q].pc = "insert" /\ p \in Customs \ personas
    /\ personas' = personas \union {p}
    /\ reqs' = [reqs EXCEPT ![q] = [pc |-> "layers", cfg |-> @.cfg, of |-> p, may |-> @.may \union {p}]]
    /\ UNCHANGED <<role, prompts, skills, resources, grants, talked, overstepped, begun>>

(* Either fails when the copy is deleted already. *)
CopyLayers(q) ==
    /\ reqs[q].pc = "layers"
    /\ IF personaInWorkspace(reqs[q].of)
       THEN /\ prompts' = prompts \union ({reqs[q].of} \X reqs[q].cfg.layers)
            /\ reqs' = [reqs EXCEPT ![q].pc = "skills"]
       ELSE prompts' = prompts /\ Done(q)
    /\ UNCHANGED <<role, personas, skills, resources, grants, talked, overstepped, begun>>

CopySkills(q) ==
    /\ reqs[q].pc = "skills"
    /\ skills' = IF personaInWorkspace(reqs[q].of)
                 THEN skills \union ({reqs[q].of} \X reqs[q].cfg.skills) ELSE skills
    /\ Done(q)
    /\ UNCHANGED <<role, personas, prompts, resources, grants, talked, overstepped, begun>>

-----------------------------------------------------------------------------
(* Configuring one: authorised, then done. *)

Changes == {"prompt", "skill", "settings"}

Configure(q, u, p, what) ==
    /\ Ask(q) /\ canConfigurePersona(u, p)
    /\ reqs' = [reqs EXCEPT ![q] = [pc |-> what, of |-> p, may |-> Entitled(u)]]
    /\ UNCHANGED <<role, personas, prompts, skills, resources, grants, talked, overstepped>>

(* assertPersonaInWorkspace: a persona deleted meanwhile takes nothing.    *)
setPromptLayer(q, l) ==
    /\ reqs[q].pc = "prompt"
    /\ prompts' = LET x == <<reqs[q].of, l>>
                  IN  IF ~personaInWorkspace(reqs[q].of) THEN prompts
                      ELSE IF x \in prompts THEN prompts \ {x} ELSE prompts \union {x}
    /\ Touch(q, {reqs[q].of}) /\ Done(q)
    /\ UNCHANGED <<role, personas, skills, resources, grants, talked, begun>>

setSkillEnabled(q, s) ==
    /\ reqs[q].pc = "skill"
    /\ skills' = LET x == <<reqs[q].of, s>>
                 IN  IF ~personaInWorkspace(reqs[q].of) THEN skills
                     ELSE IF x \in skills THEN skills \ {x} ELSE skills \union {x}
    /\ Touch(q, {reqs[q].of}) /\ Done(q)
    /\ UNCHANGED <<role, personas, prompts, resources, grants, talked, begun>>

updatePersona(q) ==
    /\ reqs[q].pc = "settings"
    /\ Touch(q, {reqs[q].of}) /\ Done(q)
    /\ UNCHANGED <<role, personas, prompts, skills, resources, grants, talked, begun>>

ConfigureResource(q, u, p, r, what) ==
    /\ Ask(q) /\ canConfigurePersona(u, p)
    /\ reqs' = [reqs EXCEPT ![q] = [pc |-> what, of |-> p, rid |-> r, may |-> Entitled(u)]]
    /\ UNCHANGED <<role, personas, prompts, skills, resources, grants, talked, overstepped>>

addResource(q) ==
    /\ reqs[q].pc = "add"
    /\ resources' = IF personaInWorkspace(reqs[q].of) /\ reqs[q].rid \notin DOMAIN resources
                    THEN [r \in DOMAIN resources \union {reqs[q].rid} |->
                            IF r \in DOMAIN resources THEN resources[r] ELSE [of |-> reqs[q].of, on |-> TRUE]]
                    ELSE resources
    /\ Touch(q, {reqs[q].of}) /\ Done(q)
    /\ UNCHANGED <<role, personas, prompts, skills, grants, talked, begun>>

(* Mutant: by the resource's id alone. *)
ResourceOfAny(p, r) == r \in DOMAIN resources

(* Both changes are scoped to the persona the caller was authorised for.   *)
ResourceOf(p, r) == r \in DOMAIN resources /\ resources[r].of = p

setResourceEnabled(q) ==
    /\ reqs[q].pc = "toggle"
    /\ IF ResourceOf(reqs[q].of, reqs[q].rid)
       THEN /\ resources' = [resources EXCEPT ![reqs[q].rid].on = ~@]
            /\ Touch(q, {resources[reqs[q].rid].of})
       ELSE UNCHANGED <<resources, overstepped>>
    /\ Done(q)
    /\ UNCHANGED <<role, personas, prompts, skills, grants, talked, begun>>

deleteResource(q) ==
    /\ reqs[q].pc = "drop"
    /\ IF ResourceOf(reqs[q].of, reqs[q].rid)
       THEN /\ resources' = [r \in DOMAIN resources \ {reqs[q].rid} |-> resources[r]]
            /\ Touch(q, {resources[reqs[q].rid].of})
       ELSE UNCHANGED <<resources, overstepped>>
    /\ Done(q)
    /\ UNCHANGED <<role, personas, prompts, skills, grants, talked, begun>>

-----------------------------------------------------------------------------
(* Deleting one: prompts, skills, then the row, which the keys of its      *)
(* resources, grants and threads may hold back.                            *)
deletePersona(q, p) ==
    /\ Ask(q) /\ p \in personas \ Templates
    /\ reqs' = [reqs EXCEPT ![q] = [pc |-> "delPrompts", of |-> p]]
    /\ UNCHANGED <<role, personas, prompts, skills, resources, grants, talked, overstepped>>

DeletePrompts(q) ==
    /\ reqs[q].pc = "delPrompts"
    /\ prompts' = {x \in prompts : x[1] # reqs[q].of}
    /\ reqs' = [reqs EXCEPT ![q].pc = "delSkills"]
    /\ UNCHANGED <<role, personas, skills, resources, grants, talked, overstepped, begun>>

DeleteSkills(q) ==
    /\ reqs[q].pc = "delSkills"
    /\ skills' = {x \in skills : x[1] # reqs[q].of}
    /\ reqs' = [reqs EXCEPT ![q].pc = "delRow"]
    /\ UNCHANGED <<role, personas, prompts, resources, grants, talked, overstepped, begun>>

Referenced(p) ==
    \/ p \in talked
    \/ \E x \in prompts \union skills : x[1] = p
    \/ \E r \in DOMAIN resources : resources[r].of = p
    \/ \E g \in DOMAIN grants : grants[g].of = p

DeletePersonaRow(q) ==
    /\ reqs[q].pc = "delRow"
    /\ personas' = IF Referenced(reqs[q].of) THEN personas ELSE personas \ {reqs[q].of}
    /\ Done(q)
    /\ UNCHANGED <<role, prompts, skills, resources, grants, talked, overstepped, begun>>

-----------------------------------------------------------------------------
(* Delegation: the owner's.  The check for a grant alike and the insert    *)
(* are two statements, and no index makes a grant unique.                  *)
grantConfig(q, u, p) ==
    /\ Ask(q)
    /\ p = AllPersonas \/ personaInWorkspace(p)
    /\ ~\E g \in DOMAIN grants : grants[g] = [who |-> u, of |-> p]
    /\ reqs' = [reqs EXCEPT ![q] = [pc |-> "grant", who |-> u, of |-> p]]
    /\ UNCHANGED <<role, personas, prompts, skills, resources, grants, talked, overstepped>>

InsertGrant(q, g) ==
    /\ reqs[q].pc = "grant" /\ g \in Grants \ DOMAIN grants
    /\ grants' = IF reqs[q].of = AllPersonas \/ personaInWorkspace(reqs[q].of)
                 THEN [x \in DOMAIN grants \union {g} |->
                         IF x = g THEN [who |-> reqs[q].who, of |-> reqs[q].of] ELSE grants[x]]
                 ELSE grants
    /\ Done(q)
    /\ UNCHANGED <<role, personas, prompts, skills, resources, talked, overstepped, begun>>

revokeConfig(g) ==
    /\ grants' = [x \in DOMAIN grants \ {g} |-> grants[x]]
    /\ UNCHANGED <<role, personas, prompts, skills, resources, talked, reqs, overstepped, begun>>

(* A member is demoted, offboarded or comes back: the grants stay.         *)
RoleChanges(u, r) ==
    /\ u # Owner /\ role[u] # r /\ begun < MaxReqs /\ begun' = begun + 1
    /\ role' = [role EXCEPT ![u] = r]
    /\ UNCHANGED <<personas, prompts, skills, resources, grants, talked, reqs, overstepped>>

(* Someone talks to it: a thread. *)
Talk(p) ==
    /\ p \in personas \ talked
    /\ talked' = talked \union {p}
    /\ UNCHANGED <<role, personas, prompts, skills, resources, grants, reqs, overstepped, begun>>

PerNext ==
    \/ \E u \in Accounts : seedDefaultPersonas(u) \/ (\E r \in {"Member", "Partner", "gone"} : RoleChanges(u, r))
    \/ \E p \in personas : Talk(p)
    \/ \E g \in DOMAIN grants : revokeConfig(g)
    \/ \E q \in Reqs :
         \/ \E p \in personas :
              \/ clonePersona(q, p) \/ deletePersona(q, p)
              \/ \E u \in Accounts :
                   \/ \E what \in Changes : Configure(q, u, p, what)
                   \/ \E r \in Resources, what \in {"add", "toggle", "drop"} :
                        ConfigureResource(q, u, p, r, what)
         \/ \E ls \in SUBSET Layers, ss \in SUBSET Skills : importPersona(q, ls, ss)
         \/ \E p \in Customs : InsertCopy(q, p)
         \/ CopyLayers(q) \/ CopySkills(q)
         \/ \E l \in Layers : setPromptLayer(q, l)
         \/ \E s \in Skills : setSkillEnabled(q, s)
         \/ updatePersona(q) \/ addResource(q) \/ setResourceEnabled(q) \/ deleteResource(q)
         \/ DeletePrompts(q) \/ DeleteSkills(q) \/ DeletePersonaRow(q)
         \/ \E u \in Accounts \ {Owner}, p \in personas \union {AllPersonas} : grantConfig(q, u, p)
         \/ \E g \in Grants : InsertGrant(q, g)

PerSpec == PerInit /\ [][PerNext]_perVars

-----------------------------------------------------------------------------
(* A persona's prompts, skills, settings and resources are changed only by *)
(* the owner, or by an internal member who held a grant over that persona  *)
(* when the request was authorised: a delegate of one persona never        *)
(* reaches another's, by a resource's id or after the grant, the role or   *)
(* the persona has gone.                                                   *)
DelegateConfined == ~overstepped

=============================================================================

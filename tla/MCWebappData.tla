--------------------------- MODULE MCWebappData ---------------------------
(* The parts of the web application that share no state, for TLC.  Each    *)
(* behaviour explores the part that "part" names and leaves the others as  *)
(* they start.  x1 and x2 are the two requests, workers, pages or people   *)
(* that overlap in a part; exchanging them changes nothing.                *)
EXTENDS Workspace, SignIn, Memory, AuditChain, Mail, RecordForm, Personas, Documents,
        Calendar, Agents, Imports, Crm, TLC

CONSTANTS x1, x2, owner, member, guest, lobby, dm, mail, key, tag, field,
          doc, room, hall, site, base, copy, skill, resource,
          everyone, fact1, fact2, derived, value, blank, tab

VARIABLE part

Pair == {x1, x2}
Interchangeable == Permutations(Pair)

(* A contact list that repeats an address, a table with a title line, two   *)
(* columns of one name and an empty row, and a note in which the model is   *)
(* unsure of the second person.                                             *)
Word(v) == Cell("word", v)
Address(v) == Cell("email", v)

ContactList == << <<Word("email"), Word("company"), Word("deal")>>,
                  <<Address("e1"), Word("acme"), Word("d")>>,
                  <<Address("e2"), Word("acme"), Empty>>,
                  <<Address("e1"), Word("acme"), Word("d")>> >>
Titled == << <<Word("title"), Empty>>,
             <<Word("name"), Word("street"), Word("name")>>,
             <<Word("n1"), Word("s1"), Word("n2")>>,
             <<Word("n1"), Word("s2"), Empty>>,
             <<Empty, Empty, Empty>> >>
Extracted(name, email, title, confidence) ==
    [cells |-> [t \in StdTargets |->
                  CASE t = "contact.name" -> name
                    [] t = "contact.email" -> email
                    [] t = "task.title" -> title
                    [] OTHER -> Empty],
     confidence |-> confidence]
Note == << Extracted(Word("n1"), Address("e1"), Word("t"), 12),
           Extracted(Word("n2"), Address("e1"), Empty, 2),
           Extracted(Empty, Empty, Empty, 9) >>

Dropped == {ContactList, Titled}
Pasted == {Note}

(* Accounts, deals and contacts of one name; a deal writes it with a dot.  *)
Named(b, d) == [base |-> b, dotted |-> d]
RecordNames == [account |-> {Named("a", FALSE)}, deal |-> {Named("a", TRUE)},
                contact |-> {Named("a", FALSE)}]

(* One window on the agent.                                                *)
WindowOwner == tab :> owner

(* A channel of one and a channel of two.                                  *)
Seats == (room :> {member}) @@ (hall :> {member, guest})

(* One mailbox with two spellings.                                         *)
Mailbox == ("Ada" :> "ada") @@ ("ada" :> "ada")

-----------------------------------------------------------------------------
ownVars == <<wsVars, signVars, memVars, vars, mailVars, formVars, perVars, docVars,
             calVars, agVars, impVars, crmVars>>

DataInit ==
    /\ WsInit /\ SignInit /\ MemInit /\ Init /\ MailInit /\ FormInit /\ PerInit /\ DocInit
    /\ CalInit /\ AgInit /\ ImpInit /\ CrmInit
    /\ part \in {"workspace", "sign-in", "memory", "audit chain", "mail", "record form",
                "personas", "documents", "deadlines", "agents", "imports", "crm"}

DataNext ==
    \/ /\ part = "workspace" /\ WsNext
       /\ UNCHANGED <<part, signVars, memVars, vars, mailVars, formVars, perVars, docVars,
                        calVars, agVars, impVars, crmVars>>
    \/ /\ part = "sign-in" /\ SignNext
       /\ UNCHANGED <<part, wsVars, memVars, vars, mailVars, formVars, perVars, docVars,
                        calVars, agVars, impVars, crmVars>>
    \/ /\ part = "memory" /\ MemNext
       /\ UNCHANGED <<part, wsVars, signVars, vars, mailVars, formVars, perVars, docVars,
                        calVars, agVars, impVars, crmVars>>
    \/ /\ part = "audit chain" /\ Next
       /\ UNCHANGED <<part, wsVars, signVars, memVars, mailVars, formVars, perVars, docVars,
                        calVars, agVars, impVars, crmVars>>
    \/ /\ part = "mail" /\ MailNext
       /\ UNCHANGED <<part, wsVars, signVars, memVars, vars, formVars, perVars, docVars,
                        calVars, agVars, impVars, crmVars>>
    \/ /\ part = "record form" /\ FormNext
       /\ UNCHANGED <<part, wsVars, signVars, memVars, vars, mailVars, perVars, docVars,
                        calVars, agVars, impVars, crmVars>>
    \/ /\ part = "personas" /\ PerNext
       /\ UNCHANGED <<part, wsVars, signVars, memVars, vars, mailVars, formVars, docVars,
                        calVars, agVars, impVars, crmVars>>
    \/ /\ part = "documents" /\ DocNext
       /\ UNCHANGED <<part, wsVars, signVars, memVars, vars, mailVars, formVars, perVars,
                        calVars, agVars, impVars, crmVars>>
    \/ /\ part = "deadlines" /\ CalNext
       /\ UNCHANGED <<part, wsVars, signVars, memVars, vars, mailVars, formVars, perVars,
                        docVars, agVars, impVars, crmVars>>
    \/ /\ part = "agents" /\ AgNext
       /\ UNCHANGED <<part, wsVars, signVars, memVars, vars, mailVars, formVars, perVars,
                        docVars, calVars, impVars, crmVars>>
    \/ /\ part = "imports" /\ ImpNext
       /\ UNCHANGED <<part, wsVars, signVars, memVars, vars, mailVars, formVars, perVars,
                        docVars, calVars, agVars, crmVars>>
    \/ /\ part = "crm" /\ CrmNext
       /\ UNCHANGED <<part, wsVars, signVars, memVars, vars, mailVars, formVars, perVars,
                        docVars, calVars, agVars, impVars>>

DataSpec == DataInit /\ [][DataNext]_<<part, ownVars>>

(* A log is explored up to three rows, those under way included, and one   *)
(* whose appends overlapped from two rows no further; a fourth request to   *)
(* personas only as long as no thread is with one; a fourth act on          *)
(* documents only while no agent replies; and a second approval of findings *)
(* that follows a lost answer only without a recall.                        *)
Regions ==
    /\ part = "audit chain" =>
          /\ Len(rows) + Cardinality({x \in Pair : pending[x] # {}}) <= 3
          /\ overlapped => Len(rows) <= 2
    /\ part = "personas" /\ begun = 4 => talked = {}
    /\ part = "documents" /\ acts = 4 => reply.pc = "idle"
    /\ part = "memory" /\ tries = 2 /\ lost # {} => asked = 0

=============================================================================

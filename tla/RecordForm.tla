----------------------------- MODULE RecordForm -----------------------------
(***************************************************************************)
(* The record page of the CRM (RecordFile.tsx) in several browsers: a form *)
(* filled from the record when the page is mounted, whose Save sends the   *)
(* standard fields that differ in one request and then every custom field  *)
(* that differs in one of its own; and the page's notes and tags.          *)
(***************************************************************************)
EXTENDS Naturals, FiniteSets, Sequences, SequencesExt

CONSTANTS Users,            \* who has the page open
          Std, Custom,      \* standard fields and custom fields
          Vals, Blank,      \* values, and the empty one
          MaxInputs          \* bound on inputs, saves and refreshes

VARIABLES
    record,     \* the record: field -> value
    forms,      \* user -> [file: the record as rendered, vals: the form, pc, todo]
    meant,      \* user -> fields typed into since the page was mounted
    mixed,      \* user -> the page was refreshed while it stayed mounted
    broke,      \* a save changed a field its user had not typed into
    inputs       \* inputs, saves and refreshes so far

formVars == <<record, forms, meant, mixed, broke, inputs>>

Fields == Std \union Custom

FormInit ==
    /\ record \in [Fields -> {Blank}]
    /\ forms = [u \in Users |-> [file |-> record, vals |-> record, pc |-> "view", todo |-> <<>>]]
    /\ meant = [u \in Users |-> {}] /\ mixed = [u \in Users |-> FALSE]
    /\ broke = FALSE /\ inputs = 0

Edit == inputs < MaxInputs /\ inputs' = inputs + 1

(* The form is filled once, from the record as it was rendered. *)
stdInitial(u) ==
    /\ forms[u].pc = "view" /\ Edit
    /\ forms' = [forms EXCEPT ![u] = [file |-> record, vals |-> record, pc |-> "view", todo |-> <<>>]]
    /\ meant' = [meant EXCEPT ![u] = {}] /\ mixed' = [mixed EXCEPT ![u] = FALSE]
    /\ UNCHANGED <<record, broke>>

FieldInput(u, f, v) ==
    /\ forms[u].pc \in {"view", "edit"} /\ forms[u].vals[f] # v /\ Edit
    /\ forms' = [forms EXCEPT ![u].vals[f] = v, ![u].pc = "edit"]
    /\ meant' = [meant EXCEPT ![u] = @ \union {f}]
    /\ UNCHANGED <<record, mixed, broke>>

(* Mutant: every field is sent. *)
ChangedAll(u) == Fields

(* What differs from the record as rendered. *)
Changed(u) == {f \in Fields : forms[u].vals[f] # forms[u].file[f]}

(* The standard fields in one request, then one for each custom field. *)
save(u) ==
    /\ forms[u].pc = "edit"
    /\ forms' = [forms EXCEPT ![u].pc = "saving",
                   ![u].todo = (IF Changed(u) \intersect Std = {} THEN <<>> ELSE <<Changed(u) \intersect Std>>)
                               \o SetToSeq({{f} : f \in Changed(u) \intersect Custom})]
    /\ UNCHANGED <<record, meant, mixed, broke, inputs>>

Stored(u, fs) ==
    /\ record' = [f \in Fields |-> IF f \in fs THEN forms[u].vals[f] ELSE record[f]]
    /\ broke' = (broke \/ (~mixed[u] /\ \E f \in fs \ meant[u] : record[f] # record'[f]))

(* stdPatch, setFieldValue: the answer is not looked at. *)
SaveRequest(u) ==
    /\ forms[u].pc = "saving" /\ forms[u].todo # <<>>
    /\ Stored(u, Head(forms[u].todo)) \/ UNCHANGED <<record, broke>>
    /\ forms' = [forms EXCEPT ![u].todo = Tail(@)]
    /\ UNCHANGED <<meant, mixed, inputs>>

(* The request could not be made: the rest is not sent, the form stays. *)
SaveBreaks(u) ==
    /\ forms[u].pc = "saving" /\ forms[u].todo # <<>>
    /\ forms' = [forms EXCEPT ![u].pc = "edit", ![u].todo = <<>>]
    /\ UNCHANGED <<record, meant, mixed, broke, inputs>>

(* The page is refreshed, the form is not: it stays mounted with its vals. *)
Saved(u) ==
    /\ forms[u].pc = "saving" /\ forms[u].todo = <<>>
    /\ forms' = [forms EXCEPT ![u].pc = "view", ![u].file = record]
    /\ mixed' = [mixed EXCEPT ![u] = @ \/ forms[u].vals # record]
    /\ UNCHANGED <<record, meant, broke, inputs>>

(* A note, a comment or a tag refreshes the page in the same way. *)
NoteOrTag(u) ==
    /\ forms[u].pc \in {"view", "edit"} /\ forms[u].file # record /\ Edit
    /\ forms' = [forms EXCEPT ![u].file = record]
    /\ mixed' = [mixed EXCEPT ![u] = TRUE]
    /\ UNCHANGED <<record, meant, broke>>

FormNext ==
    \E u \in Users :
        \/ stdInitial(u) \/ (\E f \in Fields, v \in Vals : FieldInput(u, f, v))
        \/ save(u) \/ SaveRequest(u) \/ SaveBreaks(u) \/ Saved(u) \/ NoteOrTag(u)

FormSpec == FormInit /\ [][FormNext]_formVars

(* A save changes no field its user did not type into, though others save  *)
(* the same record meanwhile and requests fail in between; unless the page *)
(* was refreshed under a form that stayed.                                 *)
OthersKept == ~broke

=============================================================================

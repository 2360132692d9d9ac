-------------------------------- MODULE Crm --------------------------------
(***************************************************************************)
(* The CRM of the web application: accounts, deals and contacts (crm.ts),  *)
(* what hangs from them (notes, activity, custom values, tags: crm-notes,  *)
(* crm-activity, crm-fields, crm-tags), deletion, and the run that merges  *)
(* duplicates (crm-dedupe.ts).                                             *)
(*                                                                         *)
(* Ids are the order of creation.  Nothing runs in a transaction: an       *)
(* upsert, a write below a record, a deletion and a dedupe run each take   *)
(* one step per table they touch, and interleave.  Values of notes and     *)
(* fields are left out; the activity row of a write goes with the write.   *)
(***************************************************************************)
EXTENDS Naturals, FiniteSets, Sequences, Functions, FiniteSetsExt

CONSTANTS Names,              \* kind -> names, [base, dotted]: dotted ends in punctuation
          Keys,               \* account domains, contact e-mails
          Tags, FieldIds,       \* tag and custom field ids
          MaxMerges,          \* the batch cap of a dedupe run
          MaxCrmOps              \* bound on records created and operations begun

NoKey == "no key"
Kinds == <<"account", "deal", "contact">>

VARIABLES
    recs,    \* id -> [kind, name, key, parent]
    made,    \* how many ids were given out
    subs,    \* rows below a record, no foreign key: [table, rec, item, late]
    refs,    \* rows elsewhere that name a record: [table, rec, late]
    erased,  \* history: ids a deletion removed
    up,      \* an upsert between its find and its create
    wr,      \* a write below a record between its check and its insert
    del,     \* a deletion
    dd,      \* a dedupe run
    ops      \* records created and operations begun

crmVars == <<recs, made, subs, refs, erased, up, wr, del, dd, ops>>

AccountRow == [kind : {"account"}, name : Names["account"], key : Keys \union {NoKey}, parent : {0}]

DealRow == [kind : {"deal"}, name : Names["deal"], key : {NoKey}, parent : 1..MaxCrmOps]

ContactRow == [kind : {"contact"}, name : Names["contact"], key : Keys \union {NoKey}, parent : 0..MaxCrmOps]

(* The tables below a record: rows of one of them, moved and dropped       *)
(* together, carry no foreign key to it.                                   *)
Poly == {"note", "activity"}
SubTables == Poly \union {"value", "tag"}

AtRest == [pc |-> "idle"]
NoRun == [pc |-> "idle", clean |-> FALSE]

CrmInit ==
    /\ recs = <<>> /\ made = 0 /\ subs = {} /\ refs = {} /\ erased = {}
    /\ up = AtRest /\ wr = AtRest /\ del = AtRest /\ dd = NoRun /\ ops = 0

Touched == dd' = [dd EXCEPT !.clean = FALSE]

(* An upsert in between looked at records that are not the ones there now. *)
Overtaken == up' = IF up.pc = "idle" THEN up ELSE [up EXCEPT !.raced = TRUE]

Merging == {"poly", "values", "tags", "refs", "drop"}

(* A row written now below r, or moved to it, can be left behind: r is     *)
(* gone or going, or is being merged away.                                 *)
Going(r) == r \notin DOMAIN recs \/ (del.pc # "idle" /\ del.rec = r)
Late(r) == Going(r) \/ (dd.pc \in Merging /\ dd.dup = r)

-----------------------------------------------------------------------------
(* Records.                                                                *)

crmNormName(n) == n.base

recordExists(r) == r \in DOMAIN recs

Ids(kind) == {r \in DOMAIN recs : recs[r].kind = kind}

With(row) == [r \in DOMAIN recs \union {made + 1} |-> IF r = made + 1 THEN row ELSE recs[r]]

Created == [table |-> "activity", rec |-> made + 1, item |-> 0, late |-> FALSE]

Insert(row) ==
    /\ ops < MaxCrmOps
    /\ ops' = ops + 1
    /\ made' = made + 1
    /\ recs' = With(row)
    /\ subs' = subs \union {Created}
    /\ Overtaken
    /\ Touched
    /\ UNCHANGED <<refs, erased, wr, del>>

(* POST accounts, deals and contacts create without looking for a double;  *)
(* a foreign key asks for the parent.                                      *)
createAccount(row) == row \in AccountRow /\ Insert(row)

createDeal(row) == row \in DealRow /\ recordExists(row.parent) /\ Insert(row)

createContact(row) ==
    row \in ContactRow /\ (row.parent = 0 \/ recordExists(row.parent)) /\ Insert(row)

(* What each upsert looks for: domain then name; lower(btrim(name)) in the *)
(* account; e-mail then name in the account.                               *)
FindAccount(row) ==
    LET byDomain == {r \in Ids("account") : row.key # NoKey /\ recs[r].key = row.key}
        byName == {r \in Ids("account") : crmNormName(recs[r].name) = crmNormName(row.name)}
    IN  IF byDomain # {} THEN byDomain ELSE byName

FindDeal(row) ==
    {r \in Ids("deal") : /\ recs[r].parent = row.parent
                         /\ recs[r].name = [base |-> crmNormName(row.name), dotted |-> FALSE]}

(* Mutant: e-mail only, and no look at names when there is one.            *)
FindContactByKey(row) ==
    {r \in Ids("contact") : row.key # NoKey /\ recs[r].key = row.key}

FindContact(row) ==
    LET byEmail == {r \in Ids("contact") : row.key # NoKey /\ recs[r].key = row.key}
        byName == {r \in Ids("contact") : /\ crmNormName(recs[r].name) = crmNormName(row.name)
                                          /\ recs[r].parent = row.parent}
    IN  IF byEmail # {} THEN byEmail ELSE byName

Find(row) ==
    CASE row.kind = "account" -> FindAccount(row)
      [] row.kind = "deal" -> FindDeal(row)
      [] OTHER -> FindContact(row)

(* An approved crm.create finds, and creates in a later statement.         *)
UpsertFind(row) ==
    /\ up.pc = "idle" /\ ops < MaxCrmOps
    /\ ops' = ops + 1
    /\ row.kind = "deal" => row.parent # 0
    /\ Find(row) = {}
    /\ up' = [pc |-> "create", row |-> row, raced |-> FALSE]
    /\ UNCHANGED <<recs, made, subs, refs, erased, wr, del, dd>>

(* A missing parent fails the foreign key, and the action with it.         *)
UpsertCreate ==
    /\ up.pc = "create"
    /\ up' = AtRest
    /\ IF up.row.parent = 0 \/ recordExists(up.row.parent)
       THEN /\ made' = made + 1
            /\ recs' = With(up.row)
            /\ subs' = subs \union {Created}
            /\ Touched
       ELSE UNCHANGED <<recs, made, subs, dd>>
    /\ UNCHANGED <<refs, erased, wr, del, ops>>

(* updateAccount, updateDeal, updateContact: a rename in place.            *)
updateRecord(r, n) ==
    /\ recordExists(r) /\ recs[r].name # n /\ ops < MaxCrmOps
    /\ ops' = ops + 1
    /\ recs' = [recs EXCEPT ![r].name = n]
    /\ subs' = subs \union {[table |-> "activity", rec |-> r, item |-> ops', late |-> Late(r)]}
    /\ Overtaken
    /\ Touched
    /\ UNCHANGED <<made, refs, erased, wr, del>>

-----------------------------------------------------------------------------
(* Rows below a record.                                                      *)

(* The routes (notes, fields, tags) check that the record exists, and      *)
(* insert in a later statement.                                            *)
CheckWrite(table, item, r) ==
    /\ wr.pc = "idle" /\ ops < MaxCrmOps /\ recordExists(r)
    /\ wr' = [pc |-> "insert", table |-> table, item |-> item, rec |-> r, n |-> ops + 1]
    /\ ops' = ops + 1
    /\ UNCHANGED <<recs, made, subs, refs, erased, up, del, dd>>

PostNote(r) == CheckWrite("note", 0, r)

PutField(f, r) == CheckWrite("value", f, r)

PostTag(t, r) == CheckWrite("tag", t, r)

(* An approved crm.note or crm.field names a record its proposal saw, and  *)
(* nothing looks whether it is still there.                                *)
ApprovedWrite(table, item, r) ==
    /\ wr.pc = "idle" /\ ops < MaxCrmOps /\ r \in 1..made
    /\ wr' = [pc |-> "insert", table |-> table, item |-> item, rec |-> r, n |-> ops + 1]
    /\ ops' = ops + 1
    /\ UNCHANGED <<recs, made, subs, refs, erased, up, del, dd>>

(* addNote: a new row each time.                                           *)
addNote(r, n) == [table |-> "note", rec |-> r, item |-> n, late |-> Late(r)]

(* setFieldValue: an upsert, one row per record and field.                 *)
setFieldValue(f, r) == [table |-> "value", rec |-> r, item |-> f, late |-> Late(r)]

(* tagRecord, bulkTagRecords: one row per record and tag.                  *)
tagRecord(t, r) == [table |-> "tag", rec |-> r, item |-> t, late |-> Late(r)]

(* Each writes a line of the record's activity.                            *)
recordActivity(r, n) == [table |-> "activity", rec |-> r, item |-> n, late |-> Late(r)]

RowsOf(table, item, r, n) ==
    {recordActivity(r, n),
     CASE table = "note" -> addNote(r, n)
       [] table = "value" -> setFieldValue(item, r)
       [] OTHER -> tagRecord(item, r)}

Has(r, table, item) == \E s \in subs : s.rec = r /\ s.table = table /\ s.item = item

WriteRow ==
    /\ wr.pc = "insert"
    /\ wr' = AtRest
    /\ subs' = subs \union {s \in RowsOf(wr.table, wr.item, wr.rec, wr.n) :
                              ~Has(s.rec, s.table, s.item)}
    /\ UNCHANGED <<recs, made, refs, erased, up, del, dd, ops>>

untagRecord(t, r) ==
    /\ Has(r, "tag", t) /\ ops < MaxCrmOps
    /\ ops' = ops + 1
    /\ subs' = {s \in subs : ~(s.rec = r /\ s.table = "tag" /\ s.item = t)}
    /\ UNCHANGED <<recs, made, refs, erased, up, wr, del, dd>>

(* Documents and agent threads (foreign keys), calendar events and message *)
(* links, import rows (no foreign key) come to name a record.              *)
RefTables(kind) ==
    CASE kind = "account" -> {"document", "import"}
      [] kind = "deal" -> {"document", "event"}
      [] OTHER -> {"import"}

Enforced == {"document"}

LinkRow(table, r) ==
    /\ recordExists(r) /\ ops < MaxCrmOps
    /\ table \in RefTables(recs[r].kind)
    /\ ops' = ops + 1
    /\ refs' = refs \union {[table |-> table, rec |-> r, late |-> Late(r)]}
    /\ UNCHANGED <<recs, made, subs, erased, up, wr, del, dd>>

-----------------------------------------------------------------------------
(* Deletion: unlink, drop what hangs below, drop the record.               *)

accountHasChildren(a) == \E r \in DOMAIN recs : recs[r].parent = a

Held(r) == accountHasChildren(r) \/ \E f \in refs : f.rec = r /\ f.table \in Enforced

(* DELETE crm/:entity/:id asks first; an approved crm.delete does not.     *)
DeleteAsked(r) ==
    /\ del.pc = "idle" /\ ops < MaxCrmOps /\ recordExists(r) /\ ~accountHasChildren(r)
    /\ ops' = ops + 1
    /\ del' = [pc |-> "unlink", rec |-> r]
    /\ Touched
    /\ UNCHANGED <<recs, made, subs, refs, erased, up, wr>>

DeleteApproved(r) ==
    /\ del.pc = "idle" /\ ops < MaxCrmOps /\ r \in 1..made \ erased
    /\ ops' = ops + 1
    /\ del' = [pc |-> "unlink", rec |-> r]
    /\ Touched
    /\ UNCHANGED <<recs, made, subs, refs, erased, up, wr>>

DeleteUnlink ==
    /\ del.pc = "unlink"
    /\ refs' = {f \in refs : ~(f.rec = del.rec /\ f.table \in Enforced)}
    /\ del' = [del EXCEPT !.pc = "subs"]
    /\ UNCHANGED <<recs, made, subs, erased, up, wr, dd, ops>>

deleteCrmSubData ==
    /\ del.pc = "subs"
    /\ subs' = {s \in subs : s.rec # del.rec}
    /\ del' = [del EXCEPT !.pc = "row"]
    /\ UNCHANGED <<recs, made, refs, erased, up, wr, dd, ops>>

(* The foreign keys refuse a record something still points at.             *)
DeleteRecord ==
    /\ del.pc = "row"
    /\ del' = AtRest
    /\ IF recordExists(del.rec) /\ ~Held(del.rec)
       THEN /\ recs' = [r \in DOMAIN recs \ {del.rec} |-> recs[r]]
            /\ erased' = erased \union {del.rec}
       ELSE UNCHANGED <<recs, erased>>
    /\ UNCHANGED <<made, subs, refs, up, wr, dd, ops>>

-----------------------------------------------------------------------------
(* dedupeWorkspaceCrm.                                                     *)

(* One list per kind: by creation, but contacts in whatever order the      *)
(* table gives them.                                                       *)
Orders(kind) ==
    {order \in Bijection(1..Cardinality(Ids(kind)), Ids(kind)) :
        kind = "contact" \/ \A i, j \in DOMAIN order : i < j => order[i] < order[j]}

NameKey(row) == <<"name", row.parent, crmNormName(row.name)>>

(* Mutant: a record with a domain or an e-mail is matched by that alone.   *)
RowKeysFirst(row) == IF row.key = NoKey THEN <<NameKey(row)>> ELSE << <<"key", row.key>> >>

RowKeys(row) == IF row.key = NoKey THEN <<NameKey(row)>> ELSE << <<"key", row.key>>, NameKey(row)>>

(* The canonical record of a row's first known key.                        *)
Canon(by, ks) ==
    LET known == {n \in DOMAIN ks : ks[n] \in DOMAIN by}
    IN  IF known = {} THEN 0 ELSE by[ks[Min(known)]]

DedupeStart(cap) ==
    /\ dd.pc \in {"idle", "done"} /\ ops < MaxCrmOps
    /\ ops' = ops + 1
    /\ dd' = [pc |-> "load", turn |-> 1, budget |-> cap, rows |-> <<>>, snap |-> <<>>,
              by |-> <<>>, dup |-> 0, canon |-> 0, capped |-> FALSE,
              clean |-> up.pc = "idle" /\ del.pc = "idle"]
    /\ UNCHANGED <<recs, made, subs, refs, erased, up, wr, del>>

(* The operations route merges a batch; an approved crm.dedupe has no cap. *)
OpsDedupe == DedupeStart(MaxMerges)

ApprovedDedupe == DedupeStart(MaxCrmOps)

DedupeLoad ==
    /\ dd.pc = "load"
    /\ \E order \in Orders(Kinds[dd.turn]) :
         dd' = [dd EXCEPT !.pc = "scan", !.rows = order, !.snap = recs, !.by = <<>>]
    /\ UNCHANGED <<recs, made, subs, refs, erased, up, wr, del, ops>>

ScanKeys(i) == RowKeys(dd.snap[dd.rows[i]])

KeysBefore(i) == UNION {Range(ScanKeys(j)) : j \in 1..(i - 1)}

(* Rows that share a key with a canonical record or a row before them. *)
Hits == {i \in DOMAIN dd.rows : Range(ScanKeys(i)) \intersect (DOMAIN dd.by \union KeysBefore(i)) # {}}

(* The rows before the first hit are canonical: each registers its keys. *)
Passed(i) ==
    [k \in DOMAIN dd.by \union KeysBefore(i) |->
        IF k \in DOMAIN dd.by THEN dd.by[k]
        ELSE dd.rows[CHOOSE j \in 1..(i - 1) : k \in Range(ScanKeys(j))]]

(* A merged row lends its domain or e-mail to the canonical one. *)
Lent(by, ks, c) ==
    [k \in DOMAIN by \union {ks[n] : n \in 1..(Len(ks) - 1)} |-> IF k \in DOMAIN by THEN by[k] ELSE c]

(* The list of a kind is done; a spent budget ends every list. *)
NextKind ==
    dd' = [dd EXCEPT !.pc = IF dd.turn = Len(Kinds) THEN "done" ELSE "load",
                     !.turn = IF dd.turn = Len(Kinds) THEN dd.turn ELSE dd.turn + 1,
                     !.capped = dd.capped \/ dd.budget = 0,
                     !.rows = <<>>, !.snap = <<>>, !.by = <<>>]

(* Down the list to the next row that has a canonical record. *)
Merge(i, c) ==
    dd' = [dd EXCEPT !.pc = "poly", !.dup = dd.rows[i], !.canon = c,
                     !.by = Lent(Passed(i), ScanKeys(i), c),
                     !.rows = SubSeq(dd.rows, i + 1, Len(dd.rows)), !.budget = dd.budget - 1]

DedupeScan ==
    /\ dd.pc = "scan"
    /\ IF Hits = {} \/ dd.budget = 0 THEN NextKind
       ELSE Merge(Min(Hits), Canon(Passed(Min(Hits)), ScanKeys(Min(Hits))))
    /\ UNCHANGED <<recs, made, subs, refs, erased, up, wr, del, ops>>

(* Rows of the duplicate move to the canonical record; one it has already  *)
(* is dropped.                                                             *)
Moved(tables) ==
    LET goes(s) == s.rec = dd.dup /\ s.table \in tables
        drops(s) == s.table \in {"value", "tag"} /\ Has(dd.canon, s.table, s.item)
    IN  {s \in subs : ~goes(s)}
        \union {[s EXCEPT !.rec = dd.canon, !.late = @ \/ Going(dd.canon)] :
                  s \in {x \in subs : goes(x) /\ ~drops(x)}}

repointPoly ==
    /\ dd.pc = "poly"
    /\ subs' = Moved(Poly)
    /\ dd' = [dd EXCEPT !.pc = "values"]
    /\ UNCHANGED <<recs, made, refs, erased, up, wr, del, ops>>

repointFieldValues ==
    /\ dd.pc = "values"
    /\ subs' = Moved({"value"})
    /\ dd' = [dd EXCEPT !.pc = "tags"]
    /\ UNCHANGED <<recs, made, refs, erased, up, wr, del, ops>>

(* Mutant: the tags of a duplicate are left with it.                       *)
repointTagsSkipped ==
    /\ dd.pc = "tags"
    /\ dd' = [dd EXCEPT !.pc = "refs"]
    /\ UNCHANGED <<recs, made, subs, refs, erased, up, wr, del, ops>>

repointTags ==
    /\ dd.pc = "tags"
    /\ subs' = Moved({"tag"})
    /\ dd' = [dd EXCEPT !.pc = "refs"]
    /\ UNCHANGED <<recs, made, refs, erased, up, wr, del, ops>>

(* Children and references move; a canonical record that went meanwhile    *)
(* fails the foreign key, and the request.                                 *)
repointRefs ==
    /\ dd.pc = "refs"
    /\ IF Held(dd.dup) /\ ~recordExists(dd.canon)
       THEN /\ dd' = NoRun
            /\ UNCHANGED <<recs, refs>>
       ELSE /\ recs' = [r \in DOMAIN recs |->
                          IF recs[r].parent = dd.dup
                          THEN [recs[r] EXCEPT !.parent = dd.canon] ELSE recs[r]]
            /\ refs' = {[f EXCEPT !.rec = IF @ = dd.dup THEN dd.canon ELSE @,
                                  !.late = @ \/ (f.rec = dd.dup /\ Going(dd.canon))] : f \in refs}
            /\ dd' = [dd EXCEPT !.pc = "drop"]
    /\ Overtaken
    /\ UNCHANGED <<made, subs, erased, wr, del, ops>>

(* The duplicate goes, unless a child came to it since.                    *)
dropDuplicate ==
    /\ dd.pc = "drop"
    /\ IF Held(dd.dup)
       THEN /\ dd' = NoRun
            /\ UNCHANGED recs
       ELSE /\ dd' = [dd EXCEPT !.pc = "scan"]
            /\ recs' = [r \in DOMAIN recs \ {dd.dup} |-> recs[r]]
    /\ UNCHANGED <<made, subs, refs, erased, up, wr, del, ops>>

(* The function's time limit.                                              *)
DedupeCut ==
    /\ dd.pc \in Merging
    /\ dd' = NoRun
    /\ UNCHANGED <<recs, made, subs, refs, erased, up, wr, del, ops>>

-----------------------------------------------------------------------------
Proposable ==
    {row \in AccountRow \union DealRow \union ContactRow : row.parent \in Ids("account") \union {0}}

CrmNext ==
    \/ \E row \in Proposable : createAccount(row) \/ createDeal(row) \/ createContact(row)
    \/ \E row \in Proposable : UpsertFind(row)
    \/ UpsertCreate
    \/ \E r \in DOMAIN recs : \E n \in Names[recs[r].kind] : updateRecord(r, n)
    \/ \E r \in 1..made :
         \/ PostNote(r) \/ ApprovedWrite("note", 0, r)
         \/ \E f \in FieldIds : PutField(f, r) \/ ApprovedWrite("value", f, r)
         \/ \E t \in Tags : PostTag(t, r)
    \/ WriteRow
    \/ \E t \in Tags, r \in DOMAIN recs : untagRecord(t, r)
    \/ \E r \in DOMAIN recs : \E t \in RefTables(recs[r].kind) : LinkRow(t, r)
    \/ \E r \in 1..made : DeleteAsked(r) \/ DeleteApproved(r)
    \/ DeleteUnlink \/ deleteCrmSubData \/ DeleteRecord
    \/ OpsDedupe \/ ApprovedDedupe
    \/ DedupeLoad \/ DedupeScan \/ repointPoly \/ repointFieldValues \/ repointTags
    \/ repointRefs \/ dropDuplicate \/ DedupeCut

CrmSpec == CrmInit /\ [][CrmNext]_crmVars

-----------------------------------------------------------------------------
(* A row below a record, or one that names it, never names a record that   *)
(* is gone: merges move everything first and deletions drop everything     *)
(* first.  Except rows written while their record was already going, and   *)
(* the calendar events, message links and import rows deletion leaves.     *)
NoDangling ==
    /\ \A s \in subs : s.late \/ recordExists(s.rec)
    /\ \A f \in refs : \/ f.late \/ recordExists(f.rec)
                       \/ f.rec \in erased /\ f.table \notin Enforced

(* A dedupe run that ended, was not capped and had the CRM for itself,     *)
(* leaves no two records of a kind that share a key it merges by.          *)
DedupeComplete ==
    dd.pc = "done" /\ dd.clean /\ ~dd.capped =>
        \A kind \in Range(Kinds) : \A r, q \in Ids(kind) :
            r # q => Range(RowKeys(recs[r])) \intersect Range(RowKeys(recs[q])) = {}

(* The upserts and the dedupe run agree on what a double is: an upsert     *)
(* about to create an account or a contact, with nothing created or        *)
(* renamed since it looked, makes no record the dedupe run would merge.    *)
(* (Of a deal it may, when the stored name ends in punctuation.)           *)
UpsertsNeverDouble ==
    up.pc = "create" /\ ~up.raced /\ up.row.kind # "deal" =>
        \A r \in Ids(up.row.kind) :
            Range(RowKeys(recs[r])) \intersect Range(RowKeys(up.row)) = {}

NoDoubles == DedupeComplete /\ UpsertsNeverDouble

=============================================================================

------------------------------ MODULE Imports ------------------------------
(***************************************************************************)
(* Bulk import of the web application: import-engine.ts and the callers    *)
(* that drive it (the cron tick, the progress panel's ticks, an approved   *)
(* import, an approved review of held rows, ingest.ts).                    *)
(*                                                                         *)
(* Workers run concurrently, one database statement per step, and any of   *)
(* them may be cut off at the function's time limit.  The writes of one    *)
(* row are one step: what they look up is the worker's own maps, loaded    *)
(* when the slice began, so no other worker is seen in between.  Custom    *)
(* fields are overwritten in place and left out.                           *)
(***************************************************************************)
EXTENDS ImportParse

CONSTANTS Sheets,       \* matrices people drop
          Texts,        \* sequences of [cells, confidence] a text holds
          Workers,      \* concurrent requests
          Slice,        \* IMPORT_SLICE
          Chunk,        \* ROW_INSERT_CHUNK
          MinConf,      \* the workspace's autoWriteConfidence, in tenths
          MaxJobs, MaxFaults    \* bounds

ASSUME ImportsAssumption ==
    /\ Slice \in Nat \ {0} /\ Chunk \in Nat \ {0} /\ MinConf \in 0..10
    /\ \A m \in Sheets : IsFiniteSet(DOMAIN m)
    /\ \A t \in Texts : IsFiniteSet(DOMAIN t)

VARIABLES
    sheet,      \* the sheet: [columns, rows, source], or NoSheet
    staged,     \* how many of its rows are inserted
    batch,      \* import_batches.status
    mark,       \* row -> import_rows.status
    mapping,    \* [spec, approved], or NoMapping
    jobs,       \* the import_jobs rows
    review,     \* the approval of the held rows: none, pending or executing
    crm,        \* records created: [kind, name, key, parent, row]
    wpc, work,  \* worker -> where it is, and what it holds
    sliceRaced, \* history: two workers were importing at the same time
    spent       \* [failures, cutoffs]

impVars == <<sheet, staged, batch, mark, mapping, jobs, review, crm, wpc, work, sliceRaced, spent>>

NoSheet == [source |-> "none"]
NoMapping == [spec |-> <<>>, approved |-> FALSE]
NoSlice == [job |-> 0, snap |-> <<>>, rows |-> <<>>, loaded |-> 0, known |-> {}, ingest |-> FALSE,
         created |-> 0, updated |-> 0, held |-> 0, failed |-> 0]

JobRow == [status : {"queued", "running", "done", "failed"}, cursor : Nat, total : Nat,
           created : Nat, updated : Nat, held : Nat, failed : Nat,
           minConfidence : 0..10, ready : BOOLEAN]

ImportRowStatus == {"new", "imported", "held", "skipped"}

BatchStatus == {"none", "parsing", "ready"}

ImpInit ==
    /\ sheet = NoSheet /\ staged = 0 /\ batch = "none" /\ mark = <<>>
    /\ mapping = NoMapping /\ jobs = <<>> /\ review = "none" /\ crm = <<>>
    /\ wpc = [w \in Workers |-> "idle"]
    /\ work = [w \in Workers |-> NoSlice]
    /\ sliceRaced = FALSE
    /\ spent = [failures |-> 0, cutoffs |-> 0]

Store == <<sheet, staged, batch, mark, mapping>>

-----------------------------------------------------------------------------
(* Staging: batch, sheet and columns, then the rows in chunks, then ready. *)

(* ingestTable up to the first chunk.                                      *)
ingestTable(m) ==
    /\ sheet = NoSheet
    /\ LET parsed == parseWorkbook(m)
       IN  sheet' = [source |-> "table", columns |-> parsed.columns, rows |-> parsed.rows,
                     confidence |-> [i \in DOMAIN parsed.rows |-> 10],
                     store |-> [i \in DOMAIN parsed.rows |-> splitCells(parsed, parsed.rows[i])]]
    /\ batch' = "parsing"
    /\ UNCHANGED <<staged, mark, mapping, jobs, review, crm, wpc, work, sliceRaced, spent>>

(* ingestText up to the first chunk: nothing is staged for no record.      *)
stageExtracted(src, raw, ok) ==
    /\ sheet = NoSheet
    /\ LET recs == extractEntities(src, raw, ok)
           cols == [i \in DOMAIN StdColumns |->
                      [name |-> StdColumns[i], samples |-> {},
                       sensitive |-> StdColumns[i] \in {"contact.email", "contact.phone"}]]
       IN  /\ recs # <<>>
           /\ sheet' = [source |-> src, columns |-> cols,
                        rows |-> [i \in DOMAIN recs |-> recs[i].cells],
                        confidence |-> [i \in DOMAIN recs |-> recs[i].confidence],
                        store |-> [i \in DOMAIN recs |-> splitCells([columns |-> cols], recs[i].cells)]]
    /\ batch' = "parsing"
    /\ UNCHANGED <<staged, mark, mapping, jobs, review, crm, wpc, work, sliceRaced, spent>>

InsertChunk ==
    /\ batch = "parsing" /\ staged < Len(sheet.rows)
    /\ staged' = IF staged + Chunk < Len(sheet.rows) THEN staged + Chunk ELSE Len(sheet.rows)
    /\ mark' = [i \in 1..staged' |-> IF i \in DOMAIN mark THEN mark[i] ELSE "new"]
    /\ UNCHANGED <<sheet, batch, mapping, jobs, review, crm, wpc, work, sliceRaced, spent>>

BatchReady ==
    /\ batch = "parsing" /\ staged = Len(sheet.rows)
    /\ batch' = "ready"
    /\ UNCHANGED <<sheet, staged, mark, mapping, jobs, review, crm, wpc, work, sliceRaced, spent>>

-----------------------------------------------------------------------------
(* Mappings and jobs.                                                      *)

(* The suggested mapping of a table, the identity of an extracted text.    *)
DraftSpec == IF sheet.source = "table" THEN suggestMapping(sheet.columns) ELSE extractionMapping

(* saveMapping of a draft (the mapping route, tables.map): an upsert that  *)
(* keeps "approved".                                                       *)
saveMapping ==
    /\ sheet # NoSheet
    /\ mapping = NoMapping
    /\ mapping' = [spec |-> DraftSpec, approved |-> sheet.source # "table"]
    /\ UNCHANGED <<sheet, staged, batch, mark, jobs, review, crm, wpc, work, sliceRaced, spent>>

(* createImportJob: total is the number of rows inserted so far.           *)
NewJob(conf) ==
    [status |-> "queued", cursor |-> 0, total |-> staged, created |-> 0, updated |-> 0,
     held |-> 0, failed |-> 0, minConfidence |-> conf, ready |-> batch = "ready"]

(* POST tables/:sheet/import, or an approved crm.import: approve, create   *)
(* the job, and begin its first slice in the same request.                 *)
startImport(w) ==
    /\ wpc[w] = "idle" /\ sheet # NoSheet /\ sheet.source = "table"
    /\ mapping # NoMapping /\ Len(jobs) < MaxJobs
    /\ mapping' = [mapping EXCEPT !.approved = TRUE]
    /\ jobs' = Append(jobs, NewJob(0))
    /\ wpc' = [wpc EXCEPT ![w] = "read"]
    /\ work' = [work EXCEPT ![w] = [NoSlice EXCEPT !.job = Len(jobs) + 1]]
    /\ UNCHANGED <<sheet, staged, batch, mark, review, crm, sliceRaced, spent>>

(* ingestText: the mapping is approved, staging has ended, and only rows a *)
(* model extracted are gated.  A text is staged anew for every job.        *)
ingestText(w) ==
    /\ wpc[w] = "idle" /\ sheet # NoSheet /\ sheet.source # "table" /\ batch = "ready"
    /\ mapping # NoMapping /\ jobs = <<>>
    /\ jobs' = Append(jobs, NewJob(IF sheet.source = "model" THEN MinConf ELSE 0))
    /\ wpc' = [wpc EXCEPT ![w] = "read"]
    /\ work' = [work EXCEPT ![w] = [NoSlice EXCEPT !.job = Len(jobs) + 1, !.ingest = TRUE]]
    /\ UNCHANGED <<Store, review, crm, sliceRaced, spent>>

TickJob(w, j) ==
    /\ wpc[w] = "idle" /\ j \in DOMAIN jobs
    /\ wpc' = [wpc EXCEPT ![w] = "read"]
    /\ work' = [work EXCEPT ![w] = [NoSlice EXCEPT !.job = j]]
    /\ UNCHANGED <<Store, review, jobs, crm, sliceRaced, spent>>

listActiveJobs == {j \in DOMAIN jobs : jobs[j].status \in {"queued", "running"}}

(* The cron takes the active jobs.                                         *)
ImportTick(w, j) == j \in listActiveJobs /\ TickJob(w, j)

(* The panel ticks the job it started until an answer says that it is over, *)
(* which the cron may have made it in the meantime.                        *)
tickToDone(w, j) == TickJob(w, j)

-----------------------------------------------------------------------------
(* runImportSlice.                                                         *)

Importing(w) == wpc[w] \notin {"idle", "read", "review"}

(* The worker that starts reading or writing rows overlaps every other one *)
(* that is at it.                                                          *)
Race(w) == sliceRaced' = (sliceRaced \/ \E v \in Workers \ {w} : Importing(v))

ReadJob(w) ==
    /\ wpc[w] = "read"
    /\ LET j == jobs[work[w].job]
       IN  IF j.status \in {"done", "failed"}
             THEN /\ wpc' = [wpc EXCEPT ![w] = "idle"]
                  /\ work' = [work EXCEPT ![w] = NoSlice]
                  /\ sliceRaced' = sliceRaced
             ELSE /\ wpc' = [wpc EXCEPT ![w] = "running"]
                  /\ work' = [work EXCEPT ![w].snap = j]
                  /\ Race(w)
    /\ UNCHANGED <<Store, review, jobs, crm, spent>>

SetRunning(w) ==
    /\ wpc[w] = "running"
    /\ jobs' = [jobs EXCEPT ![work[w].job].status = "running"]
    /\ wpc' = [wpc EXCEPT ![w] = "load"]
    /\ UNCHANGED <<Store, review, crm, work, sliceRaced, spent>>

(* loadRows(cursor, Slice), in row order.                                  *)
loadRows(from) ==
    [i \in 1..(IF staged - from < Slice THEN staged - from ELSE Slice) |-> from + i]

(* loadExisting: the records the maps know.                                *)
LoadSlice(w) ==
    /\ wpc[w] = "load"
    /\ work' = [work EXCEPT ![w].known = DOMAIN crm, ![w].rows = loadRows(work[w].snap.cursor),
                              ![w].loaded = Len(loadRows(work[w].snap.cursor))]
    /\ wpc' = [wpc EXCEPT ![w] = "rows"]
    /\ UNCHANGED <<Store, review, jobs, crm, sliceRaced, spent>>

heldByConfidence(minConfidence, rowConfidence) == rowConfidence < minConfidence

-----------------------------------------------------------------------------
(* resolveRow over the worker's maps.  A step is [crm, known, outcome].    *)

Slot(r, target) == first(mapping.spec, sheet.rows[r], target)

(* The records the maps know of this kind under this key; a map holds one  *)
(* record a key.                                                           *)
Known(s, kind, key, parent) ==
    {i \in s.known : /\ s.crm[i].kind = kind /\ s.crm[i].parent = parent
                     /\ key \in {s.crm[i].name, s.crm[i].key}}

Create(s, rec) ==
    [s EXCEPT !.crm = Append(@, rec), !.known = @ \cup {Len(s.crm) + 1}]

Latest(S) == IF S = {} THEN 0 ELSE CHOOSE i \in S : \A k \in S : k <= i

(* By domain when the mapping says so, then by name.                       *)
upsertAccount(s, name, domain, r) ==
    LET byDomain == IF mapping.spec.account = "domain" /\ domain # Empty
                    THEN Known(s, "account", domain, 0) ELSE {}
        byName == IF name = Empty THEN {} ELSE Known(s, "account", name, 0)
        hit == IF byDomain # {} THEN byDomain ELSE byName
    IN  IF hit # {} \/ (name = Empty /\ domain = Empty) THEN s
        ELSE Create(s, [kind |-> "account", name |-> IF name = Empty THEN domain ELSE name,
                        key |-> domain, parent |-> 0, row |-> r])

AccountOf(s, name, domain) ==
    LET byDomain == IF mapping.spec.account = "domain" /\ domain # Empty
                    THEN Known(s, "account", domain, 0) ELSE {}
    IN  Latest(IF byDomain # {} THEN byDomain
               ELSE Known(s, "account", IF name = Empty THEN domain ELSE name, 0))

(* Mutant: a created contact is not put into the maps. *)
upsertContactCold(s, name, email, account, r) ==
    IF mapping.spec.contact = "email" /\ email # Empty
       /\ \E i \in s.known : s.crm[i].kind = "contact" /\ s.crm[i].key = email
      THEN s
      ELSE [s EXCEPT !.crm = Append(@, [kind |-> "contact", name |-> name, key |-> email,
                                        parent |-> account, row |-> r])]

(* By e-mail only in the e-mail mode, by name and account only otherwise.  *)
upsertContact(s, name, email, account, r) ==
    LET byEmail == mapping.spec.contact = "email" /\ email # Empty
                   /\ \E i \in s.known : s.crm[i].kind = "contact" /\ s.crm[i].key = email
        byName == mapping.spec.contact # "email"
                  /\ \E i \in s.known : /\ s.crm[i].kind = "contact" /\ s.crm[i].name = name
                                        /\ s.crm[i].parent = account
    IN  IF byEmail \/ byName THEN s
        ELSE Create(s, [kind |-> "contact", name |-> name, key |-> email, parent |-> account, row |-> r])

createDealFor(s, name, account, r) ==
    IF name = Empty \/ account = 0 \/ Known(s, "deal", name, account) # {} THEN s
    ELSE Create(s, [kind |-> "deal", name |-> name, key |-> Empty, parent |-> account, row |-> r])

(* Tasks are not deduplicated.                                             *)
createTaskFor(s, title, r) ==
    Create(s, [kind |-> "task", name |-> title, key |-> Empty, parent |-> 0, row |-> r])

resolveRow(w, r) ==
    LET name == Slot(r, "account.name")       domain == Slot(r, "account.domain")
        email == Slot(r, "contact.email")     deal == Slot(r, "deal.name")
        title == Slot(r, "task.title")        full == Slot(r, "contact.name")
        contact == IF full # Empty THEN full ELSE email
        s0 == [crm |-> crm, known |-> work[w].known, outcome |-> "held"]
        s1 == upsertAccount(s0, name, domain, r)
        acc == IF name = Empty /\ domain = Empty THEN 0 ELSE AccountOf(s1, name, domain)
        s2 == IF contact = Empty THEN s1 ELSE upsertContact(s1, contact, email, acc, r)
        s3 == createDealFor(s2, deal, acc, r)
        s4 == IF title = Empty THEN s3 ELSE createTaskFor(s3, title, r)
        out == IF contact # Empty THEN IF s2.crm # s1.crm THEN "created" ELSE "updated"
               ELSE IF (deal # Empty /\ acc # 0) \/ title # Empty THEN "created"
               ELSE IF acc # 0 THEN "updated" ELSE "held"
    IN  [s4 EXCEPT !.outcome = out]

Count(k, field) == [k EXCEPT ![field] = @ + 1]

HeldBack(w, r) ==
    /\ wpc[w] = "rows"
    /\ heldByConfidence(work[w].snap.minConfidence, sheet.confidence[r])

(* One row of the slice: held below the threshold, otherwise resolved.  A  *)
(* row that resolves to nothing is counted as held and parked as skipped.  *)
SliceRow(w) ==
    /\ wpc[w] \in {"rows", "flush"} /\ work[w].rows # <<>>
    /\ LET r == Head(work[w].rows)
           rest == [work[w] EXCEPT !.rows = Tail(@)]
       IN  IF HeldBack(w, r)
             THEN /\ mark' = [mark EXCEPT ![r] = "held"]
                  /\ work' = [work EXCEPT ![w] = Count(rest, "held")]
                  /\ crm' = crm
             ELSE \E res \in {resolveRow(w, r)} :
                  /\ mark' = [mark EXCEPT ![r] = IF res.outcome = "held" THEN "skipped" ELSE "imported"]
                  /\ work' = [work EXCEPT ![w] = [Count(rest, res.outcome) EXCEPT !.known = res.known]]
                  /\ crm' = res.crm
    /\ UNCHANGED <<sheet, staged, batch, mapping, jobs, review, wpc, sliceRaced, spent>>

(* resolveRow throws: the row is skipped and counted.                      *)
SliceRowFails(w) ==
    /\ wpc[w] \in {"rows", "flush"} /\ work[w].rows # <<>>
    /\ spent.failures + spent.cutoffs < MaxFaults
    /\ ~HeldBack(w, Head(work[w].rows))
    /\ mark' = [mark EXCEPT ![Head(work[w].rows)] = "skipped"]
    /\ work' = [work EXCEPT ![w] = Count([work[w] EXCEPT !.rows = Tail(@)], "failed")]
    /\ spent' = [spent EXCEPT !.failures = @ + 1]
    /\ UNCHANGED <<sheet, staged, batch, mapping, jobs, review, crm, wpc, sliceRaced>>

(* Mutant: the cursor is advanced in the database, not from the snapshot. *)
CursorIncremented(j, k) == j.cursor + k.loaded

CursorAfter(j, k) == k.snap.cursor + k.loaded

(* Everything is written from the snapshot taken when the slice began.     *)
FinishSlice(w) ==
    /\ wpc[w] = "rows" /\ work[w].rows = <<>>
    /\ LET k == work[w]
           c == CursorAfter(jobs[k.job], k)
           done == c >= k.snap.total \/ k.loaded = 0
       IN  jobs' = [jobs EXCEPT ![k.job] =
                      [@ EXCEPT !.cursor = c, !.created = k.snap.created + k.created,
                                !.updated = k.snap.updated + k.updated,
                                !.held = k.snap.held + k.held, !.failed = k.snap.failed + k.failed,
                                !.status = IF done THEN "done" ELSE "queued"]]
    /\ wpc' = [wpc EXCEPT ![w] = IF work[w].ingest THEN "review" ELSE "idle"]
    /\ work' = [work EXCEPT ![w] = NoSlice]
    /\ UNCHANGED <<Store, review, crm, sliceRaced, spent>>

(* The end of ingestText: one review if any row is below the threshold.    *)
EnqueueReview(w) ==
    /\ wpc[w] = "review"
    /\ review' = IF \E r \in DOMAIN mark : sheet.confidence[r] < MinConf THEN "pending" ELSE review
    /\ wpc' = [wpc EXCEPT ![w] = "idle"]
    /\ UNCHANGED <<Store, jobs, crm, work, sliceRaced, spent>>

-----------------------------------------------------------------------------
(* flushHeldRows, for an approved review of the rows a text left held.     *)

HeldRows == {r \in DOMAIN mark : mark[r] = "held"}

(* The first held rows, in row order, as many as a slice takes.            *)
FlushRows(rows) ==
    /\ \A i, k \in DOMAIN rows : i < k => rows[i] < rows[k]
    /\ \A r \in HeldRows : r \in Range(rows) \/ (Len(rows) = Slice /\ \A i \in DOMAIN rows : rows[i] < r)

BeginFlush(w, j) ==
    /\ wpc[w] = "idle" /\ review = "pending" /\ j \in DOMAIN jobs
    /\ review' = "executing"
    /\ \E n \in 0..Slice : \E rows \in [1..n -> HeldRows] :
         /\ FlushRows(rows)
         /\ work' = [work EXCEPT ![w] = [NoSlice EXCEPT !.job = j, !.snap = jobs[j], !.rows = rows]]
    /\ wpc' = [wpc EXCEPT ![w] = "loadheld"]
    /\ Race(w)
    /\ UNCHANGED <<Store, jobs, crm, spent>>

LoadHeld(w) ==
    /\ wpc[w] = "loadheld"
    /\ work' = [work EXCEPT ![w].known = DOMAIN crm]
    /\ wpc' = [wpc EXCEPT ![w] = "flush"]
    /\ UNCHANGED <<Store, review, jobs, crm, sliceRaced, spent>>

(* The cursor and the status stay; a row that failed again stays counted   *)
(* as held.                                                                *)
FinishFlush(w) ==
    /\ wpc[w] = "flush" /\ work[w].rows = <<>>
    /\ LET k == work[w]
           written == k.created + k.updated
       IN  jobs' = [jobs EXCEPT ![k.job] =
                      [@ EXCEPT !.created = k.snap.created + k.created,
                                !.updated = k.snap.updated + k.updated,
                                !.held = IF written < k.snap.held THEN k.snap.held - written ELSE 0]]
    /\ wpc' = [wpc EXCEPT ![w] = "idle"]
    /\ work' = [work EXCEPT ![w] = NoSlice]
    /\ UNCHANGED <<Store, review, crm, sliceRaced, spent>>

(* The function is cut off: nothing is undone.                             *)
CutOff(w) ==
    /\ wpc[w] # "idle" /\ spent.failures + spent.cutoffs < MaxFaults
    /\ spent' = [spent EXCEPT !.cutoffs = @ + 1]
    /\ wpc' = [wpc EXCEPT ![w] = "idle"]
    /\ work' = [work EXCEPT ![w] = NoSlice]
    /\ UNCHANGED <<Store, review, jobs, crm, sliceRaced>>

WorkerStep(w) ==
    \/ ReadJob(w) \/ SetRunning(w) \/ LoadSlice(w) \/ SliceRow(w) \/ FinishSlice(w)
    \/ EnqueueReview(w) \/ LoadHeld(w) \/ FinishFlush(w)

ImpNext ==
    \/ \E m \in Sheets : ingestTable(m)
    \/ \E t \in Texts, src \in {"json", "model"}, ok \in BOOLEAN : stageExtracted(src, t, ok)
    \/ InsertChunk \/ BatchReady \/ saveMapping
    \/ \E w \in Workers :
         \/ startImport(w) \/ ingestText(w) \/ WorkerStep(w) \/ SliceRowFails(w) \/ CutOff(w)
         \/ \E j \in 1..MaxJobs : ImportTick(w, j) \/ tickToDone(w, j) \/ BeginFlush(w, j)

ImpSpec == ImpInit /\ [][ImpNext]_impVars

-----------------------------------------------------------------------------
(* Properties.                                                             *)

(* A job that says done left no row of its sheet unseen, however its       *)
(* slices overlapped and wherever they were cut off: the cursor never      *)
(* passes a row that nobody processed (FinishSlice).  Jobs created while   *)
(* the rows were still being inserted are the exception.                   *)
DoneMeansProcessed ==
    \A j \in DOMAIN jobs :
        jobs[j].status = "done" /\ jobs[j].ready => \A r \in DOMAIN mark : mark[r] # "new"

(* One contact an e-mail and one account a name or a domain, also after a  *)
(* cut-off slice ran again and after a second import of the sheet, as long *)
(* as no two workers overlapped (the dedupe maps of realUpserter).         *)
NoDuplicates ==
    sliceRaced \/ \A i, k \in DOMAIN crm :
        i # k /\ crm[i].kind = crm[k].kind /\ crm[i].kind \in {"contact", "account"}
            => crm[i].key = Empty \/ crm[i].key # crm[k].key

(* The counts a person reads add up to the rows the job has passed         *)
(* (FinishSlice and FinishFlush write them from a snapshot), as long as    *)
(* no worker overlapped another and none was cut off.                      *)
CountsAddUp ==
    sliceRaced \/ spent.cutoffs > 0 \/ \A j \in DOMAIN jobs :
        jobs[j].created + jobs[j].updated + jobs[j].held + jobs[j].failed = jobs[j].cursor

(* A job that says it is done has dealt with every row, and its counters    *)
(* account for them.                                                        *)
ImportAccounted == DoneMeansProcessed /\ CountsAddUp

(* No value of a sensitive column is sampled, queryable, grouped by or     *)
(* read in the clear: classify, isSensitive, splitCells, readRow and       *)
(* groups agree.                                                           *)
SensitiveHidden ==
    sheet # NoSheet =>
        \A c \in {d \in Range(sheet.columns) : d.sensitive} :
            /\ c.samples = {}
            /\ groups(sheet, Range(sheet.store), c.name) = {}
            /\ \A s \in Range(sheet.store) : \A v \in readRow(s) : v[1] = c.name => v[2] = Masked
=============================================================================

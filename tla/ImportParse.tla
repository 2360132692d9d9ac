---------------------------- MODULE ImportParse ----------------------------
(***************************************************************************)
(* From a dropped spreadsheet, or a text, to rows the import engine can    *)
(* run: import-parse.ts, import-map.ts, import-extract.ts, import-store.ts *)
(* and the bounded reads of tables-repo.ts, all pure.                      *)
(*                                                                         *)
(* A cell is [cls, v]: cls says which regular expressions its text         *)
(* matches, v tells equal texts apart.  A header is a cell whose v is the  *)
(* word in it.  A sheet is a matrix, a sequence of sequences of cells.     *)
(***************************************************************************)
EXTENDS Naturals, Sequences, FiniteSetsExt, Functions

Cell(cls, v) == [cls |-> cls, v |-> v]

Empty == Cell("empty", "")

ColTypes == {"text", "number", "currency", "date", "email", "phone", "url", "boolean", "select"}

(* The classes each regular expression accepts.  A decimal number has the  *)
(* dotted tail of a bare domain, a date and a bare digit string the shape  *)
(* of a phone number.                                                      *)
Regex == [email    |-> {"email"},
          url      |-> {"url", "decimal"},
          currency |-> {"currency"},
          date     |-> {"date"},
          phone    |-> {"phone", "date"},
          boolean  |-> {"boolean"},
          number   |-> {"integer", "decimal", "digits"}]

PhoneNames == {"phone", "mobile"}

(* A formatted number, or any digits under a column named for a phone.     *)
looksLikePhone(name, c) ==
    c.cls \in Regex.phone \/ (c.cls = "digits" /\ name \in PhoneNames)

(* frac(pred) > percent / 100 over the cells that are not empty.           *)
Above(cells, pred(_), percent) ==
    100 * Len(SelectSeq(cells, pred)) > percent * Len(cells)

classify(name, cells) ==
    LET some == SelectSeq(cells, LAMBDA c : c # Empty)
        is(t, percent) == Above(some, LAMBDA c : c.cls \in Regex[t], percent)
        distinct == Cardinality(Range(some))
    IN  IF some = <<>> THEN "text"
        ELSE IF is("email", 70) THEN "email"
        ELSE IF is("url", 70) THEN "url"
        ELSE IF is("currency", 60) THEN "currency"
        ELSE IF is("date", 70) THEN "date"
        ELSE IF Above(some, LAMBDA c : looksLikePhone(name, c), 70) THEN "phone"
        ELSE IF is("boolean", 90) THEN "boolean"
        ELSE IF is("number", 85) THEN "number"
        ELSE IF distinct \in 2..12 /\ Len(some) >= 3 * distinct THEN "select"
        ELSE "text"

SensitiveNames == {"email", "phone", "mobile", "street"}

(* A column of addresses is sensitive by its name, a domain or a city is   *)
(* not, whatever else its name says.                                       *)
isSensitive(name, type) == type \in {"email", "phone"} \/ name \in SensitiveNames

(* The first of six rows that is at least two cells and half as wide as    *)
(* the widest of them.                                                     *)
detectHeaderRow(matrix) ==
    LET width(i) == Len(SelectSeq(matrix[i], LAMBDA c : c # Empty))
        scan == 1..(IF Len(matrix) < 6 THEN Len(matrix) ELSE 6)
        widest == CHOOSE w \in {1} \cup {width(i) : i \in scan} :
                     \A i \in scan : width(i) <= w
        wide == {i \in scan : width(i) >= 2 /\ width(i) >= widest \div 2}
    IN  IF wide = {} THEN 1 ELSE CHOOSE i \in wide : \A j \in wide : i <= j

(* A repeated header gets its ordinal, an empty one its position.          *)
dedupeHeaders(raw) ==
    [i \in DOMAIN raw |->
        IF raw[i] = Empty THEN <<"col", i>>
        ELSE <<raw[i].v, Cardinality({j \in 1..i : raw[j] = raw[i]})>>]

(* The numbers of S in their order.                                        *)
InOrder(S) ==
    [k \in 1..Cardinality(S) |-> CHOOSE i \in S : Cardinality({j \in S : j <= i}) = k]

(* The rows below the header that are not empty; a row is a function from  *)
(* column to cell.                                                         *)
bodyRows(matrix, h, names) ==
    LET at(r, c) == IF c \in DOMAIN matrix[r] THEN matrix[r][c] ELSE Empty
        body == InOrder({r \in DOMAIN matrix : r > h /\ \E c \in DOMAIN names : at(r, c) # Empty})
    IN  [k \in DOMAIN body |->
            [n \in Range(names) |-> at(body[k], CHOOSE c \in DOMAIN names : names[c] = n)]]

(* What is kept of a column.                                               *)
ParsedColumn(n, cells) ==
    LET type == classify(n[1], cells)
        sensitive == isSensitive(n[1], type)
    IN  [name |-> n, type |-> type, sensitive |-> sensitive,
         samples |-> IF sensitive THEN {} ELSE Range(cells) \ {Empty}]

parseWorkbook(matrix) ==
    LET h == detectHeaderRow(matrix)
        names == dedupeHeaders(matrix[h])
        rows == bodyRows(matrix, h, names)
    IN  [columns |-> [c \in DOMAIN names |->
                        ParsedColumn(names[c], [k \in DOMAIN rows |-> rows[k][names[c]]])],
         rows |-> rows]

-----------------------------------------------------------------------------
(* Mapping.                                                                *)

(* The standard target of a column by its name and its type, in the code's *)
(* order; "none" where the code returns null.                              *)
guessStd(name, type) ==
    IF name = "company" THEN "account.name"
    ELSE IF type = "url" \/ name = "website" THEN "account.domain"
    ELSE IF type = "email" \/ name = "email" THEN "contact.email"
    ELSE IF name = "name" THEN "contact.name"
    ELSE IF name = "title" THEN "contact.title"
    ELSE IF type = "phone" \/ name \in PhoneNames THEN "contact.phone"
    ELSE IF name = "deal" THEN "deal.name"
    ELSE IF name = "amount" THEN "deal.value"
    ELSE "none"

(* Every target is singular: the second column that asks for one becomes a *)
(* custom field of the primary entity.                                     *)
suggestMapping(columns) ==
    LET std(i) == guessStd(columns[i].name[1], columns[i].type)
        takes(i) == std(i) # "none" /\ \A j \in 1..(i - 1) : std(j) # std(i)
        taken == {std(i) : i \in {j \in DOMAIN columns : takes(j)}}
    IN  [columns |-> [i \in DOMAIN columns |->
                        [column |-> columns[i].name,
                         target |-> IF takes(i) THEN std(i) ELSE "custom"]],
         account |-> IF "account.domain" \in taken THEN "domain"
                     ELSE IF "account.name" \in taken THEN "name" ELSE "none",
         contact |-> IF "contact.email" \in taken THEN "email" ELSE "name"]

(* Where the spec names the columns of a target.                           *)
columnsFor(spec, target) == {i \in DOMAIN spec.columns : spec.columns[i].target = target}

(* The first column of the target with a value in this row.                *)
first(spec, vals, target) ==
    LET full == {i \in columnsFor(spec, target) : vals[spec.columns[i].column] # Empty}
    IN  IF full = {} THEN Empty ELSE vals[spec.columns[Min(full)].column]

-----------------------------------------------------------------------------
(* The row store.                                                          *)

(* Mutant: a column is sensitive by its type alone. *)
splitCellsByType(sheet, row) ==
    LET hidden == {c.name : c \in {k \in Range(sheet.columns) : k.type \in {"email", "phone"}}}
    IN  [cells |-> {<<n, row[n]>> : n \in {m \in DOMAIN row \ hidden : row[m] # Empty}},
         enc   |-> {<<n, row[n]>> : n \in {m \in DOMAIN row \cap hidden : row[m] # Empty}}]

(* cells stay queryable, enc is encrypted.                                 *)
splitCells(sheet, row) ==
    LET hidden == {c.name : c \in {k \in Range(sheet.columns) : k.sensitive}}
    IN  [cells |-> {<<n, row[n]>> : n \in {m \in DOMAIN row \ hidden : row[m] # Empty}},
         enc   |-> {<<n, row[n]>> : n \in {m \in DOMAIN row \cap hidden : row[m] # Empty}}]

Masked == Cell("masked", "")

(* What readRows returns of one stored row when the caller may not reveal. *)
readRow(stored) == stored.cells \cup {<<c[1], Masked>> : c \in stored.enc}

(* The values queryTable groups by: it refuses a sensitive column.         *)
groups(sheet, stored, name) ==
    IF \E c \in Range(sheet.columns) : c.name = name /\ c.sensitive THEN {}
    ELSE {c[2] : c \in {d \in UNION {s.cells : s \in stored} : d[1] = name}}

-----------------------------------------------------------------------------
(* Extraction of records from a text.                                      *)

(* Confidence in tenths; a missing or broken one counts as 0.              *)
clamp01(n) == IF n < 0 THEN 0 ELSE IF n > 10 THEN 10 ELSE n

StdColumns == <<"account.name", "account.domain", "contact.name", "contact.title", "contact.email",
                "contact.phone", "deal.name", "deal.value", "task.title">>

StdTargets == Range(StdColumns)

isEmptyRecord(r) == \A t \in StdTargets : r.cells[t] = Empty

(* Records with no value are dropped; a model's confidence is clamped, and *)
(* a JSON source has confidence 1.                                         *)
normalizeRecords(raw) ==
    LET kept == InOrder({i \in DOMAIN raw : ~isEmptyRecord(raw[i])})
    IN  [k \in DOMAIN kept |-> [raw[kept[k]] EXCEPT !.confidence = clamp01(@)]]

structuredFromJson(raw) ==
    LET kept == InOrder({i \in DOMAIN raw : ~isEmptyRecord(raw[i])})
    IN  [k \in DOMAIN kept |-> [raw[kept[k]] EXCEPT !.confidence = 10]]

(* Fail-closed: a model that errors yields no record.                      *)
extractEntities(source, raw, ok) ==
    CASE source = "json" -> structuredFromJson(raw)
      [] source = "model" /\ ok -> normalizeRecords(raw)
      [] OTHER -> <<>>

(* The columns of a staged text are the standard targets themselves.       *)
extractionMapping ==
    [columns |-> [i \in DOMAIN StdColumns |-> [column |-> StdColumns[i], target |-> StdColumns[i]]],
     account |-> "domain", contact |-> "email"]
=============================================================================

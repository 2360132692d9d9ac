----------------------------- MODULE AuditChain -----------------------------
(***************************************************************************)
(* The audit log of the web application (src/webapp/src/lib/audit/chain.ts):*)
(* one hash chain per workspace in one table.                              *)
(*                                                                         *)
(* appendAudit is two statements that commit separately, the SELECT of the *)
(* head and the INSERT; requests of the same workspace interleave between  *)
(* them.  The keyed MAC is abstracted to an injective constructor: a MAC   *)
(* is the sequence of what was MACed along the chain.  Someone who can     *)
(* write the table and does not have the key changes, removes or moves     *)
(* rows, and can only store MACs that the application has issued.  A       *)
(* record's event, target, actor, hashes and time are one value.           *)
(***************************************************************************)
EXTENDS Naturals, FiniteSets, Sequences, SequencesExt

CONSTANTS Workspaces, Contents,
          Appenders,            \* concurrent calls of appendAudit
          MaxRows, MaxEdits     \* bounds

VARIABLES
    rows,       \* the table in the order of seq
    pending,    \* appender -> the row it is about to insert (none: {})
    wrote,      \* history: for every MAC the application has computed, the
                \* workspace and the contents of the log it then had written
    edits,      \* number of edits outside the application
    overlapped  \* history: two appends of one workspace have overlapped

vars == <<rows, pending, wrote, edits, overlapped>>

GENESIS_PREV == <<>>

(* Mutant: the record does not cover the record before it. *)
RecordHashUnlinked(prevHash, w, content) == <<<<w, content>>>>

recordHash(prevHash, w, content) == Append(prevHash, <<w, content>>)

(* The rows of one workspace, in the order of seq. *)
Chain(w) ==
    LET mine == {i \in DOMAIN rows : rows[i].workspaceId = w}
    IN  [k \in 1..Cardinality(mine) |->
            rows[CHOOSE i \in mine : Cardinality({j \in mine : j < i}) = k - 1]]

ContentsOf(chain) == [i \in DOMAIN chain |-> chain[i].content]

(* The MACs the application has issued. *)
Issued == DOMAIN wrote

Init ==
    /\ rows = <<>>
    /\ pending = [p \in Appenders |-> {}]
    /\ wrote = <<>>
    /\ edits = 0
    /\ overlapped = FALSE

-----------------------------------------------------------------------------
(* appendAudit *)

(* Mutant: the head is the oldest row. *)
HeadHashOldest(w) == IF Chain(w) = <<>> THEN GENESIS_PREV ELSE Head(Chain(w)).hash

(* Mutant: the first record has no agreed predecessor. *)
HeadHashUnset(w) == IF Chain(w) = <<>> THEN <<"unset">> ELSE Last(Chain(w)).hash

(* SELECT hash ... ORDER BY seq DESC LIMIT 1 *)
HeadHash(w) == IF Chain(w) = <<>> THEN GENESIS_PREV ELSE Last(Chain(w)).hash

(* The head is read and the record is computed from it. *)
ReadHead(p, w, content) ==
    /\ pending[p] = {}
    /\ Len(rows) < MaxRows
    /\ LET head == HeadHash(w)
           hash == recordHash(head, w, content)
           before == IF head \in Issued THEN wrote[head][2] ELSE <<>>
       IN  /\ pending' = [pending EXCEPT ![p] =
                {[workspaceId |-> w, content |-> content,
                  prevHash |-> head, hash |-> hash]}]
           /\ wrote' = [h \in Issued \cup {hash} |->
                           IF h = hash THEN <<w, Append(before, content)>> ELSE wrote[h]]
    /\ overlapped' = (overlapped \/ \E q \in Appenders : \E row \in pending[q] : row.workspaceId = w)
    /\ UNCHANGED <<rows, edits>>

(* The row is inserted; the sequence of the table gives it the next seq. *)
InsertRow(p) ==
    /\ \E row \in pending[p] : rows' = Append(rows, row)
    /\ pending' = [pending EXCEPT ![p] = {}]
    /\ UNCHANGED <<wrote, edits, overlapped>>

-----------------------------------------------------------------------------
(* Edits of the table outside the application, without the key.            *)

ChangeRow(i, w, content, prevHash, hash) ==
    /\ edits < MaxEdits
    /\ rows' = [rows EXCEPT ![i] = [workspaceId |-> w, content |-> content,
                                    prevHash |-> prevHash, hash |-> hash]]
    /\ edits' = edits + 1
    /\ UNCHANGED <<pending, wrote, overlapped>>

DeleteRow(i) ==
    /\ edits < MaxEdits
    /\ rows' = RemoveAt(rows, i)
    /\ edits' = edits + 1
    /\ UNCHANGED <<pending, wrote, overlapped>>

Next ==
    \/ \E p \in Appenders, w \in Workspaces, c \in Contents : ReadHead(p, w, c)
    \/ \E p \in Appenders : InsertRow(p)
    \/ \E i \in DOMAIN rows, w \in Workspaces, c \in Contents,
          prev \in Issued \cup {GENESIS_PREV}, hash \in Issued :
            ChangeRow(i, w, c, prev, hash)
    \/ \E i \in DOMAIN rows : DeleteRow(i)

Spec == Init /\ [][Next]_vars

-----------------------------------------------------------------------------
(* verifyChainFromDb: every row names the MAC of the row before it and     *)
(* carries the MAC of its own fields over that one.                        *)
verifyChainFromDb(w) ==
    LET chain == Chain(w)
        Prev(i) == IF i = 1 THEN GENESIS_PREV ELSE chain[i - 1].hash
    IN  \A i \in DOMAIN chain :
            /\ chain[i].prevHash = Prev(i)
            /\ chain[i].hash = recordHash(Prev(i), w, chain[i].content)

(* TypeOK: rows and MACs keep their shape, an edited table included.       *)
TypeOK ==
    /\ \A i \in DOMAIN rows :
          /\ rows[i].workspaceId \in Workspaces /\ rows[i].content \in Contents
          /\ rows[i].prevHash \in Issued \cup {GENESIS_PREV}
          /\ rows[i].hash \in Issued
    /\ \A p \in Appenders : \A row \in pending[p] : row.hash \in Issued
    /\ edits \in 0..MaxEdits

(* TamperEvident: whatever was done to the table without the key, appends  *)
(* after it included, a workspace whose chain verifies shows a log the     *)
(* application wrote in exactly this order, up to a lost tail: no record   *)
(* was changed, left out, exchanged or brought in from another workspace.  *)
TamperEvident ==
    \A w \in Workspaces :
        LET chain == Chain(w)
        IN  chain # <<>> /\ verifyChainFromDb(w) =>
                wrote[Last(chain).hash] = <<w, ContentsOf(chain)>>

(* NoFalseAlarm: a table that only the application has written verifies    *)
(* ("Each record links to the prior via `prevHash`"), unless two appends   *)
(* of one workspace overlapped: both then name the same predecessor.       *)
NoFalseAlarm ==
    edits = 0 /\ ~overlapped => \A w \in Workspaces : verifyChainFromDb(w)

(* A log that verifies is one that appendAudit wrote, and one that nobody  *)
(* edited verifies while no two appends overlap.                           *)
ChainHonest == TamperEvident /\ NoFalseAlarm

=============================================================================

------------------------------- MODULE Boards -------------------------------
(***************************************************************************)
(* The kanban boards of tasks (PmScreen.tsx, domain/pm.ts) and deals       *)
(* (CrmScreen.tsx).  A page takes its cards from the server once, changes  *)
(* its copy at once when a card is dragged or deleted, and sends a request *)
(* the server handles later, in any order.  A route writes the card first  *)
(* and the audit log after, so that an error may be answered to what was   *)
(* written.  A refresh of the route does not replace the copy.             *)
(***************************************************************************)
EXTENDS Naturals, FiniteSets, Functions

CONSTANTS Pages, Cards,     \* open pages; the cards there may be
          Columns, Backlog, \* the columns, and the one a new card is in
          MaxCardReqs       \* bound on requests

VARIABLES
    board,      \* the server's cards: card -> column
    copies,     \* page -> its copy
    cardReqs,   \* requests: [page, kind, card, to, prev, at], at where they stand
    foreign,    \* page -> cards another page changed since it was loaded
    unsure,     \* page -> requests overlapped, a move was refused, an answer misled or was lost
    sendings    \* requests so far

boardVars == <<board, copies, cardReqs, foreign, unsure, sendings>>

tasks == [Cards -> Columns]

BoardInit ==
    /\ board \in UNION {[c -> {Backlog}] : c \in SUBSET Cards}
    /\ copies = [p \in Pages |-> board]
    /\ cardReqs = {} /\ sendings = 0
    /\ foreign = [p \in Pages |-> {}]
    /\ unsure = [p \in Pages |-> FALSE]

Waiting(p) == {r \in cardReqs : r.page = p}

SendCard(p, kind, c, to) ==
    /\ sendings < MaxCardReqs /\ sendings' = sendings + 1
    /\ cardReqs' = cardReqs \union {[page |-> p, kind |-> kind, card |-> c, to |-> to,
                                       prev |-> copies[p], at |-> "sent", no |-> sendings]}
    /\ unsure' = [unsure EXCEPT ![p] = @ \/ Waiting(p) # {}]
    /\ UNCHANGED <<board, foreign>>

(* A card dropped on another column: shown there before the server knows. *)
move(p, c, to) ==
    /\ c \in DOMAIN copies[p] /\ copies[p][c] # to
    /\ copies' = [copies EXCEPT ![p][c] = to]
    /\ SendCard(p, "move", c, to)

Without(f, c) == Restrict(f, DOMAIN f \ {c})

delTask(p, c) ==
    /\ c \in DOMAIN copies[p]
    /\ copies' = [copies EXCEPT ![p] = Without(@, c)]
    /\ SendCard(p, "delete", c, Backlog)

create(p, c) ==
    /\ c \notin DOMAIN board /\ ~\E r \in cardReqs : r.card = c
    /\ \A q \in Pages : c \notin DOMAIN copies[q]
    /\ SendCard(p, "create", c, Backlog)
    /\ UNCHANGED copies

Elsewhere(p, c) == foreign' = [q \in Pages |-> IF q = p THEN foreign[q] ELSE foreign[q] \union {c}]

To(r, at) == cardReqs' = (cardReqs \ {r}) \union {[r EXCEPT !.at = at]}

(* How a request that was written is answered: the log may fail after it.  *)
AnsweredAs == {"done", "unaudited"}

(* moveTask: an update of a card that is gone changes nothing. *)
moveTask(r, at) ==
    /\ r.kind = "move" /\ r.at = "sent"
    /\ board' = IF r.card \in DOMAIN board THEN [board EXCEPT ![r.card] = r.to] ELSE board
    /\ Elsewhere(r.page, r.card) /\ To(r, at)
    /\ UNCHANGED <<copies, unsure, sendings>>

deleteCard(r, at) ==
    /\ r.kind = "delete" /\ r.at = "sent"
    /\ board' = Without(board, r.card)
    /\ Elsewhere(r.page, r.card) /\ To(r, at)
    /\ UNCHANGED <<copies, unsure, sendings>>

createCard(r, at) ==
    /\ r.kind = "create" /\ r.at = "sent"
    /\ board' = [c \in DOMAIN board \union {r.card} |-> IF c = r.card THEN Backlog ELSE board[c]]
    /\ Elsewhere(r.page, r.card) /\ To(r, at)
    /\ UNCHANGED <<copies, unsure, sendings>>

(* Not allowed, not valid, or an error before anything is written. *)
RefuseCard(r) ==
    /\ r.at = "sent" /\ To(r, "refused")
    /\ UNCHANGED <<board, copies, foreign, unsure, sendings>>

(* Mutant: a refused delete leaves the card out. *)
RestoreNot(r, copy) ==
    IF r.at = "done" /\ r.kind = "create" THEN [c \in DOMAIN copy \union {r.card} |-> IF c = r.card THEN Backlog ELSE copy[c]]
    ELSE copy

(* A delete answered with an error restores the list of then; a move that   *)
(* was is not noticed, and a card not known to be made is not shown.       *)
AfterAnswer(r, copy) ==
    IF r.at = "done" /\ r.kind = "create" THEN [c \in DOMAIN copy \union {r.card} |-> IF c = r.card THEN Backlog ELSE copy[c]]
    ELSE IF r.at \in {"refused", "unaudited"} /\ r.kind = "delete" THEN r.prev
    ELSE copy

Misleads(r) ==
    (r.at = "refused" /\ r.kind = "move") \/ (r.at = "unaudited" /\ r.kind # "move")

CardAnswer(r) ==
    /\ r.at # "sent"
    /\ copies' = [copies EXCEPT ![r.page] = AfterAnswer(r, @)]
    /\ unsure' = [unsure EXCEPT ![r.page] = @ \/ Misleads(r)]
    /\ cardReqs' = cardReqs \ {r}
    /\ UNCHANGED <<board, foreign, sendings>>

(* No answer: the route is refreshed, or nothing happens at all. *)
NoAnswer(r) ==
    /\ cardReqs' = cardReqs \ {r}
    /\ unsure' = [unsure EXCEPT ![r.page] = TRUE]
    /\ UNCHANGED <<board, copies, foreign, sendings>>

(* The page is loaded anew: listTasks, listDeals. *)
Load(p) ==
    /\ Waiting(p) = {} /\ (copies[p] # board \/ unsure[p])
    /\ copies' = [copies EXCEPT ![p] = board]
    /\ foreign' = [foreign EXCEPT ![p] = {}]
    /\ unsure' = [unsure EXCEPT ![p] = FALSE]
    /\ UNCHANGED <<board, cardReqs, sendings>>

BoardNext ==
    \/ \E p \in Pages :
         \/ Load(p)
         \/ \E c \in Cards : delTask(p, c) \/ create(p, c) \/ \E to \in Columns : move(p, c, to)
    \/ \E r \in cardReqs :
         \/ \E at \in AnsweredAs : moveTask(r, at) \/ deleteCard(r, at) \/ createCard(r, at)
         \/ RefuseCard(r) \/ CardAnswer(r) \/ NoAnswer(r)

BoardSpec == BoardInit /\ [][BoardNext]_boardVars

(* A page that waits for nothing shows what the server has, but for what   *)
(* other pages changed: no card vanishes, none stays behind, none stands   *)
(* in another column; unless its requests overlapped, a move was refused,  *)
(* a deletion or a new card was written and answered with an error, or an  *)
(* answer was lost.                                                        *)
BoardAgrees ==
    \A p \in Pages : Waiting(p) = {} /\ ~unsure[p] =>
        Restrict(copies[p], DOMAIN copies[p] \ foreign[p]) = Restrict(board, DOMAIN board \ foreign[p])

=============================================================================

------------------------------ MODULE MCCopies ------------------------------
(* Copies of records for TLC: the stores of members (DomainStore), and the  *)
(* pages of boards and of the calendar (Screens).  They share no state, so  *)
(* one behaviour explores one of them, as "part" says.                      *)
EXTENDS DomainStore, Screens, TLC

CONSTANTS e1, f1, f2, u, v, none, p1, p2

VARIABLE part

Symmetry == Permutations(Fields) \cup Permutations(Values) \cup Permutations(Pages)

(* The agenda shows a day, the month two.                                  *)
ViewSpan == [agenda |-> 1, month |-> 2]

(* A board is explored from every set of cards.                            *)
CopiesInit ==
    /\ Init /\ PageInit
    /\ part \in {"stores", "boards", "calendar page"}
    /\ BoardInit
    /\ part = "boards" \/ board = <<>>

CopiesNext ==
    \/ part = "stores" /\ Next /\ UNCHANGED <<part, boardVars, pageVars>>
    \/ part = "boards" /\ BoardNext /\ UNCHANGED <<part, vars, pageVars>>
    \/ part = "calendar page" /\ PageNext /\ UNCHANGED <<part, vars, boardVars>>

CopiesSpec == CopiesInit /\ [][CopiesNext]_<<part, vars, boardVars, pageVars>>

(* A third request of boards comes only as long as a page is sure of its    *)
(* copy.                                                                   *)
Regions == part = "boards" /\ sendings = 3 => \E p \in Pages : ~unsure[p]
=============================================================================

------------------------------ MODULE Screens ------------------------------
(***************************************************************************)
(* The pages that keep a copy of what the server has: the boards and the   *)
(* calendar.  They share nothing but what they owe their reader.           *)
(***************************************************************************)
EXTENDS Boards, CalendarPage

(* What a board or a calendar shows at rest is what the server has.         *)
ScreensTrue == BoardAgrees /\ ShownCovered

=============================================================================

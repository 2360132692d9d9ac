----------------------------- MODULE MCWebapp -----------------------------
(* What the web application must eventually do, for TLC: Approvals, Notify  *)
(* and the reminders of Calendar; and Channels, where agents answer.  They  *)
(* share no state, so one behaviour explores one of them, as "part" says.   *)
(* The approval a1 is high-risk and was queued for u1; every other one is   *)
(* an ordinary write queued for u2.  u2 is a Partner in the channel.  One   *)
(* tick of the reminder job at a time, with a batch of one, and two         *)
(* requests that edit.                                                      *)
EXTENDS Approvals, Channels, Calendar, TLC

CONSTANTS a1, a2, u1, u2, r1, r2

VARIABLES part,      \* and those of Notify
          notices, read, emits, member, stream, wire, bell, polls, missed, turns

notVars == <<notices, read, emits, member, stream, wire, bell, polls, missed, turns>>

QueuedFor == [a \in Ids |-> IF a = a1 THEN u1 ELSE u2]

(* u1's handle is a beginning of u2's, and what is typed after the @ names  *)
(* u2 or has an end that is nobody's.                                       *)
Ping == INSTANCE Notify WITH
    Me <- u1, Handles <- (u1 :> <<"a">>) @@ (u2 :> <<"a", "b">>),
    Tokens <- {<<"a", "c">>, <<"a", "b">>}, MaxNotices <- 2, MaxTurns <- 2

allVars == <<part, vars, chanVars, notVars, calVars>>

WebappInit ==
    /\ part \in {"approvals", "channels", "bell", "reminders"}
    /\ Init /\ ChanInit /\ Ping!NotInit /\ CalInit

InApprovals(A) == part = "approvals" /\ A /\ UNCHANGED <<part, chanVars, notVars, calVars>>
InChannels(A) == part = "channels" /\ A /\ UNCHANGED <<part, vars, notVars, calVars>>
InBell(A) == part = "bell" /\ A /\ UNCHANGED <<part, vars, chanVars, calVars>>
InReminders(A) == part = "reminders" /\ A /\ UNCHANGED <<part, vars, chanVars, notVars>>

WebappSpec ==
    /\ WebappInit
    /\ [][\/ InApprovals(Next) \/ InChannels(ChanNext)
          \/ InBell(Ping!NotNext) \/ InReminders(EventNext)]_allVars
    /\ \A r \in Requests : WF_allVars(InApprovals(Step(r)))
    /\ WF_allVars(InBell(Ping!StreamOpens)) /\ WF_allVars(InBell(Ping!Snapshot))
    /\ WF_allVars(InBell(Ping!Tick)) /\ WF_allVars(InBell(Ping!Receive))
    /\ WF_allVars(InBell(Ping!poll))
    /\ WF_allVars(InBell(\E n \in polls : Ping!Polled(n)))
    /\ WF_allVars(InBell(Ping!markRead \/ Ping!clear))
    /\ WF_allVars(InReminders(TickStep))

(* A member with unread notices sees a badge, unless it was overtaken, and  *)
(* the due reminders are worked off again and again.                        *)
NoticesArrive == Ping!PingShown /\ RemindersDrain
=============================================================================

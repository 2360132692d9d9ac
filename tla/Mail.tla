-------------------------------- MODULE Mail --------------------------------
(***************************************************************************)
(* Outgoing mail (lib/email): every send checks the suppression list and   *)
(* then tries Resend and SMTP; the mail carries a link that unsubscribes   *)
(* its address, through the mail client's one-click button or the page.    *)
(* An address is written in one of several spellings, canon[s] being the   *)
(* trimmed, lower-case one that is stored, signed and mailed to.           *)
(***************************************************************************)
EXTENDS Naturals, Sequences

CONSTANTS Spellings,        \* how a caller may write an address
          canon,            \* spelling -> address
          Transports,       \* the configured ones, of "resend" and "smtp"
          MaxMails,         \* bound on sends
          MaxSlips          \* bound on transport and network errors

VARIABLES
    suppressed, \* rows of email_suppression
    mails,      \* sends: [to, at, late], late when the address had been told so
    links,      \* addresses a delivered mail carries the token of
    wanted,     \* addresses whose reader asked to be unsubscribed
    told,       \* addresses an unsubscribe was answered for
    pages,      \* unsubscribe pages: address -> "none" | "working" | "posted" | "done" | "error"
    slips       \* errors so far

mailVars == <<suppressed, mails, links, wanted, told, pages, slips>>

Addresses == {canon[s] : s \in Spellings}

MailInit ==
    /\ suppressed = {} /\ links = {} /\ wanted = {} /\ told = {} /\ slips = 0
    /\ mails = <<>>
    /\ pages = [a \in Addresses |-> "none"]

Slip == slips < MaxSlips /\ slips' = slips + 1

resendConfig == "resend" \in Transports

smtpConfig == "smtp" \in Transports

isSuppressed(a) == a \in suppressed

suppress(a) == suppressed' = suppressed \union {a}

(* The token names the address it was made for, and a token that was not   *)
(* made here verifies to nothing: the tokens are those of delivered mails. *)
unsubscribeToken(s) == canon[s]

verifyUnsubscribeToken(t) == t

(* sendCompliant is called, by an invite or by the calendar.               *)
BeginSend(s) ==
    /\ Len(mails) < MaxMails
    /\ mails' = Append(mails, [to |-> s, at |-> "check", late |-> canon[s] \in told])
    /\ UNCHANGED <<suppressed, links, wanted, told, pages, slips>>

sendInviteEmail(s) == BeginSend(s)

sendCalendarEmail(s) == BeginSend(s)

(* The suppression list is asked before anything else. *)
Check(i) ==
    /\ mails[i].at = "check"
    /\ mails' = [mails EXCEPT ![i].at =
            IF isSuppressed(canon[mails[i].to]) THEN "suppressed"
            ELSE IF resendConfig THEN "resend"
            ELSE IF smtpConfig THEN "smtp" ELSE "link"]
    /\ UNCHANGED <<suppressed, links, wanted, told, pages, slips>>

Handed(i) == links' = links \union {verifyUnsubscribeToken(unsubscribeToken(mails[i].to))}

(* A transport takes the mail, or it refuses it, or its answer is lost     *)
(* after it took it; an error goes on to the next transport, and the last  *)
(* one hands the invite's link back.                                       *)
Hand(i, transport, next) ==
    /\ mails[i].at = transport
    /\ \/ /\ Handed(i) /\ mails' = [mails EXCEPT ![i].at = "sent"] /\ UNCHANGED slips
       \/ /\ Slip /\ mails' = [mails EXCEPT ![i].at = next]
          /\ Handed(i) \/ UNCHANGED links
    /\ UNCHANGED <<suppressed, wanted, told, pages>>

SendResend(i) == Hand(i, "resend", IF smtpConfig THEN "smtp" ELSE "link")

SendSmtp(i) == Hand(i, "smtp", "link")

sendCompliant(i) == Check(i) \/ SendResend(i) \/ SendSmtp(i)

doUnsubscribe(t) == suppress(verifyUnsubscribeToken(t))

(* The native button of the reader's mail client posts the token. *)
OneClick(t) ==
    /\ wanted' = wanted \union {t} /\ told' = told \union {t}
    /\ doUnsubscribe(t)
    /\ UNCHANGED <<mails, links, pages, slips>>

(* Mutant: following the List-Unsubscribe link is taken for a click. *)
GetSuppresses(t) ==
    /\ doUnsubscribe(t)
    /\ UNCHANGED <<mails, links, wanted, told, pages, slips>>

(* A scanner follows the link: it is sent to the page and runs no script. *)
Get(t) == UNCHANGED mailVars

(* The reader opens the link, and the page posts the token by itself. *)
OpenPage(t) ==
    /\ pages[t] \in {"none", "error"}
    /\ pages' = [pages EXCEPT ![t] = "working"]
    /\ wanted' = wanted \union {t}
    /\ UNCHANGED <<suppressed, mails, links, told, slips>>

(* The post is served, or lost on the way. *)
Post(t) ==
    /\ pages[t] = "working"
    /\ \/ /\ doUnsubscribe(t) /\ pages' = [pages EXCEPT ![t] = "posted"] /\ UNCHANGED slips
       \/ /\ Slip /\ pages' = [pages EXCEPT ![t] = "error"] /\ UNCHANGED suppressed
    /\ UNCHANGED <<mails, links, wanted, told>>

(* The answer is shown, or lost, or the page was closed meanwhile. *)
ShowAnswer(t) ==
    /\ pages[t] = "posted"
    /\ \/ /\ pages' = [pages EXCEPT ![t] = "done"] /\ told' = told \union {t} /\ UNCHANGED slips
       \/ /\ Slip /\ pages' = [pages EXCEPT ![t] = "error"] /\ UNCHANGED told
       \/ /\ pages' = [pages EXCEPT ![t] = "none"] /\ UNCHANGED <<told, slips>>
    /\ UNCHANGED <<suppressed, mails, links, wanted>>

MailNext ==
    \/ \E s \in Spellings : sendInviteEmail(s) \/ sendCalendarEmail(s)
    \/ \E i \in DOMAIN mails : sendCompliant(i)
    \/ \E t \in links : OneClick(t) \/ Get(t) \/ OpenPage(t) \/ Post(t) \/ ShowAnswer(t)

MailSpec == MailInit /\ [][MailNext]_mailVars

(* No mail that was begun after its address was told it is unsubscribed is *)
(* handed to a transport, however the address was written this time and    *)
(* whatever transport failed; and nobody is unsubscribed who did not ask:  *)
(* a link scanner's GET changes nothing.                                   *)
UnsubscribeHonoured ==
    /\ \A i \in DOMAIN mails : mails[i].late => mails[i].at \in {"check", "suppressed"}
    /\ suppressed \subseteq wanted

=============================================================================

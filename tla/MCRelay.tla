------------------------------ MODULE MCRelay ------------------------------
(* Relay for TLC.  The whole product of Commits, grants and invites is out  *)
(* of reach, so one run explores three regions of it: orderings of          *)
(* submissions, membership with role grants, membership with invites.       *)
EXTENDS Relay, TLC

CONSTANTS o, a, g1, c1, c2, t1

(* Nobody, one wallet, one wallet named twice, or more names than            *)
(* MAX_RECIPIENTS, which is refused.                                        *)
Audiences == {<<>>, <<a>>, <<a, a>>, <<o, a, o>>}

Logged == UNION {{groups[g].log[i] : i \in DOMAIN groups[g].log} : g \in DOMAIN groups}

NoInvites == DOMAIN invites = {}

(* Envelopes that onboard and offboard make, of one ciphertext and for      *)
(* nobody: who is told is not in question where who is a member is.         *)
MembershipOnly ==
    \A env \in Logged : env.ct = c1 /\ env.kind \in {"Welcome", "Commit"}
                                    /\ env.recipients = <<>>

Orderings ==
    /\ grants = {} /\ NoInvites
    /\ Cardinality(Logged) <= 3
    /\ \A env \in Logged : env.recipients = <<a>> <=> env.kind # "Application"

Authority == NoInvites /\ MembershipOnly /\ Cardinality(Logged) <= 3

Invited == grants = {} /\ MembershipOnly /\ Cardinality(Logged) <= 1

Regions == Orderings \/ Authority \/ Invited
=============================================================================

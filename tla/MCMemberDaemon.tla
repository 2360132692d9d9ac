--------------------------- MODULE MCMemberDaemon ---------------------------
(* MemberDaemon for TLC.  The product of groups, messages, invites and      *)
(* restarts is out of reach; one run explores five regions of it.  The      *)
(* wallets other than the owner are interchangeable.                        *)
EXTENDS MemberDaemon, TLC

CONSTANTS o, a, b, g1, g2, t1

Joiners == Permutations(Wallets \ {Owner})

OneGroup == \E g \in Groups : \A f \in Groups \ {g} : roster[f] = {}

NoInvites == DOMAIN invites = {}

(* A wallet other than the owner that has had no part in anything. *)
Unused(w) ==
    /\ w # Owner /\ op[w] = Idle /\ packages[w] = 1 /\ mail[w] = <<>>
    /\ DOMAIN groups[w] = {} /\ \A g \in Groups : w \notin roster[g]

Pair == OneGroup /\ \E w \in Wallets : Unused(w)

(* Two groups, three members, no messages: three Commits, or two and a      *)
(* restart.                                                                *)
Steps == NoInvites /\ sent = <<>> /\ crashes <= 1 /\ commits + crashes <= 3

(* One group, three members, two restarts: an owner that stopped inside an  *)
(* operation may come back, and onboard again.                              *)
Stops == NoInvites /\ OneGroup /\ sent = <<>> /\ commits <= 3

(* One group, three members, a message. *)
Talk == NoInvites /\ OneGroup /\ Len(sent) <= 1 /\ crashes = 0 /\ commits <= 3

(* Two wallets, an invite, two messages or one and a restart. *)
Invited == Pair /\ crashes <= 1 /\ commits <= 3 /\ Len(sent) + crashes <= 2

(* Two wallets, three messages and a restart, or two of each. *)
Restarts == Pair /\ NoInvites /\ commits <= 2 /\ Len(sent) + crashes <= 4

Regions == Steps \/ Stops \/ Talk \/ Invited \/ Restarts
=============================================================================

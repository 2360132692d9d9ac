------------------------------- MODULE SignIn -------------------------------
(***************************************************************************)
(* Signing in to the web application: the code flow (auth/start,           *)
(* auth/callback), the silent refresh every request may run (proxy.ts),    *)
(* the check of a handler (session.ts) and signing out (auth/logout).      *)
(*                                                                         *)
(* One browser, whose requests are in flight together: each carries the    *)
(* cookies of the moment it was sent, and its answer sets cookies when it  *)
(* arrives.  The authority may rotate a refresh token when it is used: it  *)
(* has one use then, and presenting it again may cost the whole grant (the *)
(* provider the flow is written for, panva's oidc-provider, revokes it).   *)
(***************************************************************************)
EXTENDS Naturals

CONSTANTS Flights,        \* slots for requests in flight
          Mode,           \* NEXT_PUBLIC_AUTH_MODE: "oidc", "mock" or "unset"
          Production, AllowMock, Configured,   \* the rest of the environment
          MaxTokens,      \* bound on refresh tokens issued
          MaxTrips        \* bound on requests sent

VARIABLES
    jar,      \* the browser's cookies: [id, refresh, flow]
    flights,  \* slot -> request or answer in flight
    issued,   \* refresh tokens issued so far
    live,     \* refresh tokens the authority would accept
    grant,    \* refresh token -> the first token of its grant
    out,      \* history: signed out, and not in again
    raced,    \* history: other requests were in flight when the browser signed out
    hurt,     \* history: an answer was lost, or the user signed out
    crossed,  \* history: a request with a refresh to do was sent during another's
    reused,   \* history: the authority revoked a grant, a token having come twice
    trips     \* requests sent

tokens == <<issued, live, grant>>
signVars == <<jar, flights, tokens, out, raced, hurt, crossed, reused, trips>>

NoCookies == [id |-> "none", refresh |-> 0, flow |-> 0]
Landed == [pc |-> "free"]

(* An answer sets some of the cookies, or none. *)
Keep == <<>>

SignInit ==
    /\ jar = NoCookies /\ flights = [f \in Flights |-> Landed]
    /\ issued = 0 /\ live = {} /\ grant = [n \in 1..MaxTokens |-> n] /\ trips = 0
    /\ out = FALSE /\ raced = FALSE /\ hurt = FALSE /\ crossed = FALSE /\ reused = FALSE

-----------------------------------------------------------------------------
(* session.ts: unset or unknown falls on the path that verifies. *)
resolveServerAuthMode ==
    IF Mode = "mock" THEN (IF Production /\ ~AllowMock THEN "mock-disabled" ELSE "mock") ELSE "oidc"

(* Without issuer and audience every token is refused. *)
verifyOidcToken(id) == Configured /\ id = "fresh"

verifyMockToken(id) == id # "none"

verifySession(id) ==
    CASE resolveServerAuthMode = "oidc" -> verifyOidcToken(id)
      [] resolveServerAuthMode = "mock" -> verifyMockToken(id)
      [] OTHER -> FALSE

Send(f, what) ==
    /\ flights[f] = Landed /\ trips < MaxTrips
    /\ trips' = trips + 1
    /\ flights' = [flights EXCEPT ![f] = what]

Answer(f, set) == flights' = [flights EXCEPT ![f] = [pc |-> "answer", set |-> set]]

(* auth/start: a verifier and a state in short-lived cookies. *)
Start(f) ==
    /\ Send(f, [pc |-> "answer", set |-> [flow |-> trips + 1]])
    /\ UNCHANGED <<jar, tokens, out, raced, hurt, crossed, reused>>

(* auth/callback, back from the authority with the state of some start.    *)
Callback(f, state) ==
    /\ Send(f, [pc |-> "callback", flow |-> jar.flow, state |-> state])
    /\ UNCHANGED <<jar, tokens, out, raced, hurt, crossed, reused>>

CallbackRefused(f) ==
    /\ flights[f].pc = "callback"
    /\ Answer(f, [flow |-> 0])
    /\ UNCHANGED <<jar, tokens, out, raced, hurt, crossed, reused, trips>>

(* issued' is a new token, of the grant whose first token is "first". *)
Issue(first) ==
    /\ issued < MaxTokens
    /\ issued' = issued + 1
    /\ grant' = [grant EXCEPT ![issued'] = first]

(* The authority need not hand out a refresh token: then that cookie stays. *)
CallbackExchanged(f) ==
    /\ flights[f].pc = "callback" /\ flights[f].flow # 0 /\ flights[f].state = flights[f].flow
    /\ \/ /\ Issue(issued + 1)
          /\ live' = live \union {issued'}
          /\ Answer(f, [id |-> "fresh", refresh |-> issued', flow |-> 0])
       \/ Answer(f, [id |-> "fresh", flow |-> 0]) /\ UNCHANGED tokens
    /\ UNCHANGED <<jar, out, raced, hurt, crossed, reused, trips>>

-----------------------------------------------------------------------------
needsRefresh(q) == q.refresh # 0 /\ q.id # "fresh"

(* Slot f holds a request that is to refresh, or an answer that hands a     *)
(* refresh token over.                                                      *)
Renewing(f) ==
    \/ flights[f].pc = "proxy" /\ needsRefresh(flights[f])
    \/ flights[f].pc = "answer" /\ "refresh" \in DOMAIN flights[f].set

(* Any page or API request, through the proxy. *)
Request(f) ==
    /\ Send(f, [pc |-> "proxy", id |-> jar.id, refresh |-> jar.refresh])
    /\ crossed' = (crossed \/ (needsRefresh(jar) /\ \E g \in Flights : Renewing(g)))
    /\ UNCHANGED <<jar, tokens, out, raced, hurt, reused>>

(* Passed through untouched: nothing to refresh, or the authority is not    *)
(* configured, cannot be reached or refuses.                                *)
ProxyPasses(f) ==
    /\ flights[f].pc = "proxy"
    /\ Answer(f, Keep)
    /\ UNCHANGED <<jar, tokens, out, raced, hurt, crossed, reused, trips>>

SameGrant(t) == {n \in live : grant[n] = grant[t]}

(* The token was used before: refused, and its grant is revoked.  The answer *)
(* passes all the same.                                                     *)
ProxyReuses(f) ==
    /\ flights[f].pc = "proxy" /\ needsRefresh(flights[f]) /\ flights[f].refresh \notin live
    /\ live' = live \ SameGrant(flights[f].refresh)
    /\ reused' = TRUE
    /\ Answer(f, Keep)
    /\ UNCHANGED <<jar, issued, grant, out, raced, hurt, crossed, trips>>

Rotated(n) == [id |-> "fresh", refresh |-> n]

(* The authority takes the token, and rotates it or not. *)
ProxyRefreshes(f) ==
    LET t == flights[f].refresh
    IN  /\ flights[f].pc = "proxy" /\ needsRefresh(flights[f]) /\ t \in live
        /\ \/ /\ Issue(grant[t])
              /\ live' = (live \ {t}) \union {issued'}
              /\ \/ Answer(f, Rotated(issued')) /\ hurt' = hurt
                 \/ Answer(f, Keep) /\ hurt' = TRUE   \* its answer never came back
           \/ Answer(f, [id |-> "fresh"]) /\ UNCHANGED <<tokens, hurt>>
        /\ UNCHANGED <<jar, out, raced, crossed, reused, trips>>

-----------------------------------------------------------------------------
(* Mutant: signing out forgets the refresh cookie. *)
ClearedIdOnly == [id |-> "none"]

Cleared == [id |-> "none", refresh |-> 0]

(* auth/logout, POST only: revoke if the authority answers in time, clear. *)
Logout(f) ==
    /\ Send(f, [pc |-> "logout", refresh |-> jar.refresh])
    /\ hurt' = TRUE
    /\ UNCHANGED <<jar, tokens, out, raced, crossed, reused>>

(* The authority revokes the token, its whole grant, or nothing. *)
revokeRefreshToken(f) ==
    LET t == flights[f].refresh
    IN  /\ flights[f].pc = "logout"
        /\ \/ live' = live \ {t}
           \/ t # 0 /\ live' = live \ SameGrant(t)
           \/ live' = live
        /\ flights' = [flights EXCEPT ![f] = [pc |-> "cleared", set |-> Cleared]]
        /\ UNCHANGED <<jar, issued, grant, out, raced, hurt, crossed, reused, trips>>

Arrive(f) ==
    LET set == flights[f].set
    IN  /\ flights[f].pc \in {"answer", "cleared"}
        /\ jar' = [c \in DOMAIN jar |-> IF c \in DOMAIN set THEN set[c] ELSE jar[c]]
        /\ out' = IF flights[f].pc = "cleared" THEN TRUE
                  ELSE out /\ ~({"id", "flow"} \subseteq DOMAIN set)
        /\ raced' = IF flights[f].pc = "cleared"
                    THEN \E g \in Flights \ {f} : flights[g] # Landed ELSE raced
        /\ flights' = [flights EXCEPT ![f] = Landed]
        /\ UNCHANGED <<tokens, hurt, crossed, reused, trips>>

Lose(f) ==
    /\ flights[f].pc \in {"answer", "cleared"}
    /\ flights' = [flights EXCEPT ![f] = Landed]
    /\ hurt' = TRUE
    /\ UNCHANGED <<jar, tokens, out, raced, crossed, reused, trips>>

(* An hour passes: the id token is refused, its cookie goes. *)
IdExpires ==
    /\ jar.id = "fresh"
    /\ \/ jar' = [jar EXCEPT !.id = "stale"]
       \/ jar' = [jar EXCEPT !.id = "none"]
    /\ UNCHANGED <<flights, tokens, out, raced, hurt, crossed, reused, trips>>

SignNext ==
    \/ \E f \in Flights :
         \/ Start(f) \/ Request(f) \/ Logout(f)
         \/ \E s \in 1..MaxTrips : s <= trips /\ Callback(f, s)
         \/ CallbackRefused(f) \/ CallbackExchanged(f)
         \/ ProxyPasses(f) \/ ProxyReuses(f) \/ ProxyRefreshes(f)
         \/ revokeRefreshToken(f)
         \/ Arrive(f) \/ Lose(f)
    \/ IdExpires

SignSpec == SignInit /\ [][SignNext]_signVars

-----------------------------------------------------------------------------
(* Once a browser has signed out, with nothing else of it in flight, no    *)
(* request of it is taken for signed in until it signs in again: nothing   *)
(* it still holds brings a session back.                                   *)
SignedOutStays == out /\ ~raced => ~verifySession(jar.id)

(* A session outlives its id token.  While no request that has to refresh   *)
(* is sent during another's refresh, no spent refresh token is presented,   *)
(* so the authority has no reason to revoke a grant; and as long as it has  *)
(* revoked none, the refresh token the browser holds, or one on its way to  *)
(* it, is good, however requests overlap.  An answer that was lost and a    *)
(* sign-out are left out.                                                   *)
SessionKept ==
    ~hurt =>
        /\ reused => crossed
        /\ jar.refresh # 0 /\ ~reused =>
             \/ jar.refresh \in live
             \/ \E f \in Flights : flights[f].pc = "answer" /\ "refresh" \in DOMAIN flights[f].set
                                  /\ flights[f].set.refresh \in live

(* A sign-out is final, and a refresh of its own signs nobody out.         *)
SessionSound == SignedOutStays /\ SessionKept

=============================================================================

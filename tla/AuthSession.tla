----------------------------- MODULE AuthSession -----------------------------
(***************************************************************************)
(* The token life cycle of src/src/auth: login, refresh and logout served  *)
(* by concurrent requests over the Redis token store, with JWTs that carry *)
(* whole-second timestamps.                                                *)
(*                                                                         *)
(* A request is a coroutine: other requests run at each of its awaits, so  *)
(* an endpoint that talks to Redis twice is two actions here.  Login and   *)
(* refresh first mint their token pair and then SETEX the refresh token;   *)
(* logout first DELetes the refresh token and then SETEXes the blacklist   *)
(* entry.  A request may die between two Redis calls (Abort).  A request   *)
(* that is refused (401, 400) changes nothing and is no step.              *)
(*                                                                         *)
(* A JWT has no random part.  Two tokens of one user and one type that are *)
(* minted in the same second are the same string, so a token is its        *)
(* subject and its iat.  The access and the refresh token of a pair are    *)
(* minted together and share that record; which of the two is meant is     *)
(* said by the operation that receives it.                                 *)
(***************************************************************************)
EXTENDS Naturals

CONSTANTS
    Users,          \* accounts
    Requests,       \* HTTP requests that can be in progress at once
    AccessTTL,      \* jwt_access_token_expire_minutes, in clock units
    RefreshTTL,     \* jwt_refresh_token_expire_days and the SETEX ttl
    BlacklistTTL,   \* ttl_seconds=3600 of AuthService.logout
    MaxTime,        \* BOUND: the clock stops here
    NoToken         \* what an idle request works on

Seconds == 0 .. MaxTime
Tokens  == [sub : Users, iat : Seconds]

ASSUME AuthAssumption ==
    /\ AccessTTL \in Nat \ {0}
    /\ RefreshTTL \in Nat \ {0}
    /\ BlacklistTTL \in Nat \ {0}
    /\ MaxTime \in Nat
    /\ NoToken \notin Tokens

VARIABLES
    clock,        \* the current second
    refreshKey,   \* Redis refresh:<user>: the stored token's iat, and the expiry second
    blacklist,    \* Redis blacklist:<sha256(token)>: the expiry second
    held,         \* token pairs that were handed to a client
    pc,           \* what each request does next
    tok,          \* the token a request has minted or was called with
    lastLogout,   \* history: the DELETE of each user's last logout, until the next login
    revoked       \* history: the blacklist entries ever written for a token

vars == <<clock, refreshKey, blacklist, held, pc, tok, lastLogout, revoked>>

\* A Redis key that does not exist has until = 0.
NoKey == [iat |-> 0, until |-> 0]
Exists(until) == until # 0

\* jose accepts a token up to and including the second of its exp claim.
Unexpired(t, ttl) == clock <= t.iat + ttl

\* get_current_token_payload: decode, then look the token up in the blacklist.
AccessAccepted(t) ==
    t \in held /\ Unexpired(t, AccessTTL) /\ ~Exists(blacklist[t])

\* Faulty: the presented token is trusted without the lookup.
RefreshAcceptedUnstored(t) == t \in held /\ Unexpired(t, RefreshTTL)

\* refresh: decode, then compare with the stored token.
RefreshAccepted(t) ==
    /\ t \in held
    /\ Unexpired(t, RefreshTTL)
    /\ Exists(refreshKey[t.sub].until) /\ refreshKey[t.sub].iat = t.iat

\* History: the user has not logged out since its last login.  A logout is
\* "quiet" when no refresh of its user had a minted token still to save, and
\* "racing" otherwise.
NoLogout == [at |-> 0, kind |-> "none"]
Refreshing(r, u) == pc[r] = "refresh_save" /\ tok[r].sub = u

Init ==
    /\ clock = 0
    /\ refreshKey = [u \in Users |-> NoKey]
    /\ blacklist = [t \in Tokens |-> 0]
    /\ held = {}
    /\ pc = [r \in Requests |-> "idle"]
    /\ tok = [r \in Requests |-> NoToken]
    /\ lastLogout = [u \in Users |-> NoLogout]
    /\ revoked = {}

----------------------------------------------------------------------------
(* One action per step of a request *)

Goto(r, label, t) ==
    /\ pc' = [pc EXCEPT ![r] = label]
    /\ tok' = [tok EXCEPT ![r] = t]

\* create_access_token and create_refresh_token at the current second.
Mint(u) == [sub |-> u, iat |-> clock]

\* POST /auth/login with u's password: the tokens are minted, SETEX is to come.
LoginMint(r, u) ==
    /\ pc[r] = "idle"
    /\ Goto(r, "login_save", Mint(u))
    /\ UNCHANGED <<clock, refreshKey, blacklist, held, lastLogout, revoked>>

\* POST /auth/refresh: decode, GET, compare, mint.
RefreshCheck(r, t) ==
    /\ pc[r] = "idle"
    /\ RefreshAccepted(t)
    /\ Goto(r, "refresh_save", Mint(t.sub))
    /\ UNCHANGED <<clock, refreshKey, blacklist, held, lastLogout, revoked>>

\* The SETEX that ends a login or a refresh, whatever the key holds by now.
SaveRefreshToken(r) ==
    /\ pc[r] \in {"login_save", "refresh_save"}
    /\ refreshKey' = [refreshKey EXCEPT ![tok[r].sub] =
                        [iat |-> tok[r].iat, until |-> clock + RefreshTTL]]
    /\ held' = held \union {tok[r]}
    /\ Goto(r, "idle", NoToken)
    /\ lastLogout' = IF pc[r] = "login_save"
                     THEN [lastLogout EXCEPT ![tok[r].sub] = NoLogout]
                     ELSE lastLogout
    /\ UNCHANGED <<clock, blacklist, revoked>>

\* POST /auth/logout with access token t.
LogoutAuthorise(r, t) ==
    /\ pc[r] = "idle"
    /\ AccessAccepted(t)
    /\ Goto(r, "logout_delete", t)
    /\ UNCHANGED <<clock, refreshKey, blacklist, held, lastLogout, revoked>>

\* Faulty: the raw token is lost before it can be blacklisted.
LogoutDeleteForgetsToken(r) ==
    /\ pc[r] = "logout_delete"
    /\ refreshKey' = [refreshKey EXCEPT ![tok[r].sub] = NoKey]
    /\ Goto(r, "logout_blacklist", NoToken)
    /\ UNCHANGED <<clock, blacklist, held, lastLogout, revoked>>

\* The DELETE of the refresh key.
LogoutDelete(r) ==
    LET u == tok[r].sub IN
    /\ pc[r] = "logout_delete"
    /\ refreshKey' = [refreshKey EXCEPT ![u] = NoKey]
    /\ lastLogout' = [lastLogout EXCEPT ![u] =
            [at |-> clock,
             kind |-> IF \E q \in Requests : Refreshing(q, u) THEN "racing" ELSE "quiet"]]
    /\ Goto(r, "logout_blacklist", tok[r])
    /\ UNCHANGED <<clock, blacklist, held, revoked>>

\* Faulty: the entry gets the token's remaining lifetime, one unit short.
LogoutBlacklistShort(r) ==
    /\ pc[r] = "logout_blacklist"
    /\ blacklist' = [blacklist EXCEPT ![tok[r]] = tok[r].iat + AccessTTL]
    /\ revoked' = revoked \union {[tok |-> tok[r], at |-> clock]}
    /\ Goto(r, "idle", NoToken)
    /\ UNCHANGED <<clock, refreshKey, held, lastLogout>>

\* The SETEX of the blacklist entry, then 204.
LogoutBlacklist(r) ==
    /\ pc[r] = "logout_blacklist"
    /\ blacklist' = [blacklist EXCEPT ![tok[r]] = clock + BlacklistTTL]
    /\ revoked' = revoked \union {[tok |-> tok[r], at |-> clock]}
    /\ Goto(r, "idle", NoToken)
    /\ UNCHANGED <<clock, refreshKey, held, lastLogout>>

\* The same for a header that spells the scheme differently ("bearer"), which
\* HTTPBearer accepts: removeprefix("Bearer ") strips nothing, the entry is that
\* of a string no client presents as a token, and the answer is 204 as well.
LogoutBlacklistHeader(r) ==
    /\ pc[r] = "logout_blacklist"
    /\ Goto(r, "idle", NoToken)
    /\ UNCHANGED <<clock, refreshKey, blacklist, held, lastLogout, revoked>>

\* Redis refuses the next call, or the worker dies: the rest does not happen.
Abort(r) ==
    /\ pc[r] # "idle"
    /\ Goto(r, "idle", NoToken)
    /\ UNCHANGED <<clock, refreshKey, blacklist, held, lastLogout, revoked>>

----------------------------------------------------------------------------
(* Time and Redis expiry.  A key set some way into second s lives until the
   same way into second s + ttl: during that second it may be seen or not,
   and the clock does not pass the second before the key is gone. *)

Expired(until) == Exists(until) /\ until <= clock

EvictRefresh(u) ==
    /\ Expired(refreshKey[u].until)
    /\ refreshKey' = [refreshKey EXCEPT ![u] = NoKey]
    /\ UNCHANGED <<clock, blacklist, held, pc, tok, lastLogout, revoked>>

EvictBlacklist(t) ==
    /\ Expired(blacklist[t])
    /\ blacklist' = [blacklist EXCEPT ![t] = 0]
    /\ UNCHANGED <<clock, refreshKey, held, pc, tok, lastLogout, revoked>>

Tick ==
    /\ clock < MaxTime
    /\ \A u \in Users : ~Expired(refreshKey[u].until)
    /\ \A t \in Tokens : ~Expired(blacklist[t])
    /\ clock' = clock + 1
    /\ UNCHANGED <<refreshKey, blacklist, held, pc, tok, lastLogout, revoked>>

Step(r) ==
    \/ \E u \in Users : LoginMint(r, u)
    \/ \E t \in Tokens : RefreshCheck(r, t)
    \/ SaveRefreshToken(r)
    \/ \E t \in Tokens : LogoutAuthorise(r, t)
    \/ LogoutDelete(r)
    \/ LogoutBlacklist(r)
    \/ LogoutBlacklistHeader(r)
    \/ Abort(r)

Next ==
    \/ \E r \in Requests : Step(r)
    \/ \E u \in Users : EvictRefresh(u)
    \/ \E t \in Tokens : EvictBlacklist(t)
    \/ Tick

Spec == Init /\ [][Next]_vars

----------------------------------------------------------------------------
(* Properties *)

Labels == {"idle", "login_save", "refresh_save", "logout_delete", "logout_blacklist"}

\* Every variable has its type; an idle request works on no token.
TypeOK ==
    /\ clock \in Seconds
    /\ refreshKey \in [Users -> [iat : Seconds, until : Nat]]
    /\ blacklist \in [Tokens -> Nat]
    /\ held \in SUBSET Tokens
    /\ pc \in [Requests -> Labels]
    /\ tok \in [Requests -> Tokens \union {NoToken}]
    /\ \A r \in Requests : pc[r] # "idle" => tok[r] \in Tokens
    /\ lastLogout \in [Users -> [at : Seconds, kind : {"none", "quiet", "racing"}]]
    /\ revoked \in SUBSET [tok : Tokens, at : Seconds]

\* A logout that meets no half-done refresh of its user ends every session of
\* that user for refreshing: until the next login completes no refresh token is
\* stored, whichever tokens clients replay, and nobody holds a pair minted
\* after the logout.  (AuthService.logout and refresh do not exclude each
\* other; this is what remains true of them.)
QuietLogoutEndsSession ==
    \A u \in Users : lastLogout[u].kind = "quiet" =>
        /\ ~Exists(refreshKey[u].until)
        /\ \A t \in held : t.sub = u => t.iat <= lastLogout[u].at

\* A logout whose blacklist entry outlasts the access token it revokes shuts
\* that token out for good, across replays, further logouts and evictions.
\* With the default lifetimes (both one hour) these are the logouts made in a
\* later second than the token's iat.
LogoutOutlastingTokenRevokes ==
    \A v \in revoked :
        v.at + BlacklistTTL > v.tok.iat + AccessTTL => ~AccessAccepted(v.tok)

\* As documented, logout discards the refresh token: once a logout of u has
\* finished, and until a login of u completes, no refresh token is stored.
LogoutDiscardsRefreshToken ==
    \A u \in Users :
        (/\ lastLogout[u] # NoLogout
         /\ \A r \in Requests : pc[r] = "logout_blacklist" => tok[r].sub # u)
        => ~Exists(refreshKey[u].until)
=============================================================================

--------------------------- MODULE AuthSessionProofs ---------------------------
(***************************************************************************)
(* What AuthSession promises for every number of users and requests, every *)
(* lifetime and every length of time.                                      *)
(***************************************************************************)
EXTENDS AuthSession, TLAPS

\* AuthSession has its types: the code's Redis keys and request states never
\* hold anything else, whatever the interleaving.
THEOREM AuthTypeCorrect == Spec => []TypeOK
<1>1. Init => TypeOK
  BY AuthAssumption DEF Init, TypeOK, Labels, Seconds, NoKey, NoLogout
<1>2. TypeOK /\ [Next]_vars => TypeOK'
  <2> SUFFICES ASSUME TypeOK, [Next]_vars PROVE TypeOK'
    OBVIOUS
  <2> USE AuthAssumption DEF TypeOK, Labels, Goto
  <2>1. ASSUME NEW r \in Requests, NEW u \in Users, LoginMint(r, u) PROVE TypeOK'
    <3>1. Mint(u) \in Tokens
      BY DEF Mint, Tokens
    <3>2. QED BY <2>1, <3>1 DEF LoginMint
  <2>2. ASSUME NEW r \in Requests, NEW t \in Tokens, RefreshCheck(r, t) PROVE TypeOK'
    <3>1. Mint(t.sub) \in Tokens
      BY DEF Mint, Tokens
    <3>2. QED BY <2>2, <3>1 DEF RefreshCheck
  <2>3. ASSUME NEW r \in Requests, SaveRefreshToken(r) PROVE TypeOK'
    <3>1. tok[r] \in Tokens /\ tok[r].sub \in Users /\ tok[r].iat \in Seconds
      BY <2>3 DEF SaveRefreshToken, Tokens
    <3>2. clock + RefreshTTL \in Nat
      BY DEF Seconds
    <3>3. NoLogout \in [at : Seconds, kind : {"none", "quiet", "racing"}]
      BY DEF NoLogout, Seconds
    <3>4. refreshKey' \in [Users -> [iat : Seconds, until : Nat]]
      BY <2>3, <3>1, <3>2 DEF SaveRefreshToken
    <3>5. lastLogout' \in [Users -> [at : Seconds, kind : {"none", "quiet", "racing"}]]
      BY <2>3, <3>1, <3>3 DEF SaveRefreshToken
    <3>6. QED BY <2>3, <3>1, <3>4, <3>5 DEF SaveRefreshToken
  <2>4. ASSUME NEW r \in Requests, NEW t \in Tokens, LogoutAuthorise(r, t) PROVE TypeOK'
    BY <2>4 DEF LogoutAuthorise
  <2>5. ASSUME NEW r \in Requests, LogoutDelete(r) PROVE TypeOK'
    <3>1. tok[r] \in Tokens /\ tok[r].sub \in Users
      BY <2>5 DEF LogoutDelete, Tokens
    <3>2. refreshKey' \in [Users -> [iat : Seconds, until : Nat]]
      BY <2>5, <3>1 DEF LogoutDelete, NoKey, Seconds
    <3>3. lastLogout' \in [Users -> [at : Seconds, kind : {"none", "quiet", "racing"}]]
      BY <2>5, <3>1 DEF LogoutDelete
    <3>4. QED BY <2>5, <3>1, <3>2, <3>3 DEF LogoutDelete
  <2>6. ASSUME NEW r \in Requests, LogoutBlacklist(r) PROVE TypeOK'
    <3>1. tok[r] \in Tokens
      BY <2>6 DEF LogoutBlacklist
    <3>2. clock + BlacklistTTL \in Nat
      BY DEF Seconds
    <3>3. QED BY <2>6, <3>1, <3>2 DEF LogoutBlacklist
  <2>7. ASSUME NEW r \in Requests, LogoutBlacklistHeader(r) \/ Abort(r) PROVE TypeOK'
    <3>1. pc[r] # "idle" /\ Goto(r, "idle", NoToken)
      BY <2>7 DEF LogoutBlacklistHeader, Abort
    <3>2. UNCHANGED <<clock, refreshKey, blacklist, held, lastLogout, revoked>>
      BY <2>7 DEF LogoutBlacklistHeader, Abort
    <3>3. QED BY <3>1, <3>2
  <2>8. ASSUME NEW u \in Users, EvictRefresh(u) PROVE TypeOK'
    BY <2>8 DEF EvictRefresh, NoKey, Seconds
  <2>9. ASSUME NEW t \in Tokens, EvictBlacklist(t) PROVE TypeOK'
    BY <2>9 DEF EvictBlacklist
  <2>10. ASSUME Tick PROVE TypeOK'
    BY <2>10 DEF Tick, Seconds
  <2>11. CASE UNCHANGED vars
    BY <2>11 DEF vars
  <2>12. QED
    BY <2>1, <2>2, <2>3, <2>4, <2>5, <2>6, <2>7, <2>8, <2>9, <2>10, <2>11
    DEF Next, Step
<1>3. QED
  BY <1>1, <1>2, PTL DEF Spec

----------------------------------------------------------------------------
(* Logout and refresh *)

\* Nothing carries a timestamp from the future.
MintedInPast ==
    /\ \A t \in held : t.iat <= clock
    /\ \A r \in Requests : pc[r] # "idle" => tok[r].iat <= clock

\* QuietLogoutEndsSession is not inductive: it also takes that no refresh of
\* the user is half done after a quiet logout, and that no token is minted in
\* the future.
SessionInv ==
    /\ MintedInPast
    /\ QuietLogoutEndsSession
    /\ \A u \in Users : lastLogout[u].kind = "quiet" =>
           \A r \in Requests : ~Refreshing(r, u)

\* After a logout that races with no refresh, no refresh token of the user is
\* stored and no newer token is held until the user's next login completes
\* (AuthService.logout, refresh and login over RedisTokenStore).
THEOREM QuietLogoutHolds == Spec => []QuietLogoutEndsSession
<1>1. Init => SessionInv
  BY DEF Init, SessionInv, MintedInPast, QuietLogoutEndsSession, NoLogout
<1>2. TypeOK /\ SessionInv /\ [Next]_vars => SessionInv'
  <2> SUFFICES ASSUME TypeOK, SessionInv, [Next]_vars PROVE SessionInv'
    OBVIOUS
  <2>0. clock \in Nat /\ \A t \in Tokens : t.sub \in Users /\ t.iat \in Nat
    BY AuthAssumption DEF TypeOK, Seconds, Tokens
  <2> USE <2>0, AuthAssumption
      DEF TypeOK, SessionInv, MintedInPast, QuietLogoutEndsSession, Refreshing, Goto
  <2>1. ASSUME NEW r \in Requests, NEW u \in Users, LoginMint(r, u) PROVE SessionInv'
    BY <2>1 DEF LoginMint, Mint
  <2>2. ASSUME NEW r \in Requests, NEW t \in Tokens, RefreshCheck(r, t) PROVE SessionInv'
    <3>1. lastLogout[t.sub].kind # "quiet"
      BY <2>2 DEF RefreshCheck, RefreshAccepted
    <3>2. QED BY <2>2, <3>1 DEF RefreshCheck, Mint
  <2>3. ASSUME NEW r \in Requests, SaveRefreshToken(r) PROVE SessionInv'
    <3>1. tok[r] \in Tokens /\ tok[r].sub \in Users /\ tok[r].iat <= clock
      BY <2>3 DEF SaveRefreshToken
    <3>2. lastLogout'[tok[r].sub].kind # "quiet"
      BY <2>3, <3>1 DEF SaveRefreshToken, NoLogout
    <3>3. MintedInPast'
      BY <2>3, <3>1 DEF SaveRefreshToken
    <3>4. ASSUME NEW u \in Users, lastLogout'[u].kind = "quiet"
          PROVE /\ u # tok[r].sub
                /\ lastLogout'[u] = lastLogout[u]
                /\ refreshKey'[u] = refreshKey[u]
      BY <2>3, <3>1, <3>2, <3>4 DEF SaveRefreshToken
    <3>5. ASSUME NEW u \in Users, lastLogout'[u].kind = "quiet"
          PROVE /\ ~Exists(refreshKey'[u].until)
                /\ \A t \in held' : t.sub = u => t.iat <= lastLogout'[u].at
                /\ \A q \in Requests : ~(pc'[q] = "refresh_save" /\ tok'[q].sub = u)
      BY <2>3, <3>4, <3>5 DEF SaveRefreshToken
    <3>6. QED BY <3>3, <3>5
  <2>4. ASSUME NEW r \in Requests, NEW t \in Tokens, LogoutAuthorise(r, t) PROVE SessionInv'
    BY <2>4 DEF LogoutAuthorise, AccessAccepted
  <2>5. ASSUME NEW r \in Requests, LogoutDelete(r) PROVE SessionInv'
    <3> DEFINE w == tok[r].sub
    <3>1. tok[r] \in Tokens /\ w \in Users /\ tok[r].iat <= clock
      BY <2>5 DEF LogoutDelete
    <3>2. MintedInPast'
      BY <2>5, <3>1 DEF LogoutDelete
    <3>3. ASSUME NEW u \in Users, u # w
          PROVE lastLogout'[u] = lastLogout[u] /\ refreshKey'[u] = refreshKey[u]
      BY <2>5, <3>1, <3>3 DEF LogoutDelete
    <3>4. /\ ~Exists(refreshKey'[w].until)
          /\ lastLogout'[w].at = clock
          /\ lastLogout'[w].kind = "quiet" => \A q \in Requests : ~Refreshing(q, w)
      BY <2>5, <3>1 DEF LogoutDelete, NoKey, Exists
    <3>5. \A q \in Requests, u \in Users :
             (pc'[q] = "refresh_save" /\ tok'[q].sub = u) => Refreshing(q, u)
      BY <2>5 DEF LogoutDelete
    <3>6. held' = held
      BY <2>5 DEF LogoutDelete
    <3>7. QED BY <3>1, <3>2, <3>3, <3>4, <3>5, <3>6
  <2>6. ASSUME NEW r \in Requests, LogoutBlacklist(r) PROVE SessionInv'
    BY <2>6 DEF LogoutBlacklist
  <2>7. ASSUME NEW r \in Requests, LogoutBlacklistHeader(r) \/ Abort(r) PROVE SessionInv'
    <3>1. pc[r] # "idle" /\ Goto(r, "idle", NoToken)
      BY <2>7 DEF LogoutBlacklistHeader, Abort
    <3>2. UNCHANGED <<clock, refreshKey, blacklist, held, lastLogout, revoked>>
      BY <2>7 DEF LogoutBlacklistHeader, Abort
    <3>3. QED BY <3>1, <3>2
  <2>8. ASSUME NEW u \in Users, EvictRefresh(u) PROVE SessionInv'
    BY <2>8 DEF EvictRefresh, NoKey, Exists
  <2>9. ASSUME NEW t \in Tokens, EvictBlacklist(t) PROVE SessionInv'
    BY <2>9 DEF EvictBlacklist
  <2>10. ASSUME Tick PROVE SessionInv'
    <3>1. clock' = clock + 1 /\ clock <= clock'
      BY <2>10 DEF Tick
    <3>2. \A t \in held : t.iat <= clock'
      BY <3>1
    <3>3. \A r \in Requests : pc[r] # "idle" => tok[r].iat <= clock'
      BY <3>1
    <3>4. QED BY <2>10, <3>2, <3>3 DEF Tick
  <2>11. CASE UNCHANGED vars
    BY <2>11 DEF vars
  <2>12. QED
    BY <2>1, <2>2, <2>3, <2>4, <2>5, <2>6, <2>7, <2>8, <2>9, <2>10, <2>11
    DEF Next, Step
<1>3. SessionInv => QuietLogoutEndsSession
  BY DEF SessionInv
<1>4. QED
  BY <1>1, <1>2, <1>3, AuthTypeCorrect, PTL DEF Spec

----------------------------------------------------------------------------
(* Logout and the access token *)

\* While an entry of the blacklist has to stand it does stand, and with an
\* expiry that is not earlier: a later logout only moves it out.
RevokedInv ==
    \A v \in revoked :
        /\ v.at <= clock
        /\ \/ blacklist[v.tok] >= v.at + BlacklistTTL
           \/ clock >= v.at + BlacklistTTL

\* A logout whose blacklist entry outlasts the token shuts the token out for
\* good (AuthService.logout, get_current_token_payload, Redis expiry).
THEOREM LateLogoutRevokes == Spec => []LogoutOutlastingTokenRevokes
<1>1. Init => RevokedInv
  BY DEF Init, RevokedInv
<1>2. TypeOK /\ RevokedInv /\ [Next]_vars => RevokedInv'
  <2> SUFFICES ASSUME TypeOK, RevokedInv, [Next]_vars PROVE RevokedInv'
    OBVIOUS
  <2>0. /\ clock \in Nat
        /\ BlacklistTTL \in Nat
        /\ \A v \in revoked : v.tok \in Tokens /\ v.at \in Nat /\ blacklist[v.tok] \in Nat
    BY AuthAssumption DEF TypeOK, Seconds
  <2>1. ASSUME NEW r \in Requests, LogoutBlacklist(r) PROVE RevokedInv'
    <3>1. tok[r] \in Tokens
      BY <2>1 DEF TypeOK, LogoutBlacklist
    <3>2. blacklist'[tok[r]] = clock + BlacklistTTL /\ clock' = clock
      BY <2>1, <3>1 DEF TypeOK, LogoutBlacklist
    <3>3. \A t \in Tokens : t # tok[r] => blacklist'[t] = blacklist[t]
      BY <2>1 DEF TypeOK, LogoutBlacklist
    <3>4. \A v \in revoked' : v \in revoked \/ v = [tok |-> tok[r], at |-> clock]
      BY <2>1 DEF LogoutBlacklist
    <3>5. QED BY <2>0, <3>2, <3>3, <3>4 DEF RevokedInv
  <2>2. ASSUME NEW t \in Tokens, EvictBlacklist(t) PROVE RevokedInv'
    <3>1. \A s \in Tokens : s # t => blacklist'[s] = blacklist[s]
      BY <2>2 DEF TypeOK, EvictBlacklist
    <3>2. blacklist[t] <= clock /\ blacklist[t] \in Nat
      BY <2>2 DEF TypeOK, EvictBlacklist, Expired
    <3>3. \A v \in revoked : v.tok = t => clock >= v.at + BlacklistTTL
      BY <2>0, <3>2 DEF RevokedInv
    <3>4. QED BY <2>0, <2>2, <3>1, <3>3 DEF RevokedInv, EvictBlacklist
  <2>3. ASSUME Tick PROVE RevokedInv'
    BY <2>0, <2>3 DEF RevokedInv, Tick
  <2>4. CASE UNCHANGED <<clock, blacklist, revoked>>
    BY <2>4 DEF RevokedInv
  <2>5. QED
    BY <2>1, <2>2, <2>3, <2>4
    DEF Next, Step, vars, LoginMint, RefreshCheck, SaveRefreshToken,
        LogoutAuthorise, LogoutDelete, LogoutBlacklistHeader, Abort, EvictRefresh
<1>3. TypeOK /\ RevokedInv => LogoutOutlastingTokenRevokes
  <2> SUFFICES ASSUME TypeOK, RevokedInv, NEW v \in revoked,
                      v.at + BlacklistTTL > v.tok.iat + AccessTTL,
                      AccessAccepted(v.tok)
               PROVE FALSE
    BY DEF LogoutOutlastingTokenRevokes
  <2>1. /\ v.at \in Nat /\ v.tok.iat \in Nat /\ clock \in Nat
        /\ AccessTTL \in Nat /\ BlacklistTTL \in Nat \ {0}
    BY AuthAssumption DEF TypeOK, Seconds, Tokens
  <2>2. blacklist[v.tok] = 0 /\ clock <= v.tok.iat + AccessTTL
    BY DEF AccessAccepted, Exists, Unexpired
  <2>3. QED BY <2>1, <2>2 DEF RevokedInv
<1>4. QED
  BY <1>1, <1>2, <1>3, AuthTypeCorrect, PTL DEF Spec
=============================================================================

----------------------------- MODULE GithubAuth -----------------------------
(***************************************************************************)
(* The installation token every request of the GitHub client carries       *)
(* (auth.go).  Auth caches a token for an hour from when it asked for it,  *)
(* but asks the library's transport, which has a cache of its own and may  *)
(* hand out the token it handed out before.  The clock ticks in units of   *)
(* five minutes; each expiry is kept as the time that is left.             *)
(***************************************************************************)
EXTENDS Integers

CONSTANTS TokenLife,    \* an hour
          AuthEarly,    \* Auth refreshes this long before it believes it must
          LibraryEarly  \* and the library this long before the token expires

ASSUME AuthAssumption ==
  /\ TokenLife \in Nat /\ AuthEarly \in Nat /\ LibraryEarly \in Nat
  /\ AuthEarly < TokenLife /\ LibraryEarly < TokenLife

VARIABLES
  libraryLeft,  \* what is left of the token in the library's cache
  cachedLeft,   \* what is really left of Auth.cachedToken, 0 for a dead one
  believedLeft, \* what is left until Auth.tokenExpiry, -1 before the first token
  asked         \* the loops have asked for a token since the clock ticked

authVars == <<libraryLeft, cachedLeft, believedLeft, asked>>

AuthInit == libraryLeft = 0 /\ cachedLeft = 0 /\ believedLeft = -1 /\ asked = FALSE

\* Does Token hand out what it has?  Mutated form: whatever it has, without a
\* look at the expiry.
KeptForEver == believedLeft >= 0
Cached == believedLeft > AuthEarly

\* The library's Token: its own cache, or a new token from GitHub.
LibraryToken == IF libraryLeft > LibraryEarly THEN libraryLeft ELSE TokenLife

\* Token, from the cache.
UseToken ==
  /\ Cached
  /\ asked' = TRUE
  /\ UNCHANGED <<libraryLeft, cachedLeft, believedLeft>>

\* Token, refreshed; its expiry is taken to be an hour from now.
RefreshToken ==
  /\ ~Cached
  /\ libraryLeft' = LibraryToken /\ cachedLeft' = LibraryToken
  /\ believedLeft' = TokenLife
  /\ asked' = TRUE

\* The refresh fails, and the request with it.
RefreshFails ==
  /\ ~Cached
  /\ asked' = TRUE
  /\ UNCHANGED <<libraryLeft, cachedLeft, believedLeft>>

Less1(n) == IF n > 0 THEN n - 1 ELSE n

AuthTick ==
  /\ asked /\ asked' = FALSE
  /\ libraryLeft' = Less1(libraryLeft) /\ cachedLeft' = Less1(cachedLeft)
  /\ believedLeft' = Less1(believedLeft)

AuthNext == UseToken \/ RefreshToken \/ RefreshFails \/ AuthTick

\* Requests are made all the time, time passes, and GitHub answers a refresh
\* now and then.
AuthFairness ==
  WF_authVars(UseToken) /\ SF_authVars(RefreshToken) /\ WF_authVars(AuthTick)

-----------------------------------------------------------------------------
AuthTypeOK ==
  /\ libraryLeft \in 0..TokenLife /\ cachedLeft \in 0..TokenLife
  /\ believedLeft \in -1..TokenLife /\ asked \in BOOLEAN

\* A token that has expired is replaced: Auth may take the library's old token
\* for a new one and send it for most of its believed hour after it has died,
\* but the refresh after that one cannot get the same token again.
DeadTokenReplaced == []<>(cachedLeft > 0)
=============================================================================

----------------------------- MODULE SlackAccess -----------------------------
(***************************************************************************)
(* Who may call the Slack twin: the OAuth v2 installation flow, the tokens  *)
(* it stores, and what every Web API method checks before it answers: the   *)
(* token, the scopes of the method, its rate window and its configured      *)
(* error, in the order of that method.                                      *)
(*                                                                          *)
(* The codes live in the closure of the OAuth plugin, the rate windows in   *)
(* the limiter, tokens, users and error configs in the database. POST       *)
(* /admin/reset resets the second and, over ':memory:', the third; a        *)
(* restart loses the first two and, over ':memory:', the third.             *)
(* No handler awaits between its first read and its last write.             *)
(***************************************************************************)
EXTENDS Integers

CONSTANTS
  Codes,      \* authorization codes (randomUUID never repeats)
  Grants,     \* codes and refresh tokens presented to openid.connect.token
  Seeded,     \* tokens created with POST /admin/tokens
  Clients,    \* client ids
  Registered, \* the client ids of OAUTH_CLIENT_SECRETS
  Uris,       \* redirect URIs
  Requests,   \* what applications ask for: records of client, redirect, scope
  None,       \* an absent parameter
  Methods,
  ScopesOf,   \* METHOD_SCOPES
  Limited,    \* the methods with a rate tier
  Limit,      \* requestsPerMinute of a limited method
  Stubs,      \* the methods that check the token and the scopes only
  LookFirst,  \* the methods that learn their scopes from the channel looked up
  Callers,    \* the tokens that call methods
  Window,     \* the length of a rate window
  Persistent, \* DB_PATH names a file (TRUE) or is ':memory:' (FALSE)
  MaxTime,    \* bound on the clock
  MaxFaults   \* bound on resets and restarts

AllScopes == (UNION {ScopesOf[m] : m \in Methods}) \cup (UNION {r.scope : r \in Requests}) \cup {"openid"}
Tokens == ({"bot", "user"} \X Codes) \cup ({"oidc"} \X Grants) \cup ({"seeded"} \X Seeded)

ASSUME ClientAssumption == Registered \subseteq Clients /\ None \notin Clients \cup Uris \cup Tokens
ASSUME RequestAssumption ==
  \A r \in Requests : r.client \in Clients \cup {None} /\ r.redirect \in Uris
ASSUME MethodAssumption ==
  /\ Limited \subseteq Methods /\ Limit \in [Limited -> Nat \ {0}]
  /\ Stubs \subseteq Methods /\ LookFirst \subseteq Methods
  /\ Callers \subseteq Tokens
ASSUME TimeAssumption == Window \in Nat \ {0} /\ MaxTime \in Nat /\ MaxFaults \in Nat
ASSUME ModeAssumption == Persistent \in BOOLEAN

Keys == Limited \X Callers
NoWindow == [count |-> 0, resetAt |-> 0]
NoCalls == [age \in 0 .. Window - 1 |-> 0]

VARIABLES
  issuedCodes, \* the codes that await their exchange
  tokens,      \* slack_tokens: the scopes of each stored token
  authedUser,  \* whether slack_users has a row U_AUTHED
  windows,     \* SlackRateLimiter.windows; NoWindow where there is no entry
  errors,      \* the methods with a row in slack_error_configs
  now,
  asked,       \* history: the request a code was issued for
  granted,     \* history: how often a code was exchanged
  served,      \* history: the methods a token of this code was served
  passed,      \* history: the calls let pass within so many ticks of now
  faults

codeVars   == <<issuedCodes, asked>>
limitVars  == <<windows, passed>>
vars == <<codeVars, tokens, authedUser, limitVars, errors, now, granted, served, faults>>

Init ==
  /\ issuedCodes = {}
  /\ tokens      = [t \in {} |-> {}]
  /\ authedUser  = FALSE
  /\ windows     = [k \in Keys |-> NoWindow]
  /\ errors      = {}
  /\ now         = 0
  /\ asked       = [c \in {} |-> {}]
  /\ granted     = [c \in Codes |-> 0]
  /\ served      = [c \in Codes |-> {}]
  /\ passed      = [k \in Keys |-> NoCalls]
  /\ faults      = 0

-----------------------------------------------------------------------------
(* GET /oauth/v2/authorize and POST /api/oauth.v2.access                    *)

\* With a redirect URI and a scope the app gets a code bound to its request.
Authorize(c, r) ==
  /\ c \notin DOMAIN asked
  /\ issuedCodes' = issuedCodes \cup {c}
  /\ asked' = [d \in DOMAIN asked \cup {c} |-> IF d = c THEN r ELSE asked[d]]
  /\ UNCHANGED <<tokens, authedUser, limitVars, errors, now, granted, served, faults>>

\* The secret is compared only for a client that has one.
SecretAccepted(client, right) == client \in Registered => right

ExchangeableTwice(c, client, uri, right) ==
  /\ c \in DOMAIN asked /\ client = asked[c].client
  /\ uri \in {None, asked[c].redirect}
  /\ SecretAccepted(client, right)

Exchangeable(c, client, uri, right) ==
  /\ c \in issuedCodes
  /\ client = asked[c].client
  /\ uri \in {None, asked[c].redirect}
  /\ SecretAccepted(client, right)

\* slack_tokens after an INSERT: unchanged when the primary key is taken.
WithToken(rows, t, scope) ==
  [u \in DOMAIN rows \cup {t} |-> IF u \in DOMAIN rows THEN rows[u] ELSE scope]

HardcodedScope(c) == AllScopes

\* The scopes of the new tokens are those of the authorization.
GrantedScope(c) == asked[c].scope

\* A code is deleted after every check has passed, and only then.
CodesAfter(c, passes) == IF passes THEN issuedCodes \ {c} ELSE issuedCodes

\* POST /api/oauth.v2.access: both tokens are stored, or nothing happens.
Access(c, client, uri, right) ==
  LET passes == Exchangeable(c, client, uri, right) IN
  /\ issuedCodes' = CodesAfter(c, passes)
  /\ authedUser'  = (authedUser \/ passes)
  /\ tokens' = IF passes
               THEN WithToken(WithToken(tokens, <<"bot", c>>, GrantedScope(c)), <<"user", c>>, GrantedScope(c))
               ELSE tokens
  /\ granted' = [granted EXCEPT ![c] = IF passes THEN @ + 1 ELSE @]
  /\ UNCHANGED <<asked, limitVars, errors, now, served, faults>>

OidcNoUser(g) ==
  /\ tokens' = WithToken(tokens, <<"oidc", g>>, {"openid"})
  /\ UNCHANGED <<codeVars, authedUser, limitVars, errors, now, granted, served, faults>>

\* POST /api/openid.connect.token, with credentials of a registered client,
\* makes sure of U_AUTHED and names the token after what was presented: the
\* INSERT of a second call with the same value fails.
Oidc(g) ==
  /\ authedUser' = TRUE
  /\ tokens' = WithToken(tokens, <<"oidc", g>>, {"openid"})
  /\ UNCHANGED <<codeVars, limitVars, errors, now, granted, served, faults>>

\* POST /admin/tokens stores a token as given; tests give it every scope.
SeedToken(s) ==
  /\ tokens' = WithToken(tokens, <<"seeded", s>>, AllScopes)
  /\ UNCHANGED <<codeVars, authedUser, limitVars, errors, now, granted, served, faults>>

-----------------------------------------------------------------------------
(* What a Web API method does before it answers                              *)

\* getToken and checkScope, or checkResolvedScopes once the channel is known.
Known(t) == t \in DOMAIN tokens
InScope(m, t) == ScopesOf[m] \subseteq tokens[t]

ExpiredEarly(w) == now + 1 >= w.resetAt

\* SlackRateLimiter.check: a fixed window that starts with its first call.
Expired(w) == now >= w.resetAt

Allowed(m, t) ==
  m \in Limited => Expired(windows[<<m, t>>]) \/ windows[<<m, t>>].count < Limit[m]

Counted(w) ==
  IF Expired(w) THEN [count |-> 1, resetAt |-> now + Window] ELSE [w EXCEPT !.count = @ + 1]

Pass(m, t) ==
  IF m \in Limited
  THEN /\ windows' = [windows EXCEPT ![<<m, t>>] = Counted(@)]
       /\ passed'  = [passed EXCEPT ![<<m, t>>] = [age \in 0 .. Window - 1 |-> @[age] + 1]]
  ELSE UNCHANGED limitVars

LetPass(m, t) == IF Allowed(m, t) THEN Pass(m, t) ELSE UNCHANGED limitVars

Serve(m, t) ==
  IF t[1] \in {"bot", "user"} THEN [served EXCEPT ![t[2]] = @ \cup {m}] ELSE served

callFrame == <<codeVars, tokens, authedUser, errors, now, granted, faults>>

\* The stubs look at the token and at the scopes.
CallStub(m, t) ==
  /\ Known(t)
  /\ served' = IF InScope(m, t) THEN Serve(m, t) ELSE served
  /\ UNCHANGED <<limitVars, callFrame>>

\* checkAuth: the token, the scopes, the limiter, the configured error.
CallChecked(m, t) ==
  /\ Known(t)
  /\ IF InScope(m, t) THEN LetPass(m, t) ELSE UNCHANGED limitVars
  /\ served' = IF InScope(m, t) /\ Allowed(m, t) /\ m \notin errors THEN Serve(m, t) ELSE served
  /\ UNCHANGED callFrame

\* conversations.info and .history: the scopes depend on the class of the
\* channel, so that the limiter has counted a call that lacks them.
CallLookFirst(m, t) ==
  /\ Known(t)
  /\ LetPass(m, t)
  /\ served' = IF Allowed(m, t) /\ m \notin errors /\ InScope(m, t) THEN Serve(m, t) ELSE served
  /\ UNCHANGED callFrame

\* POST /admin/errors/configure and /admin/errors/clear; no stub reads its row.
ConfigureError(m) ==
  /\ errors' = errors \cup {m}
  /\ UNCHANGED <<codeVars, tokens, authedUser, limitVars, now, granted, served, faults>>

ClearErrors ==
  /\ errors # {} /\ errors' = {}
  /\ UNCHANGED <<codeVars, tokens, authedUser, limitVars, now, granted, served, faults>>

-----------------------------------------------------------------------------
(* Time, reset and restart                                                  *)

Tick ==
  /\ now < MaxTime /\ now' = now + 1
  /\ passed' = [k \in Keys |-> [age \in 0 .. Window - 1 |-> IF age = 0 THEN 0 ELSE passed[k][age - 1]]]
  /\ UNCHANGED <<codeVars, tokens, authedUser, windows, errors, granted, served, faults>>

\* The tables: gone over ':memory:', kept in a file.
Reopened ==
  /\ tokens' = [t \in IF Persistent THEN DOMAIN tokens ELSE {} |-> tokens[t]]
  /\ authedUser' = (Persistent /\ authedUser)
  /\ errors' = IF Persistent THEN errors ELSE {}

ForgetWindows ==
  /\ windows' = [k \in Keys |-> NoWindow]
  /\ passed'  = [k \in Keys |-> NoCalls]

Fault == faults < MaxFaults /\ faults' = faults + 1

\* POST /admin/reset: the codes of the OAuth plugin are left as they are.
Reset ==
  /\ Fault /\ Reopened /\ ForgetWindows
  /\ UNCHANGED <<codeVars, now, granted, served>>

\* The process ends and buildApp starts it anew.
Restart ==
  /\ Fault /\ Reopened /\ ForgetWindows
  /\ issuedCodes' = {}
  /\ UNCHANGED <<asked, now, granted, served>>

-----------------------------------------------------------------------------
Next ==
  \/ \E c \in Codes, r \in Requests : Authorize(c, r)
  \/ \E c \in Codes, client \in Clients, uri \in Uris \cup {None}, right \in BOOLEAN :
        Access(c, client, uri, right)
  \/ \E g \in Grants : Oidc(g)
  \/ \E s \in Seeded : SeedToken(s)
  \/ \E m \in Stubs, t \in Callers : CallStub(m, t)
  \/ \E m \in Methods \ (Stubs \cup LookFirst), t \in Callers : CallChecked(m, t)
  \/ \E m \in LookFirst, t \in Callers : CallLookFirst(m, t)
  \/ \E m \in Methods \ Stubs : ConfigureError(m)
  \/ ClearErrors
  \/ Tick
  \/ Reset
  \/ Restart

Spec == Init /\ [][Next]_vars

-----------------------------------------------------------------------------
(* Properties                                                               *)

\* Every variable has its type; a window never counts more than its limit.
TypeOK ==
  /\ issuedCodes \subseteq DOMAIN asked
  /\ DOMAIN asked \subseteq Codes /\ \A c \in DOMAIN asked : asked[c] \in Requests
  /\ DOMAIN tokens \subseteq Tokens /\ \A t \in DOMAIN tokens : tokens[t] \subseteq AllScopes
  /\ authedUser \in BOOLEAN
  /\ windows \in [Keys -> [count : Nat, resetAt : Nat]]
  /\ \A k \in Keys : windows[k].count <= Limit[k[1]]
  /\ errors \subseteq Methods
  /\ now \in 0 .. MaxTime
  /\ granted \in [Codes -> Nat]
  /\ served \in [Codes -> SUBSET Methods]
  /\ passed \in [Keys -> [0 .. Window - 1 -> Nat]]
  /\ faults \in 0 .. MaxFaults

\* Whatever clients, redirect URIs and secrets are tried on a code, in any
\* order with retries, resets and restarts, it is exchanged at most once, and
\* it stops being good only by an exchange or a restart: a failed attempt
\* leaves it to its owner (oauth.ts checks everything before its delete).
Phase(c) ==
  IF c \notin DOMAIN asked THEN "unissued"
  ELSE IF c \in issuedCodes THEN "open"
  ELSE IF granted[c] > 0 THEN "spent" ELSE "lost"

Promise == INSTANCE SingleUse WITH phase <- [c \in Codes |-> Phase(c)], grants <- granted
CodesAreSingleUse == Promise!Spec

OnlyAnExchangeSpends ==
  [][\A c \in issuedCodes : c \notin issuedCodes' => granted'[c] = granted[c] + 1 \/ faults' # faults]_vars

\* A token of a code was served only methods within the scopes that the code
\* was authorized for, by whichever of both tokens and in whatever order the
\* method made its checks (the scope of the binding goes into the tokens).
ServedWithinScope ==
  \A c \in Codes : \A m \in served[c] : ScopesOf[m] \subseteq asked[c].scope

\* A stored user token has its user: users are created before their tokens,
\* and a reset that drops the one drops the other.
TokensHaveUsers ==
  (\E t \in DOMAIN tokens : t[1] \in {"user", "oidc"}) => authedUser

\* Any stretch of a window's length sees fewer than twice the limit: the last
\* calls of one window and the first of the next can come close together, but
\* the call that opened the first window is a whole window away.
Recent(k) == passed[k][Window - 1]
BurstBounded ==
  \A k \in Keys : Recent(k) <= 2 * Limit[k[1]] - 1

=============================================================================

--------------------------- MODULE SlackAccessProofs --------------------------
(***************************************************************************)
(* SlackAccess for any codes, tokens, methods, limits and bounds.           *)
(***************************************************************************)
EXTENDS SlackAccess, TLAPS

\* The inductive invariant: the types, what is known of a code by where it
\* is, and where the scopes of the tokens of a code come from.
CodeTypes ==
  /\ issuedCodes \subseteq DOMAIN asked
  /\ DOMAIN asked \subseteq Codes
  /\ asked = [c \in DOMAIN asked |-> asked[c]]
  /\ \A c \in DOMAIN asked : asked[c] \in Requests
  /\ granted \in [Codes -> Nat]

UnspentCodes ==
  /\ \A c \in issuedCodes : granted[c] = 0
  /\ \A c \in Codes \ DOMAIN asked : granted[c] = 0

TokenScopes ==
  /\ tokens = [t \in DOMAIN tokens |-> tokens[t]]
  /\ \A t \in DOMAIN tokens :
       \/ /\ t \in {"bot", "user"} \X Codes
          /\ t[2] \in DOMAIN asked /\ tokens[t] = asked[t[2]].scope
       \/ t \in ({"oidc"} \X Grants) \cup ({"seeded"} \X Seeded)

ServedCodes ==
  /\ served \in [Codes -> SUBSET Methods]
  /\ \A c \in Codes : served[c] # {} => c \in DOMAIN asked
  /\ ServedWithinScope

IInv == CodeTypes /\ UnspentCodes /\ TokenScopes /\ ServedCodes

LEMMA InitIInv == Init => IInv
BY DEF Init, IInv, CodeTypes, UnspentCodes, TokenScopes, ServedCodes, ServedWithinScope

LEMMA AuthorizeIInv ==
  ASSUME IInv, NEW c \in Codes, NEW r \in Requests, Authorize(c, r)
  PROVE  IInv'
<1>1. CodeTypes' /\ UnspentCodes'
  BY DEF IInv, CodeTypes, UnspentCodes, Authorize
<1>2. TokenScopes'
  BY DEF IInv, CodeTypes, TokenScopes, Authorize
<1>3. ServedCodes'
  BY DEF IInv, CodeTypes, ServedCodes, ServedWithinScope, Authorize
<1> QED BY <1>1, <1>2, <1>3 DEF IInv

\* An INSERT adds a row at most, and changes none.
LEMMA InsertKeeps ==
  ASSUME NEW STATE rows, NEW t, NEW STATE scope
  PROVE  /\ WithToken(rows, t, scope) = [u \in DOMAIN WithToken(rows, t, scope) |-> WithToken(rows, t, scope)[u]]
         /\ DOMAIN WithToken(rows, t, scope) = DOMAIN rows \cup {t}
         /\ \A u \in DOMAIN rows : WithToken(rows, t, scope)[u] = rows[u]
         /\ t \notin DOMAIN rows => WithToken(rows, t, scope)[t] = scope
BY DEF WithToken

LEMMA AccessIInv ==
  ASSUME IInv, NEW c \in Codes, NEW client, NEW uri, NEW right, Access(c, client, uri, right)
  PROVE  IInv'
<1>1. CASE Exchangeable(c, client, uri, right)
  <2>1. c \in issuedCodes /\ c \in DOMAIN asked
    BY <1>1 DEF Exchangeable, IInv, CodeTypes
  <2>2. issuedCodes' = issuedCodes \ {c} /\ granted' = [granted EXCEPT ![c] = @ + 1] /\ asked' = asked
    BY <1>1 DEF Access, CodesAfter
  <2>3. CodeTypes' /\ UnspentCodes'
    BY <2>1, <2>2 DEF IInv, CodeTypes, UnspentCodes
  <2> DEFINE first == WithToken(tokens, <<"bot", c>>, asked[c].scope)
             both  == WithToken(first, <<"user", c>>, asked[c].scope)
  <2>4. tokens' = both
    BY <1>1 DEF Access, GrantedScope
  <2>5. /\ both = [u \in DOMAIN both |-> both[u]]
        /\ DOMAIN both = DOMAIN tokens \cup {<<"bot", c>>, <<"user", c>>}
        /\ \A u \in DOMAIN tokens : both[u] = tokens[u]
        /\ <<"bot", c>> \notin DOMAIN tokens => both[<<"bot", c>>] = asked[c].scope
        /\ <<"user", c>> \notin DOMAIN tokens => both[<<"user", c>>] = asked[c].scope
    <3>1. /\ DOMAIN first = DOMAIN tokens \cup {<<"bot", c>>}
          /\ \A u \in DOMAIN tokens : first[u] = tokens[u]
          /\ <<"bot", c>> \notin DOMAIN tokens => first[<<"bot", c>>] = asked[c].scope
      BY InsertKeeps DEF WithToken
    <3>2. /\ both = [u \in DOMAIN both |-> both[u]]
          /\ DOMAIN both = DOMAIN first \cup {<<"user", c>>}
          /\ \A u \in DOMAIN first : both[u] = first[u]
          /\ <<"user", c>> \notin DOMAIN first => both[<<"user", c>>] = asked[c].scope
      BY InsertKeeps
    <3> HIDE DEF first, both
    <3> QED BY <3>1, <3>2
  <2> HIDE DEF first, both
  <2>6. ASSUME NEW t \in DOMAIN both
        PROVE  \/ /\ t \in {"bot", "user"} \X Codes
                  /\ t[2] \in DOMAIN asked /\ both[t] = asked[t[2]].scope
               \/ t \in ({"oidc"} \X Grants) \cup ({"seeded"} \X Seeded)
    <3>1. CASE t \in DOMAIN tokens
      BY <2>5, <3>1 DEF IInv, TokenScopes
    <3>2. CASE t \notin DOMAIN tokens
      <4>1. t \in {<<"bot", c>>, <<"user", c>>} /\ both[t] = asked[c].scope
        BY <2>5, <3>2
      <4> QED BY <4>1, <2>1
    <3> QED BY <3>1, <3>2
  <2>7. TokenScopes'
    BY <2>2, <2>4, <2>5, <2>6 DEF TokenScopes
  <2>8. ServedCodes'
    <3>1. served' = served
      BY DEF Access
    <3> QED BY <3>1, <2>2 DEF IInv, ServedCodes, ServedWithinScope
  <2> QED BY <2>3, <2>7, <2>8 DEF IInv
<1>2. CASE ~Exchangeable(c, client, uri, right)
  <2>1. UNCHANGED <<issuedCodes, asked, tokens, served>> /\ granted' = [granted EXCEPT ![c] = @]
    BY <1>2 DEF Access, CodesAfter
  <2>2. granted' = granted
    BY <2>1 DEF IInv, CodeTypes
  <2> QED BY <2>1, <2>2 DEF IInv, CodeTypes, UnspentCodes, TokenScopes, ServedCodes, ServedWithinScope
<1> QED BY <1>1, <1>2

\* The handlers that store a token which no code brought.
LEMMA OtherTokenIInv ==
  ASSUME IInv, NEW t \in ({"oidc"} \X Grants) \cup ({"seeded"} \X Seeded), NEW scope,
         tokens' = WithToken(tokens, t, scope),
         UNCHANGED <<codeVars, granted, served>>
  PROVE  IInv'
<1>1. CodeTypes' /\ UnspentCodes' /\ ServedCodes'
  BY DEF IInv, CodeTypes, UnspentCodes, ServedCodes, ServedWithinScope, codeVars
<1>2. TokenScopes'
  <2> DEFINE rows == WithToken(tokens, t, scope)
  <2>1. /\ rows = [u \in DOMAIN rows |-> rows[u]]
        /\ DOMAIN rows = DOMAIN tokens \cup {t}
        /\ \A u \in DOMAIN tokens : rows[u] = tokens[u]
    BY InsertKeeps DEF WithToken
  <2>2. tokens' = rows /\ asked' = asked
    BY DEF codeVars
  <2> HIDE DEF rows
  <2> QED BY <2>1, <2>2 DEF IInv, TokenScopes
<1> QED BY <1>1, <1>2 DEF IInv

LEMMA CallIInv ==
  ASSUME IInv, NEW m \in Methods, NEW t \in Tokens,
         CallStub(m, t) \/ CallChecked(m, t) \/ CallLookFirst(m, t)
  PROVE  IInv'
<1>1. UNCHANGED <<codeVars, tokens, granted>>
  BY DEF CallStub, CallChecked, CallLookFirst, callFrame
<1>2. CodeTypes' /\ UnspentCodes' /\ TokenScopes'
  BY <1>1 DEF IInv, CodeTypes, UnspentCodes, TokenScopes, codeVars
<1>3. ServedCodes'
  <2>1. CASE served' = served
    BY <1>1, <2>1 DEF IInv, ServedCodes, ServedWithinScope, codeVars
  <2>2. CASE served' # served
    <3>1. /\ t[1] \in {"bot", "user"} /\ served' = [served EXCEPT ![t[2]] = @ \cup {m}]
          /\ InScope(m, t) /\ t \in DOMAIN tokens
      BY <2>2 DEF CallStub, CallChecked, CallLookFirst, Serve, Known
    <3>2. t \in {"bot", "user"} \X Codes
      BY <3>1 DEF Tokens
    <3>3. t[2] \in DOMAIN asked /\ ScopesOf[m] \subseteq asked[t[2]].scope
      BY <3>1, <3>2 DEF IInv, TokenScopes, InScope
    <3>4. t[2] \in Codes
      BY <3>2
    <3> QED BY <1>1, <3>1, <3>3, <3>4 DEF IInv, ServedCodes, ServedWithinScope, codeVars
  <2> QED BY <2>1, <2>2
<1> QED BY <1>2, <1>3 DEF IInv

\* A reset and a restart: rows go or stay, codes go or stay.
LEMMA ReopenedIInv ==
  ASSUME IInv, Reopened, issuedCodes' \in {issuedCodes, {}}, UNCHANGED <<asked, granted, served>>
  PROVE  IInv'
<1>1. CodeTypes' /\ UnspentCodes' /\ ServedCodes'
  BY DEF IInv, CodeTypes, UnspentCodes, ServedCodes, ServedWithinScope
<1>2. TokenScopes'
  BY DEF IInv, TokenScopes, Reopened
<1> QED BY <1>1, <1>2 DEF IInv

LEMMA NextIInv == IInv /\ [Next]_vars => IInv'
<1> SUFFICES ASSUME IInv, [Next]_vars PROVE IInv'
  OBVIOUS
<1>1. CASE UNCHANGED <<issuedCodes, asked, tokens, granted, served>>
  BY <1>1 DEF IInv, CodeTypes, UnspentCodes, TokenScopes, ServedCodes, ServedWithinScope
<1>2. ASSUME NEW c \in Codes, NEW r \in Requests, Authorize(c, r) PROVE IInv'
  BY <1>2, AuthorizeIInv
<1>3. ASSUME NEW c \in Codes, NEW client \in Clients, NEW uri \in Uris \cup {None}, NEW right \in BOOLEAN,
             Access(c, client, uri, right)
      PROVE  IInv'
  BY <1>3, AccessIInv
<1>4. ASSUME NEW g \in Grants, Oidc(g) PROVE IInv'
  BY <1>4, OtherTokenIInv DEF Oidc
<1>5. ASSUME NEW s \in Seeded, SeedToken(s) PROVE IInv'
  BY <1>5, OtherTokenIInv DEF SeedToken
<1>6. ASSUME NEW m \in Methods, NEW t \in Callers, CallStub(m, t) \/ CallChecked(m, t) \/ CallLookFirst(m, t)
      PROVE  IInv'
  BY <1>6, CallIInv, MethodAssumption
<1>7. CASE Reset \/ Restart
  BY <1>7, ReopenedIInv DEF Reset, Restart, codeVars
<1>8. ASSUME NEW m \in Methods, ConfigureError(m) PROVE IInv'
  BY <1>8, <1>1 DEF ConfigureError, codeVars
<1>9. CASE ClearErrors \/ Tick \/ UNCHANGED vars
  BY <1>9, <1>1 DEF ClearErrors, Tick, vars, codeVars
<1> QED BY <1>2, <1>3, <1>4, <1>5, <1>6, <1>7, <1>8, <1>9, MethodAssumption DEF Next

LEMMA Invariance == Spec => []IInv
<1>1. Init => IInv
  BY InitIInv
<1>2. IInv /\ [Next]_vars => IInv'
  BY NextIInv
<1> QED BY <1>1, <1>2, PTL DEF Spec

-----------------------------------------------------------------------------
(* The windows, and the types                                               *)

Limits ==
  /\ \A t \in DOMAIN tokens : tokens[t] \subseteq AllScopes
  /\ authedUser \in BOOLEAN
  /\ windows \in [Keys -> [count : Nat, resetAt : Nat]]
  /\ \A k \in Keys : windows[k].count <= Limit[k[1]]
  /\ errors \subseteq Methods
  /\ now \in 0 .. MaxTime
  /\ passed \in [Keys -> [0 .. Window - 1 -> Nat]]
  /\ faults \in 0 .. MaxFaults

\* The methods of the keys have limits of one call at least.
LEMMA KeyLimits == \A k \in Keys : Limit[k[1]] \in Nat \ {0}
  BY MethodAssumption DEF Keys

\* What applications ask for, and what OpenID grants, is among all scopes.
LEMMA ScopesKnown ==
  /\ \A r \in Requests : r.scope \subseteq AllScopes
  /\ "openid" \in AllScopes
<1> DEFINE needed    == UNION {ScopesOf[m] : m \in Methods}
           requested == UNION {r.scope : r \in Requests}
<1>1. \A r \in Requests : r.scope \subseteq requested
  OBVIOUS
<1>2. AllScopes = needed \cup requested \cup {"openid"}
  BY DEF AllScopes
<1> HIDE DEF needed, requested
<1> QED BY <1>1, <1>2

LEMMA InitLimits == Init => Limits
<1> SUFFICES ASSUME Init PROVE Limits
  OBVIOUS
<1>1. windows \in [Keys -> [count : Nat, resetAt : Nat]]
  BY DEF Init, NoWindow
<1>2. \A k \in Keys : windows[k].count <= Limit[k[1]]
  BY KeyLimits DEF Init, NoWindow
<1>3. passed \in [Keys -> [0 .. Window - 1 -> Nat]]
  BY DEF Init, NoCalls
<1>4. now \in 0 .. MaxTime /\ faults \in 0 .. MaxFaults
  BY TimeAssumption DEF Init
<1>5. \A t \in DOMAIN tokens : tokens[t] \subseteq AllScopes
  BY DEF Init
<1> QED BY <1>1, <1>2, <1>3, <1>4, <1>5 DEF Init, Limits

\* One call more among the calls of every age.
LEMMA CallsRaised ==
  ASSUME NEW calls \in [0 .. Window - 1 -> Nat]
  PROVE  [age \in 0 .. Window - 1 |-> calls[age] + 1] \in [0 .. Window - 1 -> Nat]
  OBVIOUS

\* A limited call that is let pass.
LEMMA PassCounts ==
  ASSUME NEW m, NEW t, LetPass(m, t), ~UNCHANGED limitVars
  PROVE  /\ m \in Limited /\ Allowed(m, t)
         /\ windows' = [windows EXCEPT ![<<m, t>>] = Counted(windows[<<m, t>>])]
         /\ passed' = [passed EXCEPT ![<<m, t>>] = [age \in 0 .. Window - 1 |-> passed[<<m, t>>][age] + 1]]
BY DEF LetPass, Pass

\* A call that is let pass raises the count of its window to its limit at most.
LEMMA LetPassLimits ==
  ASSUME Limits, NEW m \in Methods, NEW t \in Callers, LetPass(m, t)
  PROVE  /\ windows' \in [Keys -> [count : Nat, resetAt : Nat]]
         /\ \A k \in Keys : windows'[k].count <= Limit[k[1]]
         /\ passed' \in [Keys -> [0 .. Window - 1 -> Nat]]
<1>1. CASE UNCHANGED limitVars
  BY <1>1 DEF Limits, limitVars
<1>2. CASE ~UNCHANGED limitVars
  <2> DEFINE k == <<m, t>>
  <2>1. /\ m \in Limited /\ Allowed(m, t)
        /\ windows' = [windows EXCEPT ![k] = Counted(windows[k])]
        /\ passed' = [passed EXCEPT ![k] = [age \in 0 .. Window - 1 |-> passed[k][age] + 1]]
    BY <1>2, PassCounts
  <2>2. k \in Keys /\ k[1] = m /\ Limit[m] \in Nat \ {0}
    BY <2>1, MethodAssumption DEF Keys
  <2>3. windows[k] \in [count : Nat, resetAt : Nat] /\ passed[k] \in [0 .. Window - 1 -> Nat]
    BY <2>2 DEF Limits
  <2>4. Expired(windows[k]) \/ windows[k].count < Limit[m]
    BY <2>1 DEF Allowed
  <2>5. Counted(windows[k]) \in [count : Nat, resetAt : Nat] /\ Counted(windows[k]).count <= Limit[m]
    <3>1. CASE Expired(windows[k])
      BY <3>1, <2>2, TimeAssumption DEF Counted, Limits
    <3>2. CASE ~Expired(windows[k])
      BY <3>2, <2>2, <2>3, <2>4 DEF Counted
    <3> QED BY <3>1, <3>2
  <2> HIDE DEF k
  <2>6. [age \in 0 .. Window - 1 |-> passed[k][age] + 1] \in [0 .. Window - 1 -> Nat]
    BY <2>3, CallsRaised
  <2> QED BY <2>1, <2>2, <2>5, <2>6 DEF Limits
<1> QED BY <1>1, <1>2

LEMMA NextLimits == IInv /\ Limits /\ [Next]_vars => Limits'
<1> SUFFICES ASSUME IInv, Limits, [Next]_vars PROVE Limits'
  OBVIOUS
<1> USE TimeAssumption, ModeAssumption DEF codeVars, limitVars
<1>1. ASSUME NEW m \in Methods, NEW t \in Callers,
             CallStub(m, t) \/ CallChecked(m, t) \/ CallLookFirst(m, t)
      PROVE  Limits'
  <2>1. LetPass(m, t) \/ UNCHANGED limitVars
    BY <1>1 DEF CallStub, CallChecked, CallLookFirst
  <2>2. UNCHANGED callFrame
    BY <1>1 DEF CallStub, CallChecked, CallLookFirst
  <2> QED BY <2>1, <2>2, LetPassLimits DEF Limits, callFrame
<1>2. ASSUME NEW c \in Codes, NEW client, NEW uri, NEW right, Access(c, client, uri, right)
      PROVE  Limits'
  <2>1. CASE Exchangeable(c, client, uri, right)
    <3> DEFINE first == WithToken(tokens, <<"bot", c>>, asked[c].scope)
    <3>1. asked[c].scope \subseteq AllScopes
      BY <2>1, ScopesKnown DEF Exchangeable, IInv, CodeTypes
    <3>2. tokens' = WithToken(first, <<"user", c>>, asked[c].scope)
      BY <1>2, <2>1 DEF Access, GrantedScope
    <3>3. \A u \in DOMAIN first : first[u] \subseteq AllScopes
      BY <3>1 DEF WithToken, Limits
    <3> HIDE DEF first
    <3>4. \A u \in DOMAIN tokens' : tokens'[u] \subseteq AllScopes
      BY <3>1, <3>2, <3>3 DEF WithToken
    <3> QED BY <1>2, <3>4 DEF Access, Limits
  <2>2. CASE ~Exchangeable(c, client, uri, right)
    BY <1>2, <2>2 DEF Access, Limits
  <2> QED BY <2>1, <2>2
<1>3. ASSUME NEW g \in Grants, Oidc(g) PROVE Limits'
  <2>1. \A u \in DOMAIN tokens' : tokens'[u] \subseteq AllScopes
    BY <1>3, ScopesKnown DEF Oidc, WithToken, Limits
  <2> QED BY <1>3, <2>1 DEF Oidc, Limits
<1>4. ASSUME NEW s \in Seeded, SeedToken(s) PROVE Limits'
  <2>1. \A u \in DOMAIN tokens' : tokens'[u] \subseteq AllScopes
    BY <1>4 DEF SeedToken, WithToken, Limits
  <2> QED BY <1>4, <2>1 DEF SeedToken, Limits
<1>5. ASSUME NEW c \in Codes, NEW r \in Requests, Authorize(c, r) PROVE Limits'
  BY <1>5 DEF Authorize, Limits
<1>6. ASSUME NEW m \in Methods, ConfigureError(m) PROVE Limits'
  BY <1>6 DEF ConfigureError, Limits
<1>7. CASE ClearErrors
  BY <1>7 DEF ClearErrors, Limits
<1>8. CASE Tick
  <2>1. passed' \in [Keys -> [0 .. Window - 1 -> Nat]]
    BY <1>8 DEF Tick, Limits
  <2> QED BY <1>8, <2>1 DEF Tick, Limits
<1>9. CASE Reset \/ Restart
  <2>1. \A t \in DOMAIN tokens' : t \in DOMAIN tokens /\ tokens'[t] = tokens[t]
    BY <1>9 DEF Reset, Restart, Reopened
  <2>2. /\ authedUser' \in BOOLEAN /\ errors' \subseteq Methods
        /\ faults' \in 0 .. MaxFaults /\ now' = now
    BY <1>9 DEF Reset, Restart, Reopened, Fault, Limits
  <2>3. /\ windows' \in [Keys -> [count : Nat, resetAt : Nat]]
        /\ passed' \in [Keys -> [0 .. Window - 1 -> Nat]]
        /\ \A k \in Keys : windows'[k].count <= Limit[k[1]]
    BY <1>9, KeyLimits DEF Reset, Restart, ForgetWindows, NoWindow, NoCalls
  <2> QED BY <2>1, <2>2, <2>3 DEF Limits
<1>10. CASE UNCHANGED vars
  BY <1>10 DEF vars, Limits
<1> QED BY <1>1, <1>2, <1>3, <1>4, <1>5, <1>6, <1>7, <1>8, <1>9, <1>10, MethodAssumption DEF Next

LEMMA LimitsHold == Spec => []Limits
<1>1. Init => Limits
  BY InitLimits
<1>2. IInv /\ Limits /\ [Next]_vars => Limits'
  BY NextLimits
<1> QED BY <1>1, <1>2, Invariance, PTL DEF Spec

\* Every variable keeps its type, and no window counts more calls than its limit.
THEOREM TypeCorrect == Spec => []TypeOK
<1>1. IInv /\ Limits => TypeOK
  BY DEF IInv, CodeTypes, TokenScopes, ServedCodes, Limits, TypeOK, Tokens
<1> QED BY <1>1, Invariance, LimitsHold, PTL

-----------------------------------------------------------------------------
\* Whatever is authorized, exchanged, reset and restarted, no token of a code
\* is ever served a method outside the scopes the code was authorized for.
THEOREM ScopesAreGranted == Spec => []ServedWithinScope
<1>1. IInv => ServedWithinScope
  BY DEF IInv, ServedCodes
<1> QED BY <1>1, Invariance, PTL

-----------------------------------------------------------------------------
(* The codes implement SingleUse                                            *)

Phases == [c \in Codes |-> Phase(c)]

LEMMA InitPromise == Init => Promise!Init
BY DEF Init, Promise!Init, Phase

\* A step that leaves the codes and what they were exchanged for alone.
LEMMA PhaseFrame ==
  ASSUME UNCHANGED <<issuedCodes, asked, granted>>
  PROVE  UNCHANGED Promise!codeVars
BY DEF Promise!codeVars, Phase

LEMMA AuthorizeIssues ==
  ASSUME IInv, NEW c \in Codes, NEW r \in Requests, Authorize(c, r)
  PROVE  Promise!Issue(c)
<1>1. Phase(c) = "unissued"
  BY DEF Authorize, Phase
<1>2. Phase(c)' = "open"
  BY DEF Authorize, Phase
<1>3. ASSUME NEW d \in Codes, d # c PROVE Phase(d)' = Phase(d)
  BY <1>3 DEF Authorize, Phase
<1>4. granted' = granted
  BY DEF Authorize
<1> QED BY <1>1, <1>2, <1>3, <1>4 DEF Promise!Issue

LEMMA AccessRedeems ==
  ASSUME IInv, NEW c \in Codes, NEW client, NEW uri, NEW right, Access(c, client, uri, right)
  PROVE  Promise!Redeem(c) \/ UNCHANGED Promise!codeVars
<1>1. CASE Exchangeable(c, client, uri, right)
  <2>1. /\ c \in issuedCodes /\ c \in DOMAIN asked
        /\ issuedCodes' = issuedCodes \ {c} /\ asked' = asked
        /\ granted' = [granted EXCEPT ![c] = @ + 1]
    BY <1>1 DEF Exchangeable, Access, CodesAfter, IInv, CodeTypes
  <2>2. granted \in [Codes -> Nat]
    BY DEF IInv, CodeTypes
  <2>3. Phase(c) = "open"
    BY <2>1 DEF Phase
  <2>4. Phase(c)' = "spent"
    <3>1. granted'[c] > 0
      BY <2>1, <2>2
    <3> QED BY <2>1, <3>1 DEF Phase
  <2>5. ASSUME NEW d \in Codes, d # c PROVE Phase(d)' = Phase(d)
    BY <2>1, <2>2, <2>5 DEF Phase
  <2> QED BY <2>1, <2>3, <2>4, <2>5 DEF Promise!Redeem
<1>2. CASE ~Exchangeable(c, client, uri, right)
  <2>1. UNCHANGED <<issuedCodes, asked, granted>>
    BY <1>2 DEF Access, CodesAfter, IInv, CodeTypes
  <2> QED BY <2>1, PhaseFrame
<1> QED BY <1>1, <1>2

LEMMA RestartLoses ==
  ASSUME IInv, Restart
  PROVE  Promise!Lose(issuedCodes)
<1>1. issuedCodes' = {} /\ asked' = asked /\ granted' = granted
  BY DEF Restart
<1>2. issuedCodes \subseteq DOMAIN asked /\ issuedCodes \subseteq Codes
  BY DEF IInv, CodeTypes
<1>3. ASSUME NEW c \in issuedCodes PROVE Phase(c) = "open" /\ Phase(c)' = "lost"
  BY <1>1, <1>2, <1>3 DEF Phase, IInv, UnspentCodes
<1>4. ASSUME NEW c \in Codes \ issuedCodes PROVE Phase(c)' = Phase(c)
  BY <1>1, <1>4 DEF Phase
<1> QED BY <1>1, <1>2, <1>3, <1>4 DEF Promise!Lose

LEMMA NextPromise == IInv /\ [Next]_vars => [Promise!Next]_Promise!codeVars
<1> SUFFICES ASSUME IInv, [Next]_vars PROVE [Promise!Next]_Promise!codeVars
  OBVIOUS
<1>1. CASE UNCHANGED <<issuedCodes, asked, granted>>
  BY <1>1, PhaseFrame
<1>2. ASSUME NEW c \in Codes, NEW r \in Requests, Authorize(c, r) PROVE Promise!Next
  BY <1>2, AuthorizeIssues DEF Promise!Next
<1>3. ASSUME NEW c \in Codes, NEW client, NEW uri, NEW right, Access(c, client, uri, right)
      PROVE  [Promise!Next]_Promise!codeVars
  BY <1>3, AccessRedeems DEF Promise!Next
<1>4. CASE Restart
  <2>1. issuedCodes \in SUBSET Codes
    BY DEF IInv, CodeTypes
  <2> QED BY <1>4, <2>1, RestartLoses DEF Promise!Next
<1>5. ASSUME NEW m, NEW t, CallStub(m, t) \/ CallChecked(m, t) \/ CallLookFirst(m, t)
      PROVE  UNCHANGED <<issuedCodes, asked, granted>>
  BY <1>5 DEF CallStub, CallChecked, CallLookFirst, callFrame, codeVars
<1>6. ASSUME NEW x, Oidc(x) \/ SeedToken(x) \/ ConfigureError(x)
      PROVE  UNCHANGED <<issuedCodes, asked, granted>>
  BY <1>6 DEF Oidc, SeedToken, ConfigureError, codeVars
<1>7. CASE ClearErrors \/ Tick \/ Reset \/ UNCHANGED vars
  BY <1>7, <1>1 DEF ClearErrors, Tick, Reset, vars, codeVars
<1> QED BY <1>1, <1>2, <1>3, <1>4, <1>5, <1>6, <1>7 DEF Next

\* The OAuth plugin keeps the promise of an authorization code: issued once,
\* redeemed at most once, and never good again when spent or lost.
THEOREM SlackCodesSingleUse == Spec => CodesAreSingleUse
<1>1. Init => Promise!Init
  BY InitPromise
<1>2. IInv /\ [Next]_vars => [Promise!Next]_Promise!codeVars
  BY NextPromise
<1> QED BY <1>1, <1>2, Invariance, PTL DEF Spec, CodesAreSingleUse, Promise!Spec

\* A failed exchange leaves the code to its owner: no step but its exchange, a
\* reset or a restart takes a code away.
THEOREM FailuresSpendNothing == Spec => OnlyAnExchangeSpends
<1>1. ASSUME IInv, Limits, [Next]_vars, NEW c \in issuedCodes, c \notin issuedCodes'
      PROVE  granted'[c] = granted[c] + 1 \/ faults' # faults
  <2>1. c \in Codes /\ granted \in [Codes -> Nat]
    BY <1>1 DEF IInv, CodeTypes
  <2>2. ASSUME NEW d \in Codes, NEW client, NEW uri, NEW right, Access(d, client, uri, right)
        PROVE  granted'[c] = granted[c] + 1
    <3>1. d = c /\ Exchangeable(d, client, uri, right)
      BY <1>1, <2>2 DEF Access, CodesAfter
    <3>2. QED
      BY <2>1, <2>2, <3>1 DEF Access
  <2>3. CASE Restart
    BY <2>3, <1>1 DEF Restart, Fault, Limits
  <2>4. ASSUME NEW d, NEW r, Authorize(d, r) PROVE FALSE
    BY <1>1, <2>4 DEF Authorize
  <2>5. ASSUME NEW m, NEW t, CallStub(m, t) \/ CallChecked(m, t) \/ CallLookFirst(m, t)
        PROVE  FALSE
    BY <1>1, <2>5 DEF CallStub, CallChecked, CallLookFirst, callFrame, codeVars
  <2>6. ASSUME NEW x, Oidc(x) \/ SeedToken(x) \/ ConfigureError(x)
        PROVE  FALSE
    BY <1>1, <2>6 DEF Oidc, SeedToken, ConfigureError, codeVars
  <2>7. ~(ClearErrors \/ Tick \/ Reset \/ UNCHANGED vars)
    BY <1>1 DEF ClearErrors, Tick, Reset, vars, codeVars
  <2> QED BY <1>1, <2>2, <2>3, <2>4, <2>5, <2>6, <2>7 DEF Next
<1>2. IInv /\ Limits /\ [Next]_vars
        => [\A c \in issuedCodes : c \notin issuedCodes' =>
              granted'[c] = granted[c] + 1 \/ faults' # faults]_vars
  BY <1>1
<1> QED BY <1>2, Invariance, LimitsHold, PTL DEF Spec, OnlyAnExchangeSpends

-----------------------------------------------------------------------------
(* The identity that a user token names exists                              *)

LEMMA NextUsers == TokensHaveUsers /\ IInv /\ [Next]_vars => TokensHaveUsers'
<1> SUFFICES ASSUME TokensHaveUsers, IInv, [Next]_vars PROVE TokensHaveUsers'
  OBVIOUS
<1>1. CASE UNCHANGED <<tokens, authedUser>>
  BY <1>1 DEF TokensHaveUsers
<1>2. ASSUME NEW c, NEW client, NEW uri, NEW right, Access(c, client, uri, right) PROVE TokensHaveUsers'
  <2>1. CASE Exchangeable(c, client, uri, right)
    BY <1>2, <2>1 DEF Access, TokensHaveUsers
  <2>2. CASE ~Exchangeable(c, client, uri, right)
    BY <1>2, <2>2 DEF Access, TokensHaveUsers
  <2> QED BY <2>1, <2>2
<1>3. ASSUME NEW g, Oidc(g) PROVE TokensHaveUsers'
  BY <1>3 DEF Oidc, TokensHaveUsers
<1>4. ASSUME NEW s, SeedToken(s) PROVE TokensHaveUsers'
  <2>1. DOMAIN tokens' = DOMAIN tokens \cup {<<"seeded", s>>} /\ authedUser' = authedUser
    BY <1>4 DEF SeedToken, WithToken
  <2>2. <<"seeded", s>>[1] = "seeded"
    OBVIOUS
  <2> QED BY <2>1, <2>2 DEF TokensHaveUsers
<1>5. CASE Reset \/ Restart
  BY <1>5, ModeAssumption DEF Reset, Restart, Reopened, TokensHaveUsers
<1>6. ASSUME NEW m, NEW t, CallStub(m, t) \/ CallChecked(m, t) \/ CallLookFirst(m, t)
      PROVE  UNCHANGED <<tokens, authedUser>>
  BY <1>6 DEF CallStub, CallChecked, CallLookFirst, callFrame
<1>7. ASSUME NEW c, NEW r, Authorize(c, r) PROVE UNCHANGED <<tokens, authedUser>>
  BY <1>7 DEF Authorize
<1>8. ASSUME NEW m, ConfigureError(m) PROVE UNCHANGED <<tokens, authedUser>>
  BY <1>8 DEF ConfigureError
<1>9. CASE ClearErrors \/ Tick \/ UNCHANGED vars
  BY <1>9, <1>1 DEF ClearErrors, Tick, vars
<1> QED BY <1>1, <1>2, <1>3, <1>4, <1>5, <1>6, <1>7, <1>8, <1>9 DEF Next

\* Every stored user token names a user that is in the database.
THEOREM UsersExist == Spec => []TokensHaveUsers
<1>1. Init => TokensHaveUsers
  BY DEF Init, TokensHaveUsers
<1>2. TokensHaveUsers /\ IInv /\ [Next]_vars => TokensHaveUsers'
  BY NextUsers
<1> QED BY <1>1, <1>2, Invariance, PTL DEF Spec

-----------------------------------------------------------------------------
(* How many calls come close together                                       *)

Opened(w) == w.resetAt - Window

\* What a window bounds: the calls since less time than it is open are its own
\* without the first; those before it opened were let pass by one window only,
\* which opened a whole window earlier.
WithinWindow(w, calls, limit, time) ==
  /\ w.count > 0 /\ Opened(w) <= time
  /\ \A age \in 0 .. Window - 1 :
       /\ time - age > Opened(w) => calls[age] <= w.count - 1
       /\ calls[age] <= w.count + limit - 1

BurstOf(k) ==
  \/ windows[k] = NoWindow /\ passed[k] = NoCalls
  \/ WithinWindow(windows[k], passed[k], Limit[k[1]], now)

Bursts == \A k \in Keys : BurstOf(k)

\* A call that opens a window, because there was none or the last one expired.
LEMMA OpeningBurst ==
  ASSUME NEW w \in [count : Nat, resetAt : Nat], NEW calls \in [0 .. Window - 1 -> Nat],
         NEW limit \in Nat \ {0}, w.count <= limit, now \in Nat, Expired(w),
         \/ w = NoWindow /\ calls = NoCalls
         \/ WithinWindow(w, calls, limit, now)
  PROVE  WithinWindow(Counted(w), [age \in 0 .. Window - 1 |-> calls[age] + 1], limit, now)
<1> DEFINE opened == Counted(w)
           after  == [age \in 0 .. Window - 1 |-> calls[age] + 1]
<1>1. opened = [count |-> 1, resetAt |-> now + Window]
  BY DEF Counted
<1>2. opened.count = 1 /\ Opened(opened) = now
  BY <1>1, TimeAssumption DEF Opened
<1>3. ASSUME NEW age \in 0 .. Window - 1
      PROVE  ~(now - age > now) /\ after[age] <= limit
  <2>1. after[age] = calls[age] + 1 /\ calls[age] \in Nat
    OBVIOUS
  <2>2. CASE calls = NoCalls
    BY <2>1, <2>2, TimeAssumption DEF NoCalls
  <2>3. CASE WithinWindow(w, calls, limit, now)
    <3>1. now - age > Opened(w)
      BY TimeAssumption DEF Expired, Opened
    <3>2. calls[age] <= w.count - 1
      BY <2>3, <3>1 DEF WithinWindow
    <3> QED BY <2>1, <3>2, TimeAssumption
  <2> QED BY <2>2, <2>3
<1> HIDE DEF opened, after
<1>4. \A age \in 0 .. Window - 1 : after[age] <= opened.count + limit - 1
  BY <1>2, <1>3
<1>5. WithinWindow(opened, after, limit, now)
  BY <1>2, <1>3, <1>4 DEF WithinWindow
<1> QED BY <1>5 DEF opened, after

\* A call that an open window counts.
LEMMA CountedBurst ==
  ASSUME NEW w \in [count : Nat, resetAt : Nat], NEW calls \in [0 .. Window - 1 -> Nat],
         NEW limit \in Nat \ {0}, now \in Nat, ~Expired(w),
         \/ w = NoWindow /\ calls = NoCalls
         \/ WithinWindow(w, calls, limit, now)
  PROVE  WithinWindow(Counted(w), [age \in 0 .. Window - 1 |-> calls[age] + 1], limit, now)
<1>1. WithinWindow(w, calls, limit, now)
  BY DEF Expired, NoWindow
<1> DEFINE counted == Counted(w)
           after   == [age \in 0 .. Window - 1 |-> calls[age] + 1]
<1>2. counted.count = w.count + 1 /\ Opened(counted) = Opened(w)
  BY DEF Counted, Opened
<1>3. \A age \in 0 .. Window - 1 : after[age] = calls[age] + 1 /\ calls[age] \in Nat
  OBVIOUS
<1> HIDE DEF counted, after
<1>4. WithinWindow(counted, after, limit, now)
  BY <1>1, <1>2, <1>3, TimeAssumption DEF WithinWindow
<1> QED BY <1>4 DEF counted, after

LEMMA LetPassBursts ==
  ASSUME Limits, Bursts, NEW m \in Methods, NEW t \in Callers, LetPass(m, t), now' = now
  PROVE  Bursts'
<1>1. CASE UNCHANGED limitVars
  BY <1>1 DEF limitVars, Bursts, BurstOf, WithinWindow, Opened
<1>2. CASE ~UNCHANGED limitVars
  <2> DEFINE k == <<m, t>>
  <2>1. /\ m \in Limited /\ Allowed(m, t)
        /\ windows' = [windows EXCEPT ![k] = Counted(windows[k])]
        /\ passed' = [passed EXCEPT ![k] = [age \in 0 .. Window - 1 |-> passed[k][age] + 1]]
    BY <1>2, PassCounts
  <2> DEFINE after == [age \in 0 .. Window - 1 |-> passed[k][age] + 1]
  <2>2. k \in Keys /\ k[1] = m /\ Limit[m] \in Nat \ {0}
    BY <2>1, MethodAssumption DEF Keys
  <2>3. /\ windows[k] \in [count : Nat, resetAt : Nat] /\ passed[k] \in [0 .. Window - 1 -> Nat]
        /\ windows[k].count <= Limit[m] /\ now \in Nat
    <3>1. now \in Nat
      BY TimeAssumption DEF Limits
    <3>2. windows[k].count <= Limit[m]
      BY <2>2 DEF Limits
    <3>3. windows[k] \in [count : Nat, resetAt : Nat] /\ passed[k] \in [0 .. Window - 1 -> Nat]
      BY <2>2 DEF Limits
    <3> QED BY <3>1, <3>2, <3>3
  <2>4. \/ windows[k] = NoWindow /\ passed[k] = NoCalls
        \/ WithinWindow(windows[k], passed[k], Limit[m], now)
    BY <2>2 DEF Bursts, BurstOf
  <2>5. WithinWindow(Counted(windows[k]), after, Limit[m], now)
    BY <2>2, <2>3, <2>4, OpeningBurst, CountedBurst
  <2> HIDE DEF k
  <2>6. windows'[k] = Counted(windows[k]) /\ passed'[k] = after
    BY <2>1, <2>2 DEF Limits
  <2>7. \A j \in Keys \ {k} : windows'[j] = windows[j] /\ passed'[j] = passed[j]
    BY <2>1, <2>2 DEF Limits
  <2> HIDE DEF after
  <2>8. ASSUME NEW j \in Keys PROVE BurstOf(j)'
    <3>1. CASE j = k
      <4>1. WithinWindow(windows'[k], passed'[k], Limit[k[1]], now')
        BY <2>2, <2>5, <2>6
      <4> QED BY <3>1, <4>1 DEF BurstOf, WithinWindow, Opened
    <3>2. CASE j # k
      <4>1. windows'[j] = windows[j] /\ passed'[j] = passed[j]
        BY <2>7, <3>2
      <4>2. BurstOf(j)
        BY DEF Bursts
      <4> QED BY <4>1, <4>2 DEF BurstOf, WithinWindow, Opened
    <3> QED BY <3>1, <3>2
  <2> QED BY <2>8 DEF Bursts
<1> QED BY <1>1, <1>2

\* A tick ages every call, and every window, by one.
LEMMA TickBursts ==
  ASSUME Limits, Bursts, Tick
  PROVE  Bursts'
<1> SUFFICES ASSUME NEW k \in Keys PROVE BurstOf(k)'
  BY DEF Bursts
<1>1. /\ windows' = windows /\ now' = now + 1 /\ now \in Nat
      /\ windows[k] \in [count : Nat, resetAt : Nat] /\ Limit[k[1]] \in Nat \ {0}
      /\ passed[k] \in [0 .. Window - 1 -> Nat]
  BY KeyLimits, TimeAssumption DEF Tick, Limits
<1>2. passed'[k] = [age \in 0 .. Window - 1 |-> IF age = 0 THEN 0 ELSE passed[k][age - 1]]
  BY DEF Tick
<1>3. CASE windows[k] = NoWindow /\ passed[k] = NoCalls
  <2>1. \A age \in 0 .. Window - 1 : passed'[k][age] = 0
    BY <1>2, <1>3, TimeAssumption DEF NoCalls
  <2>2. passed'[k] = NoCalls
    BY <1>2, <2>1 DEF NoCalls
  <2> QED BY <1>1, <1>3, <2>2 DEF BurstOf
<1>4. CASE WithinWindow(windows[k], passed[k], Limit[k[1]], now)
  <2> DEFINE w == windows[k]
  <2>1. w.count \in Nat \ {0} /\ Opened(w) \in Int /\ Opened(w) <= now
    BY <1>1, <1>4, TimeAssumption DEF WithinWindow, Opened
  <2>2. ASSUME NEW age \in 0 .. Window - 1
        PROVE  /\ now + 1 - age > Opened(w) => passed'[k][age] <= w.count - 1
               /\ passed'[k][age] <= w.count + Limit[k[1]] - 1
    <3>1. CASE age = 0
      BY <1>1, <1>2, <2>1, <3>1, TimeAssumption
    <3>2. CASE age # 0
      <4>1. age - 1 \in 0 .. Window - 1 /\ passed'[k][age] = passed[k][age - 1]
        BY <1>2, <3>2, TimeAssumption
      <4>2. /\ now - (age - 1) > Opened(w) => passed[k][age - 1] <= w.count - 1
            /\ passed[k][age - 1] <= w.count + Limit[k[1]] - 1
        BY <1>4, <4>1 DEF WithinWindow
      <4>3. now + 1 - age = now - (age - 1)
        BY <1>1, TimeAssumption
      <4> QED BY <4>1, <4>2, <4>3
    <3> QED BY <3>1, <3>2
  <2>3. WithinWindow(w, passed'[k], Limit[k[1]], now')
    BY <1>1, <2>1, <2>2 DEF WithinWindow
  <2> QED BY <1>1, <2>3 DEF BurstOf, WithinWindow, Opened
<1> QED BY <1>3, <1>4 DEF Bursts, BurstOf

LEMMA NextBursts == Limits /\ Bursts /\ [Next]_vars => Bursts'
<1> SUFFICES ASSUME Limits, Bursts, [Next]_vars PROVE Bursts'
  OBVIOUS
<1>1. CASE UNCHANGED <<windows, passed, now>>
  BY <1>1 DEF Bursts, BurstOf, WithinWindow, Opened
<1>2. ASSUME NEW m \in Methods, NEW t \in Callers,
             CallStub(m, t) \/ CallChecked(m, t) \/ CallLookFirst(m, t)
      PROVE  Bursts'
  <2>1. now' = now
    BY <1>2 DEF CallStub, CallChecked, CallLookFirst, callFrame
  <2>2. LetPass(m, t) \/ UNCHANGED limitVars
    BY <1>2 DEF CallStub, CallChecked, CallLookFirst
  <2> QED BY <1>1, <2>1, <2>2, LetPassBursts DEF limitVars
<1>3. CASE Tick
  BY <1>3, TickBursts
<1>4. CASE Reset \/ Restart
  BY <1>4 DEF Reset, Restart, ForgetWindows, Bursts, BurstOf
<1>5. ASSUME NEW c, NEW client, NEW uri, NEW right, Access(c, client, uri, right)
      PROVE  UNCHANGED <<windows, passed, now>>
  BY <1>5 DEF Access, limitVars
<1>6. ASSUME NEW c, NEW r, Authorize(c, r) PROVE UNCHANGED <<windows, passed, now>>
  BY <1>6 DEF Authorize, limitVars
<1>7. ASSUME NEW x, Oidc(x) \/ SeedToken(x) \/ ConfigureError(x)
      PROVE  UNCHANGED <<windows, passed, now>>
  BY <1>7 DEF Oidc, SeedToken, ConfigureError, limitVars
<1>8. CASE ClearErrors \/ UNCHANGED vars
  BY <1>1, <1>8 DEF ClearErrors, vars, limitVars
<1> QED BY <1>1, <1>2, <1>3, <1>4, <1>5, <1>6, <1>7, <1>8, MethodAssumption DEF Next

\* Whatever calls, resets and ticks come in whatever order, no stretch of a
\* window's length sees twice the limit of a method: whoever waits for a window
\* to end cannot have his calls doubled by the next one.
THEOREM BurstsAreBounded == Spec => []BurstBounded
<1>1. Init => Bursts
  BY DEF Init, Bursts, BurstOf
<1>2. Limits /\ Bursts /\ [Next]_vars => Bursts'
  BY NextBursts
<1>3. Limits /\ Bursts => BurstBounded
  <2> SUFFICES ASSUME Limits, Bursts, NEW k \in Keys PROVE Recent(k) <= 2 * Limit[k[1]] - 1
    BY DEF BurstBounded
  <2>1. /\ Limit[k[1]] \in Nat \ {0} /\ windows[k].count \in Nat
        /\ windows[k].count <= Limit[k[1]] /\ Window - 1 \in 0 .. Window - 1
    BY KeyLimits, TimeAssumption DEF Limits
  <2>2. CASE passed[k] = NoCalls
    BY <2>1, <2>2 DEF Recent, NoCalls
  <2>3. CASE WithinWindow(windows[k], passed[k], Limit[k[1]], now)
    <3>1. passed[k][Window - 1] <= windows[k].count + Limit[k[1]] - 1
      BY <2>1, <2>3 DEF WithinWindow
    <3>2. passed[k][Window - 1] \in Nat
      BY <2>1 DEF Limits
    <3> QED BY <2>1, <3>1, <3>2 DEF Recent
  <2> QED BY <2>2, <2>3 DEF Bursts, BurstOf
<1> QED BY <1>1, <1>2, <1>3, LimitsHold, PTL DEF Spec
=============================================================================

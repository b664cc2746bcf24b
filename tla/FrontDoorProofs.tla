--------------------------- MODULE FrontDoorProofs ---------------------------
(* Theorems about FrontDoor, for every value of its constants.             *)
EXTENDS FrontDoor, TLAPS

-----------------------------------------------------------------------------
(* What a request is                                                       *)

LEMMA RequestShape ==
    ASSUME NEW r \in Requests
    PROVE  /\ r.to \in {"engine", "keys"}
           /\ r.auth \in Auths
           /\ r.to = "engine" => r.route \in Routes /\ r.claimed \in Names \cup {None}
           /\ r.to = "keys" => r.op \in Ops
  BY FrontDoorAssumption DEF VerifyRequest, KeyRequest

LEMMA FieldTypes ==
    ASSUME NEW r, r.auth \in Auths
    PROVE  /\ \A i \in DOMAIN r.auth : r.auth[i] \in Fields
           /\ r.auth # <<>> => r.auth[1] \in Fields
<1>1. CASE r.auth = <<>>
  BY <1>1
<1>2. CASE r.auth \in [1..1 -> Fields] \cup [1..2 -> Fields]
  BY <1>2
<1>3. QED
  BY <1>1, <1>2 DEF Auths

\* The one bearer of a request, Empty for several or an empty one, None for none.
LEMMA ParsedBearer ==
    ASSUME NEW r, r.auth \in Auths
    PROVE  LET t == parseAuthorizationValues(r) IN
           /\ t \in Tokens \cup {Empty, None}
           /\ t = None <=> Bearers(r) = {}
           /\ t \in Tokens => \A i \in Bearers(r) : r.auth[i] = t
<1>1. \A i \in Bearers(r) : r.auth[i] \in Tokens \cup {Empty}
  BY FieldTypes DEF Bearers, Fields
<1>2. CASE Bearers(r) = {}
  BY <1>2, FrontDoorAssumption DEF parseAuthorizationValues
<1>3. CASE Bearers(r) # {} /\ \E i \in Bearers(r) : Bearers(r) = {i}
  <2>1. PICK i \in Bearers(r) : Bearers(r) = {i}
    BY <1>3
  <2>2. parseAuthorizationValues(r) = r.auth[i]
    BY <1>3, <2>1 DEF parseAuthorizationValues
  <2>3. QED
    BY <1>1, <2>1, <2>2, FrontDoorAssumption
<1>4. CASE Bearers(r) # {} /\ ~\E i \in Bearers(r) : Bearers(r) = {i}
  <2>1. parseAuthorizationValues(r) = Empty
    BY <1>4 DEF parseAuthorizationValues
  <2>2. QED
    BY <1>4, <2>1, FrontDoorAssumption
<1>5. QED
  BY <1>2, <1>3, <1>4

-----------------------------------------------------------------------------
(* The inductive invariant                                                 *)

\* The proxy's bearer is earned, for headers h.
Earned(h) ==
    h.Authorization = Proxy =>
        /\ Bearer \in Tokens
        /\ \/ Bearer.kind = "hook" /\ req.route = "hook"
           \/ Bearer.kind = "amk" /\ Bearer.live /\ keyAllowsRoute(Bearer.roles, req.route)
           \/ /\ Bearer.kind = "jwt" /\ Bearer.live /\ audMatches(Bearer)
              /\ roleForRoute(req.route) \in Bearer.roles

Attributed(h) ==
    h.Authorization = Proxy =>
        /\ (h.Sub = None) = (h.Issuer = None)
        /\ h.User = IF Bearer.kind = "hook" THEN HookUser ELSE Bearer.name
        /\ \A n \in {"Sub", "Issuer"} : h[n] \in {None, Bearer.who}
        /\ \A n \in {"Client", "Agent"} : h[n] \in {None, Bearer.azp, Bearer.app}
        /\ Bearer.kind = "hook" => \A n \in Claims \ {"User"} : h[n] = None
        /\ Bearer.kind = "amk" => h.Client = None /\ h.Agent = None

Unspoilt(h) ==
    req.route # "public" =>
        /\ Bearer # None /\ h.Authorization # Proxy => h.Authorization = Bearer
        /\ Bearer = None => h.Authorization = None

Good(h) == Earned(h) /\ Attributed(h) /\ Unspoilt(h)

\* Who is whose business, and what the answer to the edge says.
RouteInv ==
    /\ pc = "idle" <=> req = None
    /\ pc \in {"verify", "answered", "engine"} => req.to = "engine"
    /\ pc \in {"keys", "asking", "told", "known", "done"} => req.to = "keys"
    /\ pc = "answered" /\ status = "ok" => Good(headers)
    /\ pc = "engine" => Good(seen)

Issuer == /\ Bearer \in Tokens /\ Bearer.live /\ Bearer.kind \in {"amk", "jwt"}
          /\ "admin" \in Bearer.roles \/ (Bearer.kind = "jwt" /\ Bearer.who \in cfg.admins)

NeedsCSRF == isMutatingMethod(req.op)

\* What is known of a caller came from the one bearer, or from what the session was.
CallerIsKnown ==
    /\ caller.may => IF Bearers(req) # {} THEN Issuer
                     ELSE "manager" \in known /\ (NeedsCSRF => req.csrf = "right")
    /\ caller = Nobody => Bearers(req) # {} \/ req.cookie # "set" \/ "none" \in known \/ unsaid

SessionInv ==
    /\ pc \in {"keys", "asking", "told", "known"} => session \in known
    /\ pc \in {"asking", "told"} => Bearers(req) = {}
    /\ pc \in {"told", "known"} => caller \in Callers /\ CallerIsKnown
    /\ pc = "done" /\ status = "ok" =>
          caller \in Callers /\ CallerIsKnown /\ (req.op # "whoami" => caller.may)

IInv == TypeOK /\ RouteInv /\ SessionInv

-----------------------------------------------------------------------------
(* /verify                                                                 *)

\* An answer of handleVerify: its headers are good if it is ok.
LEMMA GoodAnswer ==
    ASSUME IInv, pc = "verify", NEW s, NEW h, Answer(s, h), h \in Headers,
           s \in {"ok", "unauthorized", "forbidden"}, s = "ok" => Good(h)
    PROVE  IInv'
<1>1. /\ pc' = "answered" /\ status' = s /\ headers' = h
      /\ UNCHANGED <<cfg, req, dbUp, caller, seen, session, known, unsaid>>
  BY DEF Answer
<1>2. TypeOK'
  BY <1>1 DEF IInv, TypeOK
<1>3. s = "ok" => Good(headers)'
  BY <1>1 DEF Good, Earned, Attributed, Unspoilt, Bearer, audMatches
<1>4. RouteInv'
  BY <1>1, <1>3 DEF IInv, RouteInv
<1>5. SessionInv'
  BY <1>1 DEF SessionInv
<1>6. QED
  BY <1>2, <1>4, <1>5 DEF IInv

LEMMA NoHeadersTyped ==
    /\ NoHeaders \in Headers
    /\ \A t \in Tokens :
          /\ t.who \in People /\ t.name \in Names \cup {None}
          /\ t.azp \in Apps \cup {None} /\ t.app \in Apps \cup {None}
          /\ t.kind \in {"hook", "amk", "aim", "jwt", "other"}
  BY DEF NoHeaders, Headers, Actors, Tokens

\* Anything that is not the proxy's bearer is good when it is the request's own.
LEMMA EchoIsGood ==
    ASSUME IInv, NEW a \in Fields \cup {None},
           req.route = "public" \/ a = Bearer
    PROVE  echoAuthorization(a) \in Headers /\ Good(echoAuthorization(a))
<1>1. a # Proxy
  BY FrontDoorAssumption DEF Fields
<1>2. echoAuthorization(a).Authorization = a /\ echoAuthorization(a) \in Headers
  BY DEF echoAuthorization, NoHeaders, Headers, Actors
<1>3. QED
  BY <1>1, <1>2 DEF Good, Earned, Attributed, Unspoilt

\* Headers of a credential that was validated, which is in their place.
LEMMA UpstreamIsGood ==
    ASSUME IInv, NEW t \in Tokens, t = Bearer, NEW h \in Headers,
           \/ t.kind = "hook" /\ req.route = "hook"
           \/ /\ t.kind = "jwt" /\ t.live /\ audMatches(t)
              /\ roleForRoute(req.route) \in t.roles,
           (h.Sub = None) = (h.Issuer = None),
           h.User = IF t.kind = "hook" THEN HookUser ELSE t.name,
           h.Sub \in {None, t.who}, h.Issuer \in {None, t.who},
           h.Client \in {None, t.azp, t.app}, h.Agent \in {None, t.azp, t.app},
           t.kind = "hook" =>
              h.Sub = None /\ h.Issuer = None /\ h.Client = None /\ h.Agent = None
    PROVE  /\ setUpstreamAuthorization(h, t) \in Headers
           /\ Good(setUpstreamAuthorization(h, t))
<1> DEFINE u == setUpstreamAuthorization(h, t)
<1>1. /\ u \in Headers /\ u.Authorization \in {Proxy, t}
      /\ u.User = h.User /\ u.Sub = h.Sub /\ u.Issuer = h.Issuer
      /\ u.Client = h.Client /\ u.Agent = h.Agent
  BY DEF setUpstreamAuthorization, Headers, Fields
<1>2. Earned(u)
  BY DEF Earned
<1>3. Attributed(u)
  BY <1>1 DEF Attributed, Claims
<1>4. Unspoilt(u)
  BY <1>1, FrontDoorAssumption DEF Unspoilt
<1>5. QED
  BY <1>1, <1>2, <1>3, <1>4 DEF Good

LEMMA KeyIsGood ==
    ASSUME IInv, NEW t \in Tokens, t = Bearer, t.live, t.kind = "amk",
           keyAllowsRoute(t.roles, req.route)
    PROVE  KeyHeaders(t) \in Headers /\ Good(KeyHeaders(t))
<1> DEFINE h == KeyHeaders(t)
<1>1. /\ h \in Headers /\ h.Authorization = Proxy /\ h.User = t.name
      /\ h.Sub \in {None, t.who} /\ h.Issuer = h.Sub /\ h.Client = None /\ h.Agent = None
  <2> DEFINE pair == IF "admin" \in t.roles /\ t.subject THEN t.who ELSE None
  <2>1. pair \in {None, t.who} /\ pair \in Actors
    BY NoHeadersTyped DEF Actors
  <2>2. t.name \in Actors
    BY NoHeadersTyped DEF Actors
  <2>3. h = [NoHeaders EXCEPT !.Authorization = Proxy, !.User = t.name, !.Issuer = pair,
                              !.Sub = pair]
    BY DEF KeyHeaders
  <2> HIDE DEF pair, h
  <2>4. QED
    BY <2>1, <2>2, <2>3 DEF NoHeaders, Headers, Actors
<1>2. QED
  BY <1>1, FrontDoorAssumption DEF Good, Earned, Attributed, Unspoilt, Claims

LEMMA VerifyGood == IInv /\ Verify => IInv'
<1> SUFFICES ASSUME IInv, Verify
             PROVE  IInv'
  OBVIOUS
<1>1. req \in Requests /\ req.to = "engine" /\ req.auth \in Auths /\ pc = "verify"
  <2>1. pc = "verify"
    BY DEF Verify, VerifyPublic, VerifyCookie, VerifyAmbiguous, VerifyHook, verifyConsumerKey,
           VerifyNative, VerifyUnknown, VerifyJWT, Machine
  <2>2. QED
    BY <2>1, RequestShape DEF IInv, TypeOK, RouteInv
<1>2. /\ Bearer \in Tokens \cup {Empty, None}
      /\ Presented = {Bearer}
  BY <1>1, ParsedBearer, FrontDoorAssumption DEF Bearer, Presented
<1>3. NoHeaders.Authorization = None
  BY DEF NoHeaders
<1>4. CASE VerifyPublic
  <2>1. (IF req.auth = <<>> THEN None ELSE req.auth[1]) \in Fields \cup {None}
    BY <1>1, FieldTypes
  <2>2. QED
    BY <1>1, <1>4, <2>1, EchoIsGood, GoodAnswer DEF VerifyPublic
<1>5. CASE VerifyCookie
  <2>1. Bearer = None
    BY <1>5 DEF VerifyCookie, Bearer
  <2>2. Good(NoHeaders)
    BY <1>3, <2>1, FrontDoorAssumption DEF Good, Earned, Attributed, Unspoilt
  <2>3. QED
    BY <1>1, <1>5, <2>2, NoHeadersTyped, GoodAnswer DEF VerifyCookie
<1>6. CASE VerifyAmbiguous
  BY <1>1, <1>6, NoHeadersTyped, GoodAnswer DEF VerifyAmbiguous
<1>7. ASSUME NEW t \in Presented,
             \/ VerifyHook(t) \/ verifyConsumerKey(t) \/ VerifyNative(t)
             \/ VerifyUnknown(t) \/ VerifyJWT(t)
      PROVE  IInv'
  <2>1. t = Bearer /\ t \in Tokens
    BY <1>2, <1>7 DEF VerifyHook, verifyConsumerKey, VerifyNative, VerifyUnknown, VerifyJWT, Machine
  <2>2. t \in Fields
    BY <2>1 DEF Fields
  <2>3. CASE VerifyHook(t)
    <3> DEFINE h == [NoHeaders EXCEPT !.User = HookUser]
    <3>1. /\ h \in Headers /\ h.User = HookUser
          /\ h.Sub = None /\ h.Issuer = None /\ h.Client = None /\ h.Agent = None
      BY FrontDoorAssumption DEF NoHeaders, Headers, Actors
    <3>2. t.kind = "hook" /\ req.route = "hook" /\ Answer("ok", setUpstreamAuthorization(h, t))
      BY <2>3 DEF VerifyHook, isHook
    <3>3. QED
      BY <1>1, <2>1, <3>1, <3>2, UpstreamIsGood, GoodAnswer
  <2>4. CASE verifyConsumerKey(t)
    BY <1>1, <2>1, <2>4, KeyIsGood, NoHeadersTyped, GoodAnswer
       DEF verifyConsumerKey, isConsumerKey
  <2>5. CASE VerifyNative(t)
    BY <1>1, <2>1, <2>2, <2>5, EchoIsGood, GoodAnswer DEF VerifyNative
  <2>6. CASE VerifyUnknown(t)
    BY <1>1, <2>1, <2>2, <2>6, EchoIsGood, NoHeadersTyped, GoodAnswer DEF VerifyUnknown, Passthrough
  <2>7. CASE VerifyJWT(t)
    <3> DEFINE h == propagateIdentityHeaders(t)
    <3>1. /\ h \in Headers /\ h.User = t.name /\ h.Client = t.azp /\ h.Agent \in {t.azp, t.app}
          /\ h.Sub \in {None, t.who} /\ h.Issuer = h.Sub
      <4> DEFINE pair == IF t.subject THEN t.who ELSE None
                 agent == IF t.app = None THEN t.azp ELSE t.app
      <4>1. pair \in {None, t.who} /\ agent \in {t.azp, t.app}
        OBVIOUS
      <4>2. /\ pair \in Actors /\ agent \in Actors /\ t.name \in Actors /\ t.azp \in Actors
        BY <2>1, NoHeadersTyped DEF Actors
      <4>3. h = [NoHeaders EXCEPT !.User = t.name, !.Sub = pair, !.Issuer = pair,
                                  !.Client = t.azp, !.Agent = agent]
        BY DEF propagateIdentityHeaders
      <4> HIDE DEF pair, agent, h
      <4>4. QED
        BY <4>1, <4>2, <4>3 DEF NoHeaders, Headers, Actors
    <3>2. t.kind = "jwt" /\ t.live
      BY <2>7 DEF VerifyJWT, parseJWT
    <3>3. CASE audMatches(t) /\ roleForRoute(req.route) \in t.roles
      <4>1. Answer("ok", setUpstreamAuthorization(h, t))
        BY <2>7, <3>3 DEF VerifyJWT
      <4>2. QED
        BY <1>1, <2>1, <3>1, <3>2, <3>3, <4>1, UpstreamIsGood, GoodAnswer
    <3>4. CASE ~(audMatches(t) /\ roleForRoute(req.route) \in t.roles)
      BY <1>1, <2>7, <3>4, NoHeadersTyped, GoodAnswer DEF VerifyJWT
    <3>5. QED
      BY <3>3, <3>4
  <2>8. QED
    BY <1>7, <2>3, <2>4, <2>5, <2>6, <2>7
<1>8. QED
  BY <1>4, <1>5, <1>6, <1>7 DEF Verify

-----------------------------------------------------------------------------
(* /keys                                                                   *)

LEMMA RefuseGood ==
    ASSUME IInv, pc \in {"keys", "asking", "told"}, NEW s, Refuse(s),
           s \in {"unauthorized", "forbidden", "not_found", "unavailable", "error"}
    PROVE  IInv'
<1>1. /\ pc' = "done" /\ status' = s
      /\ UNCHANGED <<cfg, req, dbUp, headers, caller, seen, session, known, unsaid>>
  BY DEF Refuse
<1>2. QED
  BY <1>1 DEF IInv, TypeOK, RouteInv, SessionInv

\* CallerIsKnown depends on nothing that a step of the same request changes.
LEMMA IdentifyGood ==
    ASSUME IInv, pc \in {"keys", "told"}, NEW c \in Callers, Identify(c),
           c.may => IF Bearers(req) # {} THEN Issuer
                    ELSE "manager" \in known /\ (NeedsCSRF => req.csrf = "right"),
           c = Nobody => Bearers(req) # {} \/ req.cookie # "set" \/ "none" \in known \/ unsaid
    PROVE  IInv'
<1>1. /\ pc' = "known" /\ caller' = c
      /\ UNCHANGED <<cfg, req, dbUp, status, headers, seen, session, known, unsaid>>
  BY DEF Identify
<1>2. TypeOK'
  BY <1>1 DEF IInv, TypeOK
<1>3. RouteInv'
  BY <1>1 DEF IInv, RouteInv
<1>4. CallerIsKnown'
  BY <1>1 DEF CallerIsKnown, Issuer, Bearer, NeedsCSRF
<1>5. SessionInv'
  BY <1>1, <1>4 DEF IInv, SessionInv
<1>6. QED
  BY <1>2, <1>3, <1>5 DEF IInv

LEMMA BearerGood ==
    ASSUME IInv, NEW t \in Presented, callerFromBearer(t)
    PROVE  IInv'
<1>1. pc = "keys" /\ req \in Requests /\ req.auth \in Auths
  BY RequestShape DEF callerFromBearer, IInv, TypeOK, RouteInv
<1>2. t = Bearer /\ t \in Tokens \cup {Empty} /\ Bearers(req) # {}
  BY <1>1, ParsedBearer, FrontDoorAssumption DEF Presented, Bearer, callerFromBearer
<1>3. Nobody \in Callers /\ ~Nobody.may
  BY DEF Nobody, Callers
<1>4. CASE Identify(Nobody)
  BY <1>1, <1>2, <1>3, <1>4, IdentifyGood
<1>5. CASE \E s \in {"unauthorized", "forbidden"} : Refuse(s)
  BY <1>1, <1>5, RefuseGood
<1>6. CASE /\ t \in Tokens /\ t.live /\ t.kind \in {"amk", "jwt"}
           /\ Identify([known |-> TRUE, may |-> mayIssue(t)])
  <2> DEFINE c == [known |-> TRUE, may |-> mayIssue(t)]
  <2>1. c \in Callers /\ c # Nobody /\ (c.may => Issuer)
    BY <1>2, <1>6 DEF Callers, Nobody, mayIssue, Issuer
  <2>2. QED
    BY <1>1, <1>2, <1>6, <2>1, IdentifyGood
<1>7. QED
  BY <1>4, <1>5, <1>6, <1>2, FrontDoorAssumption DEF callerFromBearer, Invalid, parseJWT

LEMMA SessionGood ==
    ASSUME IInv, \/ CallerWithout \/ callerFromSession \/ EngineAnswers \/ Told
                 \/ EngineSaysNothing \/ Disabled \/ EngineFails \/ Timeout
    PROVE  IInv'
<1>1. Nobody \in Callers /\ ~Nobody.may
  BY DEF Nobody, Callers
<1>2. pc \in {"keys", "asking", "told"} /\ req \in Requests /\ req.auth \in Auths
  <2>1. pc \in {"keys", "asking", "told"}
    BY DEF CallerWithout, callerFromSession, EngineAnswers, EngineSaysNothing, Told, Disabled,
           EngineFails, Timeout, TimeLimit
  <2>2. QED
    BY <2>1, RequestShape DEF IInv, TypeOK, RouteInv
<1>3. CASE CallerWithout
  BY <1>1, <1>3, IdentifyGood DEF CallerWithout
<1>4. CASE Disabled \/ EngineFails \/ Timeout
  BY <1>2, <1>4, RefuseGood DEF Disabled, EngineFails, Timeout, TimeLimit, IntrospectionFails
<1>5. CASE callerFromSession
  <2>1. pc = "keys" /\ Bearers(req) = {}
    BY <1>2, <1>5, ParsedBearer DEF callerFromSession
  <2>2. CASE \E s \in {"forbidden", "unavailable"} : Refuse(s)
    BY <2>1, <2>2, RefuseGood
  <2>3. CASE /\ pc' = "asking"
             /\ UNCHANGED <<cfg, req, dbUp, status, headers, caller, seen, session, known, unsaid>>
    BY <2>1, <2>3 DEF IInv, TypeOK, RouteInv, SessionInv
  <2>4. QED
    BY <1>5, <2>2, <2>3 DEF callerFromSession
<1>6. CASE EngineAnswers
  <2>1. pc = "asking" /\ Bearers(req) = {} /\ session \in known
    BY <1>6 DEF EngineAnswers, IInv, SessionInv
  <2>2. CASE Refuse("forbidden")
    BY <2>1, <2>2, RefuseGood
  <2>3. CASE /\ ~(NeedsCSRF /\ req.csrf # "right")
             /\ pc' = "told"
             /\ caller' = [known |-> session # "none", may |-> session = "manager"]
             /\ UNCHANGED <<cfg, req, dbUp, status, headers, seen, session, known, unsaid>>
    <3>1. caller' \in Callers
      BY <2>3 DEF Callers
    <3>2. CallerIsKnown'
      BY <2>1, <2>3 DEF CallerIsKnown, Nobody, NeedsCSRF, Bearers
    <3>3. Bearers(req)' = {}
      BY <2>1, <2>3 DEF Bearers
    <3>4. QED
      BY <2>1, <2>3, <3>1, <3>2, <3>3 DEF IInv, TypeOK, RouteInv, SessionInv
  <2>4. QED
    BY <1>6, <2>2, <2>3 DEF EngineAnswers, NeedsCSRF
<1>7. CASE Told
  BY <1>7, IdentifyGood DEF Told, IInv, SessionInv, CallerIsKnown
<1>8. CASE EngineSaysNothing
  <2>1. /\ pc = "asking" /\ pc' = "told" /\ caller' = Nobody /\ unsaid' = TRUE
        /\ UNCHANGED <<cfg, req, dbUp, status, headers, seen, session, known>>
    BY <1>8 DEF EngineSaysNothing
  <2>2. CallerIsKnown' /\ caller' \in Callers
    BY <1>1, <2>1 DEF CallerIsKnown
  <2>3. Bearers(req)' = {}
    BY <2>1 DEF IInv, SessionInv, Bearers
  <2>4. QED
    BY <2>1, <2>2, <2>3 DEF IInv, TypeOK, RouteInv, SessionInv
<1>9. QED
  BY <1>3, <1>4, <1>5, <1>6, <1>7, <1>8

-----------------------------------------------------------------------------
(* The other steps                                                         *)

LEMMA ForwardGood == IInv /\ Forward => IInv'
<1> SUFFICES ASSUME IInv, Forward
             PROVE  IInv'
  OBVIOUS
<1>1. /\ pc = "answered" /\ status = "ok" /\ pc' = "engine" /\ req.to = "engine"
      /\ UNCHANGED <<cfg, req, dbUp, status, headers, caller, session, known, unsaid>>
      /\ headers \in Headers /\ Good(headers)
  BY DEF Forward, IInv, TypeOK, RouteInv
<1>2. seen' = headers
  BY <1>1 DEF Forward, Copied, HeaderNames, Claims, Headers
<1>3. Good(seen)'
  BY <1>1, <1>2 DEF Good, Earned, Attributed, Unspoilt, Bearer, audMatches
<1>4. QED
  BY <1>1, <1>2, <1>3 DEF IInv, TypeOK, RouteInv, SessionInv

LEMMA StepIInv == IInv /\ [Next]_vars => IInv'
<1> SUFFICES ASSUME IInv, [Next]_vars
             PROVE  IInv'
  OBVIOUS
<1>1. CASE Arrive
  <2>1. req' \in Requests /\ req' # None /\ req'.to \in {"engine", "keys"}
    BY <1>1, RequestShape, FrontDoorAssumption DEF Arrive
  <2>2. QED
    BY <1>1, <2>1 DEF Arrive, IInv, TypeOK, RouteInv, SessionInv
<1>2. CASE Handle
  <2>1. /\ pc = "known" /\ caller \in Callers /\ CallerIsKnown
        /\ UNCHANGED <<cfg, req, dbUp, headers, caller, seen, session, known, unsaid>>
    BY <1>2 DEF Handle, IInv, SessionInv
  <2>2. status' \in {"ok", "forbidden", "error"} /\ pc' = "done"
        /\ (status' = "ok" /\ req.op # "whoami" => caller.may)
    BY <1>2 DEF Handle
  <2>3. CallerIsKnown'
    BY <2>1 DEF CallerIsKnown, Issuer, Bearer, NeedsCSRF
  <2>4. QED
    BY <2>1, <2>2, <2>3 DEF IInv, TypeOK, RouteInv, SessionInv
<1>3. CASE SessionChanges
  <2>1. /\ pc \in {"keys", "asking", "told", "known"} /\ known \subseteq known' /\ session' \in known'
        /\ session' \in Sessions /\ known' = known \cup {session'}
        /\ UNCHANGED <<cfg, pc, req, dbUp, status, headers, caller, seen, unsaid>>
    BY <1>3 DEF SessionChanges
  <2>2. CallerIsKnown => CallerIsKnown'
    BY <2>1 DEF CallerIsKnown, Issuer, Bearer, NeedsCSRF
  <2>3. Bearers(req)' = Bearers(req)
    BY <2>1 DEF Bearers
  <2>4. QED
    BY <2>1, <2>2, <2>3 DEF IInv, TypeOK, RouteInv, SessionInv
<1>4. CASE UNCHANGED vars
  <2>1. /\ Good(headers)' = Good(headers) /\ Good(seen)' = Good(seen)
        /\ CallerIsKnown' = CallerIsKnown /\ Bearers(req)' = Bearers(req)
    BY <1>4 DEF vars, Good, Earned, Attributed, Unspoilt, Bearer, audMatches, CallerIsKnown,
                Issuer, NeedsCSRF
  <2>2. QED
    BY <1>4, <2>1 DEF vars, IInv, TypeOK, RouteInv, SessionInv
<1>5. QED
  BY <1>1, <1>2, <1>3, <1>4, VerifyGood, BearerGood, SessionGood, ForwardGood DEF Next, Serve

LEMMA InitIInv == Init => IInv
  BY NoHeadersTyped, FrontDoorAssumption DEF Init, IInv, TypeOK, RouteInv, SessionInv, Callers

-----------------------------------------------------------------------------
(* Theorems                                                                *)

\* What mcp-auth and the edge have decided is justified by what the request carries
\* and by what its session was, at every step.
THEOREM Invariance == Spec => []IInv
<1>1. QED
  BY InitIInv, StepIInv, PTL DEF Spec

\* Every variable keeps its type.
THEOREM TypeCorrect == Spec => []TypeOK
<1>1. IInv => TypeOK
  BY DEF IInv
<1>2. QED
  BY <1>1, Invariance, PTL

\* The proxy's bearer goes out only for the one bearer of a request, validated for
\* its route.
THEOREM ProxyIsOnlyEarned == Spec => []ProxyIsEarned
<1>1. IInv => ProxyIsEarned
  <2> SUFFICES ASSUME IInv, AtEngine, seen.Authorization = Proxy
               PROVE  ProxyIsEarned
    BY DEF ProxyIsEarned
  <2>1. Earned(seen) /\ req \in Requests /\ req.auth \in Auths
    BY RequestShape DEF IInv, RouteInv, TypeOK, AtEngine, Good
  <2>2. \A i \in Bearers(req) : req.auth[i] = Bearer
    BY <2>1, ParsedBearer DEF Earned, Bearer
  <2>3. \A t : keyAllowsRoute(t.roles, req.route) =>
                  /\ req.route = "engine_admin" => "admin" \in t.roles
                  /\ t.roles = {"read"} => req.route = "get"
    BY DEF keyAllowsRoute
  <2>4. QED
    BY <2>1, <2>2, <2>3 DEF Earned, ProxyIsEarned, roleForRoute
<1>2. QED
  BY <1>1, Invariance, PTL

\* And the actor headers of the request are then what that bearer says, if anything.
THEOREM ActorsAreTrue == Spec => []ActorIsTheCredentials
<1>1. IInv => ActorIsTheCredentials
  BY DEF IInv, RouteInv, AtEngine, Good, Attributed, ActorIsTheCredentials, Rung
<1>2. QED
  BY <1>1, Invariance, PTL

\* The engine's own tokens and sessions reach it as the client sent them.
THEOREM OwnCredentialsReachTheEngine == Spec => []OwnCredentialsSurvive
<1>1. IInv => OwnCredentialsSurvive
  BY FrontDoorAssumption
     DEF IInv, RouteInv, AtEngine, Good, Unspoilt, OwnCredentialsSurvive, Rung
<1>2. QED
  BY <1>1, Invariance, PTL

\* Keys are administered only for who could issue them while the request was under way.
THEOREM IssuersOnly == Spec => []PerformedByAnIssuer
<1>1. IInv => PerformedByAnIssuer
  BY DEF IInv, SessionInv, CallerIsKnown, Issuer, NeedsCSRF, Performed, PerformedByAnIssuer
<1>2. QED
  BY <1>1, Invariance, PTL

\* A cookie without a bearer is "nobody" only if its session was gone, or if the engine
\* answered 200 and said nothing of it.
THEOREM NobodyIsTrue == Spec => []NobodyMeansNobody
<1>1. IInv => NobodyMeansNobody
  BY DEF IInv, SessionInv, CallerIsKnown, NobodyMeansNobody
<1>2. QED
  BY <1>1, Invariance, PTL

=============================================================================

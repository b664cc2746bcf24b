------------------------------ MODULE FrontDoor ------------------------------
(***************************************************************************)
(* images/mcp-auth: the way in.  The edge (Traefik, Caddy or nginx) asks   *)
(* /verify about each request to the engine, and forwards it with the      *)
(* headers of the answer.  Requests to /keys reach mcp-auth themselves;    *)
(* a caller there is known by a bearer token, or by a session cookie that  *)
(* the engine is asked about while sessions come and go.                   *)
(*                                                                         *)
(* The service keeps nothing between requests but its configuration and    *)
(* the key table, whose life is ConsumerKeys: one request at a time is     *)
(* followed here.  A header, token or name is a value; parsing them is     *)
(* what tells them apart.                                                  *)
(***************************************************************************)
EXTENDS Integers

CONSTANTS
    Configs,    \* environments the service boots with
    Requests,   \* requests the clients may send
    People,     \* the subjects of JWTs, and the owners of keys
    Names,      \* what X-Memory-Actor-User may say
    Apps,       \* OAuth clients
    HookUser,   \* HOOK_AUTH_USERNAME, None if it is not set
    Proxy,      \* the engine's trusted-proxy bearer
    Basic,      \* an Authorization field of another scheme than Bearer
    Empty,      \* a Bearer field without a token
    None        \* a header that is absent, no answer yet

Roles == {"read", "write", "admin"}

\* A bearer token: the static hook token, a consumer key (amk_), a native key of
\* the engine (aim_), a JWT, or a string mcp-auth knows nothing about.  `live`: it
\* is valid, for who validates it (the hook token is valid by being that string);
\* `roles`: realm roles or the scopes of a key; `subject`: it carries a sub claim,
\* the owner of a key is an issuer and a subject; `name`: its preferred_username,
\* or the actor_user that was written into the key when it was created; `azp` and
\* `app`: the claims azp and client_name.
Tokens == [kind : {"hook", "amk", "aim", "jwt", "other"}, who : People,
           name : Names \cup {None}, azp : Apps \cup {None}, app : Apps \cup {None},
           live : BOOLEAN, aud : BOOLEAN, roles : SUBSET Roles, subject : BOOLEAN]

\* Authorization and X-Memory-Actor-*.
Claims == {"User", "Sub", "Issuer", "Client", "Agent"}
HeaderNames == {"Authorization"} \cup Claims
NoHeaders == [Authorization |-> None, User |-> None, Sub |-> None, Issuer |-> None,
              Client |-> None, Agent |-> None]

\* "mcp_write" is POST, PUT, DELETE or PATCH below /mcp/write or /mcp/admin,
\* "mcp_change" PUT, DELETE or PATCH elsewhere below /wiki/mcp.
Routes == {"public", "hook", "get", "post", "mcp_write", "mcp_change", "engine_admin",
           "options"}
Ops == {"whoami", "list", "create", "revoke"}
isMutatingMethod(op) == op \in {"create", "revoke"}

\* What the sidecar validates with; whether the process serves at all.
Config == [oidc : BOOLEAN, keys : BOOLEAN, hook : BOOLEAN, upstream : BOOLEAN,
           aud : BOOLEAN, passthrough : BOOLEAN, internal : BOOLEAN,
           proxy : BOOLEAN, admins : SUBSET People]
Boots(c) == (c.oidc \/ c.keys) /\ (c.keys \/ c.internal => c.proxy)

\* `auth`: the Authorization fields in order, repeated or comma-separated.
\* `claimed`: the actor headers the client sent itself.
Fields == Tokens \cup {Basic, Empty}
Auths == {<<>>} \cup [1..1 -> Fields] \cup [1..2 -> Fields]
VerifyRequest == [to : {"engine"}, route : Routes, auth : Auths,
                  cookie : {"none", "empty", "set"}, claimed : Names \cup {None}]
KeyRequest == [to : {"keys"}, op : Ops, auth : Auths,
               cookie : {"none", "empty", "set"}, csrf : {"none", "wrong", "right"}]

ASSUME FrontDoorAssumption ==
    /\ Configs \subseteq {c \in Config : Boots(c)}
    /\ Requests \subseteq VerifyRequest \cup KeyRequest
    /\ Tokens \cap {Proxy, Basic, Empty, None} = {}
    /\ Proxy \notin {Basic, Empty, None} /\ Basic \notin {Empty, None} /\ Empty # None
    /\ None \notin People \cup Requests
    /\ HookUser \in Names \cup {None}

VARIABLES
    cfg,
    pc,
    req,
    dbUp,       \* statements on the key table succeed
    status,     \* the answer of mcp-auth, and its headers
    headers,
    caller,     \* /keys: who asks, and whether they may issue
    seen,       \* the request the engine gets: its headers
    session,    \* the engine's session behind the cookie
    known,      \* history: what that session was since the request arrived
    unsaid      \* history: the engine has answered without saying what it is

vars == <<cfg, pc, req, dbUp, status, headers, caller, seen, session, known, unsaid>>

Sessions == {"none", "user", "manager"}
Callers == [known : BOOLEAN, may : BOOLEAN]
Nobody == [known |-> FALSE, may |-> FALSE]
Actors == People \cup Names \cup Apps \cup {None}
Headers == [Authorization : Fields \cup {Proxy, None}, User : Actors, Sub : Actors,
            Issuer : Actors, Client : Actors, Agent : Actors]

TypeOK ==
    /\ cfg \in Configs
    /\ pc \in {"idle", "verify", "keys", "asking", "told", "known", "answered", "engine", "done"}
    /\ req \in Requests \cup {None}
    /\ dbUp \in BOOLEAN
    /\ status \in {None, "ok", "unauthorized", "forbidden", "not_found", "unavailable", "error"}
    /\ headers \in Headers
    /\ seen \in Headers
    /\ caller \in Callers \cup {None}
    /\ session \in Sessions
    /\ known \in SUBSET Sessions
    /\ unsaid \in BOOLEAN

Init ==
    /\ cfg \in Configs
    /\ pc = "idle"
    /\ req = None
    /\ dbUp = TRUE
    /\ status = None
    /\ headers = NoHeaders
    /\ seen = NoHeaders
    /\ caller = None
    /\ session \in Sessions
    /\ known = {}
    /\ unsaid = FALSE

Arrive ==
    /\ pc = "idle"
    /\ req' \in Requests
    /\ dbUp' \in BOOLEAN
    /\ pc' = IF req'.to = "engine" THEN "verify" ELSE "keys"
    /\ known' = {session}
    /\ UNCHANGED <<cfg, status, headers, caller, seen, session, unsaid>>

-----------------------------------------------------------------------------
(* Credentials                                                             *)

Bearers(r) == {i \in DOMAIN r.auth : r.auth[i] # Basic}

\* One Bearer attempt is a token; several are ambiguous and count as an empty
\* one; none is None, whatever other fields there are.
parseAuthorizationValues(r) ==
    IF Bearers(r) = {} THEN None
    ELSE IF \E i \in Bearers(r) : Bearers(r) = {i}
         THEN r.auth[CHOOSE i \in Bearers(r) : TRUE]
         ELSE Empty

Presented == IF req = None THEN {} ELSE {parseAuthorizationValues(req)}

parseJWT(t) == cfg.oidc /\ t.kind = "jwt" /\ t.live
audMatches(t) == cfg.aud => t.aud
roleForRoute(route) == IF route = "mcp_write" THEN "write" ELSE "read"

keyAllowsRoute(scopes, route) ==
    \/ "admin" \in scopes
    \/ "write" \in scopes /\ route \in {"get", "hook", "post", "mcp_write", "mcp_change"}
    \/ "read" \in scopes /\ route = "get"

-----------------------------------------------------------------------------
(* handleVerify: the branches in the order of their early returns           *)

Answer(s, h) ==
    /\ pc' = "answered"
    /\ status' = s
    /\ headers' = h
    /\ UNCHANGED <<cfg, req, dbUp, caller, seen, session, known, unsaid>>

NoEcho(original) == NoHeaders                                    \* mutant
UpstreamInUser(h, original) == [h EXCEPT !.User = Proxy]         \* mutant
echoAuthorization(original) == [NoHeaders EXCEPT !.Authorization = original]
setUpstreamAuthorization(h, original) ==
    [h EXCEPT !.Authorization = IF cfg.upstream THEN Proxy ELSE original]

VerifyPublic ==
    /\ pc = "verify"
    /\ req.route = "public"
    /\ Answer("ok", echoAuthorization(IF req.auth = <<>> THEN None ELSE req.auth[1]))

\* No Bearer attempt: a session cookie is for the engine to judge, and any other
\* Authorization is dropped.
VerifyCookie ==
    /\ pc = "verify"
    /\ req.route # "public"
    /\ parseAuthorizationValues(req) = None
    /\ Answer(IF req.cookie = "none" THEN "unauthorized" ELSE "ok", NoHeaders)

VerifyAmbiguous ==
    /\ pc = "verify"
    /\ req.route # "public"
    /\ parseAuthorizationValues(req) = Empty
    /\ Answer("unauthorized", NoHeaders)

Machine(t) ==
    /\ pc = "verify"
    /\ req.route # "public"
    /\ t \in Tokens

isHook(t) == cfg.hook /\ t.kind = "hook" /\ req.route = "hook"

VerifyHook(t) ==
    /\ Machine(t)
    /\ isHook(t)
    /\ Answer("ok", setUpstreamAuthorization([NoHeaders EXCEPT !.User = HookUser], t))

isConsumerKey(t) == cfg.keys /\ t.kind = "amk"

\* The name is what whoever created the key wrote there, the pair its owner.
KeyHeaders(t) ==
    LET pair == IF "admin" \in t.roles /\ t.subject THEN t.who ELSE None IN
    [NoHeaders EXCEPT !.Authorization = Proxy, !.User = t.name, !.Issuer = pair, !.Sub = pair]

verifyConsumerKey(t) ==
    /\ Machine(t)
    /\ isConsumerKey(t)
    /\ IF ~dbUp \/ ~t.live THEN Answer("unauthorized", NoHeaders)
       ELSE IF ~keyAllowsRoute(t.roles, req.route) THEN Answer("forbidden", NoHeaders)
       ELSE Answer("ok", KeyHeaders(t))

VerifyNative(t) ==
    /\ Machine(t)
    /\ t.kind = "aim"
    /\ Answer("ok", echoAuthorization(t))

Unknown(t) == ~isHook(t) /\ ~isConsumerKey(t) /\ t.kind # "aim" /\ ~parseJWT(t)

PassthroughInjects(t) == setUpstreamAuthorization(NoHeaders, t)  \* mutant
Passthrough(t) == echoAuthorization(t)

VerifyUnknown(t) ==
    /\ Machine(t)
    /\ Unknown(t)
    /\ IF cfg.passthrough THEN Answer("ok", Passthrough(t))
       ELSE Answer("unauthorized", NoHeaders)

propagateIdentityHeaders(t) ==
    LET pair == IF t.subject THEN t.who ELSE None IN
    [NoHeaders EXCEPT !.User = t.name, !.Sub = pair, !.Issuer = pair, !.Client = t.azp,
                      !.Agent = IF t.app = None THEN t.azp ELSE t.app]

VerifyJWT(t) ==
    /\ Machine(t)
    /\ parseJWT(t)
    /\ IF ~audMatches(t) THEN Answer("unauthorized", NoHeaders)
       ELSE IF roleForRoute(req.route) \notin t.roles THEN Answer("forbidden", NoHeaders)
       ELSE Answer("ok", setUpstreamAuthorization(propagateIdentityHeaders(t), t))

Verify ==
    \/ VerifyPublic \/ VerifyCookie \/ VerifyAmbiguous
    \/ \E t \in Presented :
          \/ VerifyHook(t) \/ verifyConsumerKey(t) \/ VerifyNative(t)
          \/ VerifyUnknown(t) \/ VerifyJWT(t)

-----------------------------------------------------------------------------
(* The edge and the engine                                                 *)

NoIssuer == HeaderNames \ {"Issuer"}                             \* mutant
\* authResponseHeaders, copy_headers: what the answer omits is deleted.
Copied == HeaderNames

Sent(h) ==
    IF h # "Authorization" THEN req.claimed
    ELSE IF req.auth = <<>> THEN None ELSE req.auth[1]

Forward ==
    /\ pc = "answered"
    /\ req.to = "engine"
    /\ status = "ok"
    /\ pc' = "engine"
    /\ LET Get(h) == IF h \in Copied THEN headers[h] ELSE Sent(h) IN
       seen' = [Authorization |-> Get("Authorization"), User |-> Get("User"),
                Sub |-> Get("Sub"), Issuer |-> Get("Issuer"), Client |-> Get("Client"),
                Agent |-> Get("Agent")]
    /\ UNCHANGED <<cfg, req, dbUp, status, headers, caller, session, known, unsaid>>

\* The engine's own authentication: its trusted proxy may assert an actor, with
\* issuer and subject or neither; a token of its own speaks for itself, and so
\* does a session when there is no Authorization.
Rung ==
    IF seen.Authorization = Proxy
    THEN IF (seen.Sub = None) = (seen.Issuer = None) THEN "proxy" ELSE "bad_request"
    ELSE IF seen.Authorization \in Tokens
         THEN IF seen.Authorization.kind \in {"aim", "other"} /\ seen.Authorization.live
              THEN "own" ELSE "unauthorized"
    ELSE IF seen.Authorization = None /\ req.cookie = "set" THEN "session"
    ELSE "unauthorized"

-----------------------------------------------------------------------------
(* /keys: callerIdentity                                                   *)

Refuse(s) ==
    /\ pc' = "done"
    /\ status' = s
    /\ UNCHANGED <<cfg, req, dbUp, headers, caller, seen, session, known, unsaid>>

Identify(c) ==
    /\ pc' = "known"
    /\ caller' = c
    /\ UNCHANGED <<cfg, req, dbUp, status, headers, seen, session, known, unsaid>>

\* errInvalidConsumerKey: whoami says that this is nobody.
Invalid == IF req.op = "whoami" THEN Identify(Nobody) ELSE Refuse("unauthorized")

AnyJWT(t) == "admin" \in t.roles \/ t.kind = "jwt"               \* mutant
\* The scope of a key; the role of a JWT, or its subject in KEYS_ADMIN_SUBJECTS.
mayIssue(t) == "admin" \in t.roles \/ (t.kind = "jwt" /\ t.who \in cfg.admins)

callerFromBearer(t) ==
    /\ pc = "keys" /\ cfg.keys
    /\ t # None
    /\ IF t \notin Tokens THEN Identify(Nobody)
       ELSE IF t.kind = "aim" THEN Refuse("forbidden")
       ELSE IF t.kind = "amk"
            THEN IF dbUp /\ t.live THEN Identify([known |-> TRUE, may |-> mayIssue(t)])
                 ELSE Invalid
       ELSE IF parseJWT(t) /\ audMatches(t) /\ t.subject
            THEN Identify([known |-> TRUE, may |-> mayIssue(t)])
            ELSE Identify(Nobody)

CallerWithout ==
    /\ pc = "keys" /\ cfg.keys
    /\ parseAuthorizationValues(req) = None
    /\ req.cookie # "set"
    /\ Identify(Nobody)

\* A mutating request needs a CSRF token; introspection needs an engine to ask.
callerFromSession ==
    /\ pc = "keys" /\ cfg.keys
    /\ parseAuthorizationValues(req) = None
    /\ req.cookie = "set"
    /\ IF isMutatingMethod(req.op) /\ req.csrf = "none" THEN Refuse("forbidden")
       ELSE IF ~cfg.internal THEN Refuse("unavailable")
       ELSE /\ pc' = "asking"
            /\ UNCHANGED <<cfg, req, dbUp, status, headers, caller, seen, session, known, unsaid>>

\* The engine answers, from the session as it is at that moment.
EngineAnswers ==
    /\ pc = "asking"
    /\ IF isMutatingMethod(req.op) /\ req.csrf # "right" THEN Refuse("forbidden")
       ELSE /\ pc' = "told"
            /\ caller' = [known |-> session # "none", may |-> session = "manager"]
            /\ UNCHANGED <<cfg, req, dbUp, status, headers, seen, session, known, unsaid>>

\* A 200 with JSON that says nothing of the session ({} or null, say) decodes to an
\* answer like any other: not authenticated.
EngineSaysNothing ==
    /\ pc = "asking"
    /\ pc' = "told"
    /\ caller' = Nobody
    /\ unsaid' = TRUE
    /\ UNCHANGED <<cfg, req, dbUp, status, headers, seen, session, known>>

Told == pc = "told" /\ Identify(caller)

\* KEYS_DB is not set: 404.
Disabled == pc = "keys" /\ ~cfg.keys /\ Refuse("not_found")

\* Mutant: an engine that cannot be reached, or parsed, knows nobody.
FailsOpen == Identify(Nobody)
\* A transport error, a redirect, another status, a body that cannot be read or
\* parsed, an authenticated session without a name.
IntrospectionFails == Refuse("unavailable")

\* A 403 is taken for a missing CSRF token, whatever it was for.
EngineFails ==
    \/ pc \in {"asking", "told"} /\ IntrospectionFails
    \/ pc = "asking" /\ Refuse("forbidden")

WaitsForEver == FALSE                                            \* mutant
\* engineInternalTimeout: two seconds for the whole exchange.
TimeLimit == pc \in {"asking", "told"}
Timeout == TimeLimit /\ IntrospectionFails

\* requireIssuer, then the handler (ConsumerKeys); whoami answers anybody.
Handle ==
    /\ pc = "known"
    /\ pc' = "done"
    /\ status' = IF req.op = "whoami" THEN "ok"
                 ELSE IF ~caller.may THEN "forbidden"
                 ELSE IF dbUp THEN "ok" ELSE "error"
    /\ UNCHANGED <<cfg, req, dbUp, headers, caller, seen, session, known, unsaid>>

-----------------------------------------------------------------------------
(* Who logs in and out, and what a session may do, changes at any time.      *)

SessionChanges ==
    /\ pc \in {"keys", "asking", "told", "known"}
    /\ session' \in Sessions \ {session}
    /\ known' = known \cup {session'}
    /\ UNCHANGED <<cfg, pc, req, dbUp, status, headers, caller, seen, unsaid>>

Serve ==
    \/ Verify
    \/ \E t \in Presented : callerFromBearer(t)
    \/ Disabled \/ CallerWithout \/ callerFromSession \/ Told \/ Handle

Next ==
    \/ Arrive \/ Serve \/ Forward
    \/ EngineAnswers \/ EngineSaysNothing \/ EngineFails \/ Timeout
    \/ SessionChanges

Spec == Init /\ [][Next]_vars

\* The service takes its steps and the timer fires; the engine may never answer.
FairSpec == Spec /\ WF_vars(Serve) /\ WF_vars(Timeout)

-----------------------------------------------------------------------------
(* Properties                                                              *)

Bearer == parseAuthorizationValues(req)
AtEngine == pc = "engine"

\* README "/verify -- flow": the proxy's bearer goes out for credentials that
\* mcp-auth has validated itself and for this route, and for nothing else a
\* request carries: not for an echo, a cookie, a key of the engine, or the second
\* of two tokens.  (What a route takes of a JWT is what the code asks: mcp:write
\* below /mcp/write and /mcp/admin, mcp:read for all else.  Of the routes that
\* change something under /wiki/mcp the README asks more: ChangesNeedWriteRole.)
ProxyIsEarned ==
    AtEngine /\ seen.Authorization = Proxy =>
        /\ \A i \in Bearers(req) : req.auth[i] = Bearer
        /\ Bearer \in Tokens
        /\ \/ Bearer.kind = "hook" /\ req.route = "hook"
           \/ /\ Bearer.kind = "amk" /\ Bearer.live
              /\ req.route = "engine_admin" => "admin" \in Bearer.roles
              /\ Bearer.roles = {"read"} => req.route = "get"
           \/ /\ Bearer.kind = "jwt" /\ Bearer.live /\ audMatches(Bearer)
              /\ (IF req.route = "mcp_write" THEN "write" ELSE "read") \in Bearer.roles

\* README "Route -> role mapping", "DELETE|PUT|PATCH /wiki/mcp/... -> mcp:write" (and
\* POST below write/ and admin/): with a JWT, what changes something there needs the
\* role for it.  Refuted: see the README.
ChangesNeedWriteRole ==
    AtEngine /\ Bearer \in Tokens /\ parseJWT(Bearer) /\ req.route \in {"mcp_write", "mcp_change"} =>
        "write" \in Bearer.roles

\* The engine is told of a proxied request what its credential says, and no more,
\* whatever actor headers the client sent: a header that the credential does not
\* fill reaches the engine empty, and the engine never has to refuse half of an
\* issuer and subject pair.  What it says of the user need not be its subject: a
\* JWT may name none, a key the name that was written into it.
ActorIsTheCredentials ==
    AtEngine /\ seen.Authorization = Proxy =>
        /\ Rung = "proxy"
        /\ seen.User = IF Bearer.kind = "hook" THEN HookUser ELSE Bearer.name
        /\ \A h \in {"Sub", "Issuer"} : seen[h] \in {None, Bearer.who}
        /\ \A h \in {"Client", "Agent"} : seen[h] \in {None, Bearer.azp, Bearer.app}
        /\ Bearer.kind = "hook" => \A h \in Claims \ {"User"} : seen[h] = None
        /\ Bearer.kind = "amk" => seen.Client = None /\ seen.Agent = None

\* Credentials that are the engine's survive an edge that deletes what the answer
\* omits: a request is judged there by its one bearer, or by its session.
OwnCredentialsSurvive ==
    AtEngine /\ req.route # "public" =>
        /\ Bearer # None /\ seen.Authorization # Proxy => seen.Authorization = Bearer
        /\ Bearer = None => seen.Authorization = None
        /\ Bearer = None /\ req.cookie = "set" => Rung = "session"

Performed == pc = "done" /\ req.to = "keys" /\ status = "ok" /\ req.op # "whoami"

\* Keys are listed, created and revoked for somebody who could: by the one bearer
\* if there is an attempt at one, valid or not, and otherwise by a session that was
\* a manager's after the request arrived, never by what it had been before.
PerformedByAnIssuer ==
    Performed =>
        IF Bearers(req) # {}
        THEN /\ Bearer \in Tokens /\ Bearer.live /\ Bearer.kind \in {"amk", "jwt"}
             /\ "admin" \in Bearer.roles \/ (Bearer.kind = "jwt" /\ Bearer.who \in cfg.admins)
        ELSE /\ "manager" \in known
             /\ isMutatingMethod(req.op) => req.csrf = "right"

\* An engine that is unavailable or slow, redirects, or answers what does not parse
\* is never taken for one that says the session is nobody's: a cookie without a
\* bearer is "nobody" only if the session was gone, or if the engine said 200 and
\* nothing of it.  (README, "a bad introspect response fails closed (503), never as
\* anonymous", excepts no such answer: see the README of this model.)
NobodyMeansNobody ==
    pc = "done" /\ req.to = "keys" /\ status = "ok" /\ caller = Nobody =>
        \/ Bearers(req) # {}
        \/ req.cookie # "set"
        \/ "none" \in known
        \/ unsaid

\* Every request is answered, by an engine that never is, too.
EveryRequestIsAnswered == (pc \in {"verify", "keys", "asking", "told", "known"}) ~>
                          (pc \in {"answered", "engine", "done"})

=============================================================================

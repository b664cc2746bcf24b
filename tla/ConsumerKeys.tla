----------------------------- MODULE ConsumerKeys -----------------------------
(***************************************************************************)
(* images/mcp-auth, keys.go: consumer keys (amk_) in a SQLite table.       *)
(* Operators create and revoke keys, Traefik's forward-auth verifies them. *)
(* Every request is a goroutine; the only shared state is the table, which *)
(* one connection serialises statement by statement: a handler holds what  *)
(* it read while other requests write.  A successful verify records its    *)
(* time in a goroutine of its own.  The process may die between any two    *)
(* steps; committed rows survive.                                          *)
(*                                                                         *)
(* A request is handled once.  A secret is 160 random bits, so the one a   *)
(* create makes is identified with that request.                           *)
(***************************************************************************)
EXTENDS Naturals

CONSTANTS
    Requests,
    KeyIds,        \* names operators give to keys
    Owners,        \* identities a JWT or an engine session proves
    ScopeSets,     \* the scope lists that are asked for
    None,          \* SQL NULL, a missing row, no value
    MaxTime        \* bound: the clock, in seconds

Scopes == {"read", "write", "admin"}

Time == 0..MaxTime
Key == [secret : Requests, owner : Owners, scopes : ScopeSets, created : Time,
        expires : Time \cup {None}, revoked : Time \cup {None},
        lastUsed : Time \cup {None}]

ASSUME KeysAssumption ==
    /\ ScopeSets \subseteq (SUBSET Scopes) \ {{}}
    /\ None \notin Requests \cup KeyIds \cup Owners \cup Nat \cup Key
    /\ MaxTime \in Nat

VARIABLES
    store,      \* the table consumer_keys, by id
    now,        \* time.Now().Unix()
    pc,         \* where each request is
    req,        \* what each request asks for, and who asks
    body,       \* the body of a create, the id of a revoke
    rec,        \* the row a request has read
    stamp,      \* the time a request has read for the row it writes
    touch,      \* the goroutine touchLastUsed of each verify
    delivered,  \* secrets some client has received
    acked,      \* history: secrets whose revocation was answered
    arrived     \* history: the time, the secrets stored and those in `acked`
                \* when each request arrived

vars == <<store, now, pc, req, body, rec, stamp, touch, delivered, acked, arrived>>

-----------------------------------------------------------------------------

\* What a caller presents: an amk_ secret, or a JWT or session that proves an
\* identity, with or without the privilege to issue keys.  Who proves none (hook
\* token, native key, invalid JWT, session without CSRF token, introspection
\* unavailable) is refused like an identity without the privilege.
Creds == [kind : {"key"}, secret : Requests \cup {None}]
         \cup [kind : {"identity"}, who : Owners, canIssue : BOOLEAN]

Inputs == {i \in [op : {"create", "revoke", "verify"}, cred : Creds] :
             i.op = "verify" => i.cred.kind = "key"}

\* A body that is refused for another reason is like one that expired.
Bodies == [id : KeyIds, scopes : ScopeSets, expires : Time \cup {None}]
          \cup [id : KeyIds]

\* What forward-auth sees of a request: method and path.
Routes == {"engine_admin", "hook", "get", "post", "options"}

InFlight == {"lookup", "decide", "validate", "get", "insert", "revoke", "reply"}
Answered == {"ok", "refused", "lost"}

TypeOK ==
    /\ store \in [KeyIds -> Key \cup {None}]
    /\ now \in Time
    /\ pc \in [Requests -> {"new"} \cup InFlight \cup Answered]
    /\ req \in [Requests -> Inputs \cup {None}]
    /\ body \in [Requests -> Bodies \cup {None}]
    /\ rec \in [Requests -> Key \cup {None}]
    /\ stamp \in [Requests -> Time]
    /\ touch \in [Requests -> {"none", "spawned", "stamped", "done"}]
    /\ delivered \in SUBSET Requests
    /\ acked \in SUBSET Requests
    /\ arrived \in [Requests -> [at : Time, stored : SUBSET Requests,
                                 acked : SUBSET Requests]]

Init ==
    /\ store = [i \in KeyIds |-> None]
    /\ now = 0
    /\ pc = [r \in Requests |-> "new"]
    /\ req = [r \in Requests |-> None]
    /\ body = [r \in Requests |-> None]
    /\ rec = [r \in Requests |-> None]
    /\ stamp = [r \in Requests |-> 0]
    /\ touch = [r \in Requests |-> "none"]
    /\ delivered = {}
    /\ acked = {}
    /\ arrived = [r \in Requests |-> [at |-> 0, stored |-> {}, acked |-> {}]]

Rows == {store[i] : i \in KeyIds} \ {None}
Goto(r, l) == pc' = [pc EXCEPT ![r] = l]
\* The handler returns, and what it has read is gone.
Return(r, l) ==
    /\ Goto(r, l)
    /\ rec' = [rec EXCEPT ![r] = None]
    /\ stamp' = [stamp EXCEPT ![r] = 0]

-----------------------------------------------------------------------------
(* handleKeys, /verify                                                     *)

\* A request arrives.  A client can only present a secret it was given, or one
\* that no key has.
Receive(r) ==
    /\ pc[r] = "new"
    /\ \E i \in Inputs :
        /\ i.cred.kind = "key" => i.cred.secret \in delivered \cup {None}
        /\ req' = [req EXCEPT ![r] = i]
        /\ Goto(r, IF i.cred.kind = "key" THEN "lookup" ELSE "decide")
    /\ arrived' = [arrived EXCEPT ![r] =
            [at |-> now, stored |-> {k.secret : k \in Rows}, acked |-> acked]]
    /\ UNCHANGED <<store, now, body, rec, stamp, touch, delivered, acked>>

\* lookupBySecret; a database error refuses the request.
Lookup(r) ==
    /\ pc[r] = "lookup"
    /\ \/ /\ rec' = [rec EXCEPT ![r] =
                IF \E k \in Rows : k.secret = req[r].cred.secret
                THEN CHOOSE k \in Rows : k.secret = req[r].cred.secret
                ELSE None]
          /\ Goto(r, "decide")
          /\ UNCHANGED stamp
       \/ Return(r, "refused")
    /\ UNCHANGED <<store, now, req, body, touch, delivered, acked, arrived>>

ExpiresLate(k) == k.expires # None /\ k.expires < now            \* mutant
\* expired
IsExpired(k) == k.expires # None /\ k.expires <= now
IgnoreRevoked(k) == k # None /\ ~IsExpired(k)                    \* mutant
Usable(k) == k # None /\ k.revoked = None /\ ~IsExpired(k)

\* keyAllowsRoute: admin includes write, write includes read.
Allows(scopes, route) ==
    \/ "admin" \in scopes
    \/ "write" \in scopes /\ route \in {"hook", "post", "get"}
    \/ "read" \in scopes /\ route = "get"

\* verifyConsumerKey answers 200 with the key's identity and spawns
\* touchLastUsed, or 401 or 403.
Verify(r) ==
    /\ pc[r] = "decide"
    /\ req[r].op = "verify"
    /\ \E route \in Routes :
        IF Usable(rec[r]) /\ Allows(rec[r].scopes, route)
        THEN /\ Goto(r, "ok")
             /\ touch' = [touch EXCEPT ![r] = "spawned"]
             /\ UNCHANGED <<rec, stamp>>
        ELSE Return(r, "refused") /\ UNCHANGED touch
    /\ UNCHANGED <<store, now, req, body, delivered, acked, arrived>>

AnyKeyIssues(r) ==                                               \* mutant
    LET c == req[r].cred IN
    IF c.kind = "key" THEN Usable(rec[r]) ELSE c.canIssue
RevokeIsOpen(r) ==                                               \* mutant
    LET c == req[r].cred IN
    \/ req[r].op = "revoke"
    \/ IF c.kind = "key" THEN Usable(rec[r]) /\ "admin" \in rec[r].scopes ELSE c.canIssue
\* callerIdentity, requireIssuer: the caller is identified and may issue.
CanIssue(r) ==
    LET c == req[r].cred IN
    IF c.kind = "key" THEN Usable(rec[r]) /\ "admin" \in rec[r].scopes ELSE c.canIssue

\* Mutant: the issuing key, not its owner.
KeyIsOwner(r) ==
    IF req[r].cred.kind = "key" THEN req[r].cred.secret ELSE req[r].cred.who
\* The identity a new key belongs to: a key passes its own owner on.
CallerOwner(r) ==
    IF req[r].cred.kind = "key" THEN rec[r].owner ELSE req[r].cred.who

Authorize(r) ==
    /\ pc[r] = "decide"
    /\ req[r].op # "verify"
    /\ \/ CanIssue(r) /\ req[r].op = "create" /\ Goto(r, "validate")
          /\ UNCHANGED <<body, rec, stamp>>
       \/ /\ CanIssue(r) /\ req[r].op = "revoke" /\ Goto(r, "revoke")
          /\ \E i \in KeyIds : body' = [body EXCEPT ![r] = [id |-> i]]
          /\ stamp' = [stamp EXCEPT ![r] = now]
          /\ UNCHANGED rec
       \/ ~CanIssue(r) /\ Return(r, "refused") /\ UNCHANGED body
    /\ UNCHANGED <<store, now, req, touch, delivered, acked, arrived>>

-----------------------------------------------------------------------------
(* handleCreateKey                                                         *)

\* The body: id, actor, scopes, and an expiry in the future.
Validate(r) ==
    /\ pc[r] = "validate"
    /\ \/ /\ \E i \in KeyIds, s \in ScopeSets, e \in Time \cup {None} :
                /\ e # None => e > now
                /\ body' = [body EXCEPT ![r] = [id |-> i, scopes |-> s, expires |-> e]]
          /\ Goto(r, "get")
          /\ UNCHANGED <<rec, stamp>>
       \/ Return(r, "refused") /\ UNCHANGED body
    /\ UNCHANGED <<store, now, req, touch, delivered, acked, arrived>>

\* getByID finds nothing; then the secret and created_at of the new row.
GetByID(r) ==
    /\ pc[r] = "get"
    /\ store[body[r].id] = None
    /\ Goto(r, "insert")
    /\ stamp' = [stamp EXCEPT ![r] = now]
    /\ UNCHANGED <<store, now, req, body, rec, touch, delivered, acked, arrived>>

Overwrite(id) == TRUE                                            \* mutant
\* The PRIMARY KEY constraint of INSERT.
Vacant(id) == store[id] = None

Insert(r) ==
    /\ pc[r] = "insert"
    /\ Vacant(body[r].id)
    /\ store' = [store EXCEPT ![body[r].id] =
            [secret |-> r, owner |-> CallerOwner(r), scopes |-> body[r].scopes,
             created |-> stamp[r], expires |-> body[r].expires, revoked |-> None,
             lastUsed |-> None]]
    /\ Goto(r, "reply")
    /\ UNCHANGED <<now, req, body, rec, stamp, touch, delivered, acked, arrived>>

\* 409 when the id is taken, already or by a faster create; 500 when a statement
\* of a create or a revoke fails.
Fail(r) ==
    /\ pc[r] \in {"get", "insert", "revoke"}
    /\ Return(r, "refused")
    /\ UNCHANGED <<store, now, req, body, touch, delivered, acked, arrived>>

-----------------------------------------------------------------------------
(* handleRevokeKey, touchLastUsed                                          *)

\* UPDATE ... WHERE revoked_at IS NULL: the first revocation stays.
Revoked(k, t) == [k EXCEPT !.revoked = IF @ = None THEN t ELSE @]

\* A missing row is no error.
Revoke(r) ==
    /\ pc[r] = "revoke"
    /\ LET i == body[r].id IN
       store' = IF store[i] = None THEN store
                ELSE [store EXCEPT ![i] = Revoked(@, stamp[r])]
    /\ Goto(r, "reply")
    /\ UNCHANGED <<now, req, body, rec, stamp, touch, delivered, acked, arrived>>

\* 201 with the secret, shown this once, or 204.
Reply(r) ==
    /\ pc[r] = "reply"
    /\ Return(r, "ok")
    /\ IF req[r].op = "create"
       THEN delivered' = delivered \cup {r} /\ UNCHANGED acked
       ELSE /\ acked' = acked \cup (arrived[r].stored \cap
                    {k.secret : k \in {store[body[r].id]} \ {None}})
            /\ UNCHANGED delivered
    /\ UNCHANGED <<store, now, req, body, touch, arrived>>

\* The goroutine reads the clock, then waits for the connection.
StampTouch(r) ==
    /\ touch[r] = "spawned"
    /\ touch' = [touch EXCEPT ![r] = "stamped"]
    /\ stamp' = [stamp EXCEPT ![r] = now]
    /\ UNCHANGED <<store, now, pc, req, body, rec, delivered, acked, arrived>>

WriteBack(k, r) == [rec[r] EXCEPT !.lastUsed = stamp[r]]          \* mutant
\* UPDATE ... SET last_used_at: no other column.
Touched(k, r) == [k EXCEPT !.lastUsed = stamp[r]]

\* An error is only logged.
Touch(r) ==
    /\ touch[r] = "stamped"
    /\ touch' = [touch EXCEPT ![r] = "done"]
    /\ store' \in {store, [i \in KeyIds |->
            IF store[i] # None /\ store[i].secret = rec[r].secret
            THEN Touched(store[i], r) ELSE store[i]]}
    /\ Return(r, pc[r])
    /\ UNCHANGED <<now, req, body, delivered, acked, arrived>>

-----------------------------------------------------------------------------

Tick ==
    /\ now < MaxTime
    /\ now' = now + 1
    /\ UNCHANGED <<store, pc, req, body, rec, stamp, touch, delivered, acked, arrived>>

\* The process dies with what it was doing; the clients get no answer.
Crash ==
    /\ \E r \in Requests : pc[r] \in InFlight \/ touch[r] \in {"spawned", "stamped"}
    /\ pc' = [r \in Requests |-> IF pc[r] \in InFlight THEN "lost" ELSE pc[r]]
    /\ touch' = [r \in Requests |-> IF touch[r] \in {"spawned", "stamped"} THEN "none"
                                    ELSE touch[r]]
    /\ rec' = [r \in Requests |-> None]
    /\ stamp' = [r \in Requests |-> 0]
    /\ UNCHANGED <<store, now, req, body, delivered, acked, arrived>>

Step(r) ==
    \/ Receive(r) \/ Lookup(r) \/ Verify(r) \/ Authorize(r)
    \/ Validate(r) \/ GetByID(r) \/ Insert(r) \/ Fail(r)
    \/ Revoke(r) \/ Reply(r) \/ StampTouch(r) \/ Touch(r)

Next == (\E r \in Requests : Step(r)) \/ Tick \/ Crash

Spec == Init /\ [][Next]_vars

-----------------------------------------------------------------------------
(* Properties                                                              *)

\* Once a revocation is answered with 204, no request that arrives later gets
\* anything with the key that was there when the revocation arrived: neither a
\* verify nor a create or revoke.  (Of a key created at the same time a 204 says
\* nothing: its row may come after the UPDATE.)
RevokeIsFinal ==
    \A r \in Requests : pc[r] = "ok" /\ req[r].cred.kind = "key" =>
        req[r].cred.secret \notin arrived[r].acked

\* Nor does a request that arrives when the key has expired, to the second.
ExpiryIsFinal ==
    \A r \in Requests : pc[r] = "ok" /\ req[r].cred.kind = "key" =>
        \E k \in Rows : /\ k.secret = req[r].cred.secret
                        /\ k.expires # None => arrived[r].at < k.expires

\* A secret that was handed out stays the secret of its id: creates that race
\* for one id, crashes and retries never give two clients the same id.
AnsweredKeysAreStored ==
    \A r \in delivered : store[body[r].id] # None /\ store[body[r].id].secret = r

\* Where keys come from: every key belongs to the identity of a JWT or a
\* session that may issue, or to the owner of the admin key that created it.
OwnerIsInherited ==
    \A k \in Rows :
        LET c == req[k.secret].cred IN
        IF c.kind = "key"
        THEN \E parent \in Rows : /\ parent.secret = c.secret
                                  /\ "admin" \in parent.scopes
                                  /\ parent.owner = k.owner
        ELSE c.canIssue /\ c.who = k.owner

\* The audit trail: no row disappears, and of a row only the last use changes,
\* and the revocation, once, from NULL.  A late touch of a key that has been
\* revoked meanwhile does not bring it back.
RowsOnlyAge ==
    [][\A i \in KeyIds : store[i] # None =>
        /\ store'[i] # None
        /\ store[i].revoked # None => store'[i].revoked = store[i].revoked
        /\ store'[i] = [store[i] EXCEPT !.revoked = store'[i].revoked,
                                        !.lastUsed = store'[i].lastUsed]]_store

\* What the ledger of KeyLedger says of a row: not when it was created or used.
Entry(k) == [secret |-> k.secret, owner |-> k.owner, scopes |-> k.scopes,
             expires |-> k.expires, struck |-> k.revoked # None]

\* What the handler holds entitles the request now.
Holds(r) ==
    IF req[r].cred.kind = "key"
    THEN /\ rec[r] # None /\ rec[r].revoked = None
         /\ rec[r].expires # None => now < rec[r].expires
         /\ req[r].op # "verify" => "admin" \in rec[r].scopes
    ELSE req[r].cred.canIssue

\* A create and a revoke have their effect with their statement, before the answer.
Phase == [new |-> "new", lookup |-> "waiting", validate |-> "entitled",
          get |-> "entitled", insert |-> "entitled", revoke |-> "entitled",
          reply |-> "done", ok |-> "done", refused |-> "over", lost |-> "over"]
Progress(r) ==
    IF pc[r] = "decide" THEN IF Holds(r) THEN "entitled" ELSE "waiting" ELSE Phase[pc[r]]

\* Handlers that act on a row they read earlier, while others revoke, insert and
\* touch and the clock goes on, do nothing that the ledger did not allow at one
\* instant since the request arrived.
Ledger == INSTANCE KeyLedger WITH
    ledger <- [i \in {j \in KeyIds : store[j] # None} |-> Entry(store[i])],
    clock <- now, ask <- req, state <- [r \in Requests |-> Progress(r)]
KeepsKeyLedger == Ledger!Spec

=============================================================================

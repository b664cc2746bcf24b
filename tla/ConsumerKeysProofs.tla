-------------------------- MODULE ConsumerKeysProofs --------------------------
(* Theorems about ConsumerKeys, for every value of its constants.          *)
EXTENDS ConsumerKeys, TLAPS

-----------------------------------------------------------------------------
(* Type correctness                                                        *)

LEMMA NoneIsNoKey ==
    /\ None \notin Requests /\ None \notin KeyIds /\ None \notin Owners /\ None \notin Time
    /\ Time \subseteq Nat
  BY KeysAssumption DEF Time

LEMMA ReturnTypes ==
    ASSUME TypeOK, NEW r \in Requests, NEW l \in {"new"} \cup InFlight \cup Answered, Return(r, l)
    PROVE  /\ pc' \in [Requests -> {"new"} \cup InFlight \cup Answered]
           /\ rec' \in [Requests -> Key \cup {None}]
           /\ stamp' \in [Requests -> Time]
<1>1. 0 \in Time
  BY KeysAssumption DEF Time
<1>2. QED
  BY <1>1 DEF Return, Goto, TypeOK

LEMMA AskTypes ==
    ASSUME TypeOK, NEW r \in Requests, Receive(r) \/ Lookup(r) \/ Verify(r) \/ Authorize(r)
    PROVE  TypeOK'
<1>1. CASE Receive(r)
  <2>1. [at |-> now, stored |-> {k.secret : k \in Rows}, acked |-> acked]
          \in [at : Time, stored : SUBSET Requests, acked : SUBSET Requests]
    BY DEF TypeOK, Rows, Key
  <2>2. QED
    BY <1>1, <2>1 DEF Receive, Goto, TypeOK, InFlight
<1>2. CASE Lookup(r)
  <2>1. \A k \in Rows : k \in Key
    BY DEF TypeOK, Rows
  <2>2. CASE Return(r, "refused")
    BY <1>2, <2>2, ReturnTypes DEF Lookup, TypeOK, Answered
  <2>3. CASE Goto(r, "decide") /\ UNCHANGED stamp /\ ~Return(r, "refused")
    <3> DEFINE Found(k) == k.secret = req[r].cred.secret
    <3>1. (IF \E k \in Rows : Found(k) THEN CHOOSE k \in Rows : Found(k) ELSE None)
            \in Key \cup {None}
      BY <2>1
    <3>2. rec' \in [Requests -> Key \cup {None}]
      BY <1>2, <2>3, <3>1 DEF Lookup, TypeOK
    <3>3. pc' \in [Requests -> {"new"} \cup InFlight \cup Answered]
      BY <2>3 DEF Goto, TypeOK, InFlight
    <3>4. QED
      BY <1>2, <2>3, <3>2, <3>3 DEF Lookup, TypeOK
  <2>4. QED
    BY <1>2, <2>2, <2>3 DEF Lookup
<1>3. CASE Verify(r)
  <2>1. CASE Return(r, "refused") /\ UNCHANGED touch
    BY <1>3, <2>1, ReturnTypes DEF Verify, TypeOK, Answered
  <2>2. CASE Goto(r, "ok") /\ touch' = [touch EXCEPT ![r] = "spawned"] /\ UNCHANGED <<rec, stamp>>
    BY <1>3, <2>2 DEF Verify, Goto, TypeOK, Answered
  <2>3. QED
    BY <1>3, <2>1, <2>2 DEF Verify
<1>4. CASE Authorize(r)
  <2>1. CASE Return(r, "refused") /\ UNCHANGED body
    BY <1>4, <2>1, ReturnTypes DEF Authorize, TypeOK, Answered
  <2>2. CASE Goto(r, "validate") /\ UNCHANGED <<body, rec, stamp>>
    BY <1>4, <2>2 DEF Authorize, Goto, TypeOK, InFlight
  <2>3. CASE /\ Goto(r, "revoke")
             /\ \E i \in KeyIds : body' = [body EXCEPT ![r] = [id |-> i]]
             /\ stamp' = [stamp EXCEPT ![r] = now]
             /\ UNCHANGED rec
    <3>1. \A i \in KeyIds : [id |-> i] \in Bodies
      BY DEF Bodies
    <3>2. QED
      BY <1>4, <2>3, <3>1 DEF Authorize, Goto, TypeOK, InFlight
  <2>4. QED
    BY <1>4, <2>1, <2>2, <2>3 DEF Authorize
<1>5. QED
  BY <1>1, <1>2, <1>3, <1>4

LEMMA CreateTypes ==
    ASSUME TypeOK, NEW r \in Requests, Validate(r) \/ GetByID(r) \/ Fail(r)
    PROVE  TypeOK'
<1>1. CASE Validate(r)
  <2>1. CASE Return(r, "refused") /\ UNCHANGED body
    BY <1>1, <2>1, ReturnTypes DEF Validate, TypeOK, Answered
  <2>2. CASE /\ \E i \in KeyIds, s \in ScopeSets, e \in Time \cup {None} :
                    /\ e # None => e > now
                    /\ body' = [body EXCEPT ![r] = [id |-> i, scopes |-> s, expires |-> e]]
             /\ Goto(r, "get") /\ UNCHANGED <<rec, stamp>>
    BY <1>1, <2>2 DEF Validate, Goto, TypeOK, InFlight, Bodies
  <2>3. QED
    BY <1>1, <2>1, <2>2 DEF Validate
<1>2. CASE GetByID(r)
  BY <1>2 DEF GetByID, Goto, TypeOK, InFlight
<1>3. CASE Fail(r)
  BY <1>3, ReturnTypes DEF Fail, TypeOK, Answered
<1>4. QED
  BY <1>1, <1>2, <1>3

-----------------------------------------------------------------------------
(* The stages of a request                                                 *)

Full == [id : KeyIds, scopes : ScopeSets, expires : Time \cup {None}]

ByKey(r) == req[r].cred.kind = "key"

\* What a request has done when it is where it is.
Stage(r) ==
    /\ pc[r] = "new" => rec[r] = None
    /\ pc[r] # "new" => req[r] \in Inputs
    /\ pc[r] = "lookup" => ByKey(r)
    /\ pc[r] \in {"validate", "get", "insert"} => req[r].op = "create"
    /\ pc[r] = "revoke" => req[r].op = "revoke"
    /\ pc[r] = "reply" => req[r].op \in {"create", "revoke"}
    /\ pc[r] \in {"get", "insert"} \/ (pc[r] = "reply" /\ req[r].op = "create") => body[r] \in Full
    /\ pc[r] \in {"revoke", "reply"} => body[r] \in Bodies
    /\ pc[r] \in {"validate", "get", "insert", "revoke"} =>
          IF ByKey(r) THEN rec[r] # None /\ "admin" \in rec[r].scopes ELSE req[r].cred.canIssue
    /\ touch[r] \in {"spawned", "stamped"} => pc[r] = "ok" /\ req[r].op = "verify"

StageInv == \A r \in Requests : Stage(r)

LEMMA InputShape ==
    ASSUME NEW i \in Inputs
    PROVE  /\ i.op \in {"create", "revoke", "verify"}
           /\ i.op = "verify" => i.cred.kind = "key"
           /\ i.cred.kind = "key" => i.cred.secret \in Requests \cup {None}
           /\ i.cred.kind # "key" => i.cred.who \in Owners /\ i.cred.canIssue \in BOOLEAN
  BY DEF Inputs, Creds

LEMMA BodyShape ==
    /\ \A b \in Bodies : b.id \in KeyIds
    /\ Full \subseteq Bodies
    /\ \A i \in KeyIds : [id |-> i] \in Bodies
  BY DEF Bodies, Full

\* A request that nothing happens to.
LEMMA SameStage ==
    ASSUME NEW q \in Requests, Stage(q),
           pc'[q] = pc[q], req'[q] = req[q], body'[q] = body[q], rec'[q] = rec[q],
           touch'[q] = touch[q]
    PROVE  Stage(q)'
  BY DEF Stage, ByKey

LEMMA AskStage ==
    ASSUME TypeOK, NEW r \in Requests, Stage(r),
           Receive(r) \/ Lookup(r) \/ Verify(r) \/ Authorize(r)
    PROVE  Stage(r)'
<1>1. CASE Receive(r)
  <2>1. PICK i \in Inputs : /\ req' = [req EXCEPT ![r] = i]
                            /\ Goto(r, IF i.cred.kind = "key" THEN "lookup" ELSE "decide")
    BY <1>1 DEF Receive
  <2>2. pc[r] = "new" /\ UNCHANGED <<body, rec, touch>>
    BY <1>1 DEF Receive
  <2>3. req'[r] = i /\ pc'[r] \in {"lookup", "decide"} /\ (pc'[r] = "lookup" => i.cred.kind = "key")
    BY <2>1 DEF Goto, TypeOK
  <2>4. QED
    BY <2>2, <2>3 DEF Stage, ByKey
<1>2. CASE Lookup(r)
  <2>1. pc'[r] \in {"decide", "refused"} /\ pc[r] = "lookup" /\ UNCHANGED <<req, body, touch>>
    BY <1>2 DEF Lookup, Goto, Return, TypeOK
  <2>2. QED
    BY <2>1 DEF Stage, ByKey
<1>3. CASE Verify(r)
  <2>1. pc'[r] \in {"ok", "refused"} /\ pc[r] = "decide" /\ UNCHANGED <<req, body>>
        /\ req[r].op = "verify" /\ (pc'[r] = "refused" => UNCHANGED touch)
    BY <1>3 DEF Verify, Goto, Return, TypeOK
  <2>2. QED
    BY <2>1 DEF Stage, ByKey
<1>4. CASE Authorize(r)
  <2>1. pc[r] = "decide" /\ UNCHANGED <<req, touch>> /\ req[r].op # "verify"
    BY <1>4 DEF Authorize
  <2>2. CASE Return(r, "refused") /\ UNCHANGED body
    <3>1. pc'[r] = "refused"
      BY <2>2 DEF Return, Goto, TypeOK
    <3>2. QED
      BY <2>1, <3>1 DEF Stage, ByKey
  <2>3. CASE CanIssue(r) /\ req[r].op = "create" /\ Goto(r, "validate") /\ UNCHANGED <<body, rec, stamp>>
    <3>1. pc'[r] = "validate"
      BY <2>3 DEF Goto, TypeOK
    <3>2. QED
      BY <2>1, <2>3, <3>1 DEF Stage, ByKey, CanIssue, Usable
  <2>4. CASE /\ CanIssue(r) /\ req[r].op = "revoke" /\ Goto(r, "revoke")
             /\ \E i \in KeyIds : body' = [body EXCEPT ![r] = [id |-> i]]
             /\ UNCHANGED rec
    <3>1. pc'[r] = "revoke" /\ body'[r] \in Bodies
      BY <2>4, BodyShape DEF Goto, TypeOK
    <3>2. QED
      BY <2>1, <2>4, <3>1 DEF Stage, ByKey, CanIssue, Usable
  <2>5. QED
    BY <1>4, <2>2, <2>3, <2>4 DEF Authorize
<1>5. QED
  BY <1>1, <1>2, <1>3, <1>4

LEMMA WriteStage ==
    ASSUME TypeOK, NEW r \in Requests, Stage(r),
           Validate(r) \/ GetByID(r) \/ Insert(r) \/ Fail(r) \/ Revoke(r) \/ Reply(r)
    PROVE  Stage(r)'
<1>1. CASE Validate(r)
  <2>1. pc[r] = "validate" /\ UNCHANGED <<req, touch>>
    BY <1>1 DEF Validate
  <2>2. CASE Return(r, "refused")
    <3>1. pc'[r] = "refused"
      BY <2>2 DEF Return, Goto, TypeOK
    <3>2. QED
      BY <2>1, <3>1 DEF Stage, ByKey
  <2>3. CASE /\ \E i \in KeyIds, s \in ScopeSets, e \in Time \cup {None} :
                    body' = [body EXCEPT ![r] = [id |-> i, scopes |-> s, expires |-> e]]
             /\ Goto(r, "get") /\ UNCHANGED rec
    <3>1. pc'[r] = "get" /\ body'[r] \in Full
      BY <2>3 DEF Goto, TypeOK, Full
    <3>2. QED
      BY <2>1, <2>3, <3>1 DEF Stage, ByKey
  <2>4. QED
    BY <1>1, <2>2, <2>3 DEF Validate
<1>2. CASE GetByID(r)
  <2>1. pc[r] = "get" /\ pc'[r] = "insert" /\ UNCHANGED <<req, body, rec, touch>>
    BY <1>2 DEF GetByID, Goto, TypeOK
  <2>2. QED
    BY <2>1 DEF Stage, ByKey
<1>3. CASE Insert(r)
  <2>1. pc[r] = "insert" /\ pc'[r] = "reply" /\ UNCHANGED <<req, body, rec, touch>>
    BY <1>3 DEF Insert, Goto, TypeOK
  <2>2. QED
    BY <2>1, BodyShape DEF Stage, ByKey
<1>4. CASE Fail(r)
  <2>1. pc[r] \in {"get", "insert", "revoke"} /\ pc'[r] = "refused" /\ UNCHANGED <<req, body, touch>>
    BY <1>4 DEF Fail, Return, Goto, TypeOK
  <2>2. QED
    BY <2>1 DEF Stage, ByKey
<1>5. CASE Revoke(r)
  <2>1. pc[r] = "revoke" /\ pc'[r] = "reply" /\ UNCHANGED <<req, body, rec, touch>>
    BY <1>5 DEF Revoke, Goto, TypeOK
  <2>2. QED
    BY <2>1 DEF Stage, ByKey
<1>6. CASE Reply(r)
  <2>1. pc[r] = "reply" /\ pc'[r] = "ok" /\ UNCHANGED <<req, body, touch>>
    BY <1>6 DEF Reply, Return, Goto, TypeOK
  <2>2. QED
    BY <2>1 DEF Stage, ByKey
<1>7. QED
  BY <1>1, <1>2, <1>3, <1>4, <1>5, <1>6

LEMMA TouchStage ==
    ASSUME TypeOK, NEW r \in Requests, Stage(r), StampTouch(r) \/ Touch(r)
    PROVE  Stage(r)'
<1>1. CASE StampTouch(r)
  <2>1. touch[r] = "spawned" /\ UNCHANGED <<pc, req, body, rec>>
    BY <1>1 DEF StampTouch
  <2>2. QED
    BY <2>1 DEF Stage, ByKey
<1>2. CASE Touch(r)
  <2>1. touch[r] = "stamped" /\ pc'[r] = pc[r] /\ UNCHANGED <<req, body>> /\ touch'[r] = "done"
    BY <1>2 DEF Touch, Return, Goto, TypeOK
  <2>2. QED
    BY <2>1 DEF Stage, ByKey
<1>3. QED
  BY <1>1, <1>2

\* What a request does leaves the others alone.
LEMMA OthersWait ==
    ASSUME TypeOK, NEW r \in Requests, Step(r), NEW q \in Requests \ {r}
    PROVE  /\ pc'[q] = pc[q] /\ req'[q] = req[q] /\ body'[q] = body[q] /\ rec'[q] = rec[q]
           /\ stamp'[q] = stamp[q] /\ touch'[q] = touch[q] /\ arrived'[q] = arrived[q]
<1>1. CASE Receive(r) \/ Lookup(r) \/ Verify(r) \/ Authorize(r)
  BY <1>1 DEF Receive, Lookup, Verify, Authorize, Goto, Return, TypeOK
<1>2. CASE Validate(r) \/ GetByID(r) \/ Insert(r) \/ Fail(r)
  BY <1>2 DEF Validate, GetByID, Insert, Fail, Goto, Return, TypeOK
<1>3. CASE Revoke(r) \/ Reply(r) \/ StampTouch(r) \/ Touch(r)
  BY <1>3 DEF Revoke, Reply, StampTouch, Touch, Goto, Return, TypeOK
<1>4. QED
  BY <1>1, <1>2, <1>3 DEF Step

LEMMA CrashStage ==
    ASSUME TypeOK, StageInv, Crash
    PROVE  StageInv'
<1> SUFFICES ASSUME NEW r \in Requests PROVE Stage(r)'
  BY DEF StageInv
<1>1. /\ pc'[r] = (IF pc[r] \in InFlight THEN "lost" ELSE pc[r])
      /\ touch'[r] \notin {"spawned", "stamped"} /\ rec'[r] = None
      /\ UNCHANGED <<req, body>>
  BY DEF Crash, TypeOK
<1>2. pc'[r] \in {"new", "ok", "refused", "lost"} /\ (pc'[r] = "new" <=> pc[r] = "new")
  BY <1>1 DEF TypeOK, InFlight, Answered
<1>3. QED
  BY <1>1, <1>2 DEF StageInv, Stage, ByKey

LEMMA StepStage ==
    ASSUME TypeOK, StageInv, [Next]_vars
    PROVE  StageInv'
<1>1. ASSUME NEW r \in Requests, Step(r) PROVE StageInv'
  <2> SUFFICES ASSUME NEW q \in Requests PROVE Stage(q)'
    BY DEF StageInv
  <2>1. CASE q = r
    BY <1>1, <2>1, AskStage, WriteStage, TouchStage DEF Step, StageInv
  <2>2. CASE q # r
    BY <1>1, <2>2, OthersWait, SameStage DEF StageInv
  <2>3. QED
    BY <2>1, <2>2
<1>2. CASE Tick \/ UNCHANGED vars
  BY <1>2, SameStage DEF Tick, vars, StageInv
<1>3. QED
  BY <1>1, <1>2, CrashStage DEF Next

-----------------------------------------------------------------------------
(* The inductive invariant                                                 *)

\* The secret of a row tells which request made it, and for which id.
RowInv == \A i \in KeyIds : store[i] # None =>
    LET s == store[i].secret IN
    /\ pc[s] \in {"reply", "ok", "lost"} /\ req[s].op = "create"
    /\ body[s] \in Full /\ body[s].id = i

Made(r) == store[body[r].id] # None /\ store[body[r].id].secret = r

\* A create that has passed INSERT finds its row, and so do secrets handed out.
MadeInv == \A r \in Requests :
    /\ pc[r] = "reply" /\ req[r].op = "create" => Made(r)
    /\ r \in delivered => pc[r] = "ok" /\ body[r] \in Full /\ Made(r)

\* What no statement changes.
Agree(k, row) ==
    /\ row # None /\ row.secret = k.secret /\ row.owner = k.owner
    /\ row.scopes = k.scopes /\ row.expires = k.expires

Stored(s) == \E i \in KeyIds : store[i] # None /\ store[i].secret = s

\* The row a request holds is its key's, and only its revocation may be old news.
HeldInv == \A r \in Requests : rec[r] # None =>
    /\ ByKey(r) /\ rec[r].secret = req[r].cred.secret
    /\ \E i \in KeyIds : Agree(rec[r], store[i])
    /\ rec[r].secret \in arrived[r].acked => rec[r].revoked # None

\* A revocation that was answered, or will be, is in the table, for a secret that
\* was there when it arrived.
AckInv ==
    /\ \A r \in Requests :
          /\ arrived[r].at <= now
          /\ arrived[r].acked \subseteq acked
          /\ \A s \in arrived[r].stored : Stored(s)
          /\ pc[r] = "reply" /\ req[r].op = "revoke" =>
                LET row == store[body[r].id] IN
                row # None /\ row.secret \in arrived[r].stored => row.revoked # None
    /\ \A s \in acked : Stored(s)
    /\ \A i \in KeyIds : store[i] # None /\ store[i].secret \in acked => store[i].revoked # None

\* Whoever got something with a key had one that was usable when it arrived.
WasUsable(r) ==
    /\ req[r].cred.secret \notin arrived[r].acked
    /\ \E i \in KeyIds : /\ store[i] # None /\ store[i].secret = req[r].cred.secret
                         /\ store[i].expires # None => arrived[r].at < store[i].expires

UsedInv == \A r \in Requests :
    pc[r] \in {"validate", "get", "insert", "revoke", "reply", "ok"} /\ ByKey(r) => WasUsable(r)

IInv == TypeOK /\ StageInv /\ RowInv /\ MadeInv /\ HeldInv /\ AckInv /\ UsedInv

-----------------------------------------------------------------------------
(* What lasts                                                              *)

\* A step changes the table as an audit trail allows, or inserts a row where there
\* was none.
Ages(k, row) ==
    /\ row # None
    /\ k.revoked # None => row.revoked = k.revoked
    /\ row = [k EXCEPT !.revoked = row.revoked, !.lastUsed = row.lastUsed]

LEMMA AgesAgrees ==
    ASSUME NEW k \in Key, NEW row \in Key, row # None,
           k.revoked # None => row.revoked = k.revoked,
           row.secret = k.secret, row.owner = k.owner, row.scopes = k.scopes,
           row.created = k.created, row.expires = k.expires
    PROVE  Ages(k, row)
<1> DEFINE new == [k EXCEPT !.revoked = row.revoked, !.lastUsed = row.lastUsed]
<1>1. new \in Key
  BY DEF Key
<1>2. /\ new.secret = row.secret /\ new.owner = row.owner /\ new.scopes = row.scopes
      /\ new.created = row.created /\ new.expires = row.expires
      /\ new.revoked = row.revoked /\ new.lastUsed = row.lastUsed
  BY DEF Key
<1> HIDE DEF new
<1>3. row = new
  BY <1>1, <1>2 DEF Key
<1>4. QED
  BY <1>3 DEF Ages, new

LEMMA NoneIsNoRow ==
    ASSUME TypeOK, NEW i \in KeyIds, store[i] # None
    PROVE  store[i] \in Key
  BY DEF TypeOK

NewRow(r) == [secret |-> r, owner |-> CallerOwner(r), scopes |-> body[r].scopes,
              created |-> stamp[r], expires |-> body[r].expires, revoked |-> None,
              lastUsed |-> None]

\* The row of a create: a key passes on the owner it was found with.
LEMMA InsertedRow ==
    ASSUME IInv, NEW r \in Requests, Insert(r)
    PROVE  /\ NewRow(r) \in Key /\ NewRow(r) # None /\ body[r] \in Full /\ body[r].id \in KeyIds
           /\ req[r].op = "create" /\ pc[r] = "insert" /\ store[body[r].id] = None
           /\ store' = [store EXCEPT ![body[r].id] = NewRow(r)]
<1>1. Stage(r) /\ pc[r] = "insert" /\ store[body[r].id] = None
  BY DEF Insert, IInv, StageInv, Vacant
<1>2. body[r] \in Full /\ req[r] \in Inputs /\ req[r].op = "create"
  BY <1>1 DEF Stage
<1>3. CallerOwner(r) \in Owners
  <2>1. CASE ByKey(r)
    <3>1. rec[r] \in Key
      BY <1>1, <2>1 DEF Stage, IInv, TypeOK
    <3>2. QED
      BY <2>1, <3>1 DEF CallerOwner, ByKey, Key
  <2>2. CASE ~ByKey(r)
    BY <1>2, <2>2, InputShape DEF CallerOwner, ByKey
  <2>3. QED
    BY <2>1, <2>2
<1>4. stamp[r] \in Time
  BY DEF IInv, TypeOK
<1>5. NewRow(r) \in Key /\ body[r].id \in KeyIds
  BY <1>2, <1>3, <1>4 DEF NewRow, Key, Full
<1>6. store' = [store EXCEPT ![body[r].id] = NewRow(r)]
  BY DEF Insert, NewRow
<1>7. NewRow(r) # None
  BY <1>5, KeysAssumption
<1>8. QED
  BY <1>1, <1>2, <1>5, <1>6, <1>7

\* A row gets older, and a new one is the work of an INSERT.
LEMMA RowsAge ==
    ASSUME IInv, [Next]_vars, NEW i \in KeyIds
    PROVE  /\ store[i] # None => store'[i] \in Key /\ Ages(store[i], store'[i])
           /\ store[i] = None /\ store'[i] # None =>
                \E r \in Requests : Insert(r) /\ body[r].id = i /\ store'[i] = NewRow(r)
<1> DEFINE Goal == /\ store[i] # None => store'[i] \in Key /\ Ages(store[i], store'[i])
                   /\ store[i] = None /\ store'[i] # None =>
                        \E r \in Requests : Insert(r) /\ body[r].id = i /\ store'[i] = NewRow(r)
<1>1. TypeOK /\ store \in [KeyIds -> Key \cup {None}]
  BY DEF IInv, TypeOK
<1>2. None \notin Key /\ None \notin Time
  BY KeysAssumption, NoneIsNoKey
<1>3. ASSUME store'[i] = store[i] PROVE Goal
  <2>1. store[i] # None => store[i] \in Key
    BY <1>1
  <2>2. QED
    BY <1>3, <2>1, AgesAgrees
<1>4. ASSUME NEW r \in Requests, Insert(r) PROVE Goal
  <2>1. /\ store' = [store EXCEPT ![body[r].id] = NewRow(r)] /\ store[body[r].id] = None
        /\ body[r].id \in KeyIds
    BY <1>4, InsertedRow
  <2>2. CASE body[r].id = i
    BY <1>1, <1>4, <2>1, <2>2
  <2>3. CASE body[r].id # i
    BY <1>1, <1>3, <2>1, <2>3
  <2>4. QED
    BY <2>2, <2>3
<1>5. ASSUME NEW r \in Requests, Revoke(r) PROVE Goal
  <2>1. stamp[r] \in Time
    BY <1>1 DEF TypeOK
  <2>2. CASE store'[i] # store[i]
    <3>1. store[i] # None /\ store'[i] = Revoked(store[i], stamp[r])
      BY <1>1, <1>5, <2>2 DEF Revoke
    <3>2. store[i] \in Key
      BY <1>1, <3>1
    <3>3. store'[i] \in Key
      BY <2>1, <3>1, <3>2 DEF Revoked, Key
    <3>4. /\ store'[i].secret = store[i].secret /\ store'[i].owner = store[i].owner
          /\ store'[i].scopes = store[i].scopes /\ store'[i].created = store[i].created
          /\ store'[i].expires = store[i].expires
          /\ store[i].revoked # None => store'[i].revoked = store[i].revoked
      BY <3>1, <3>2 DEF Revoked, Key
    <3>5. QED
      BY <1>2, <3>1, <3>2, <3>3, <3>4, AgesAgrees
  <2>3. QED
    BY <1>3, <2>2
<1>6. ASSUME NEW r \in Requests, Touch(r) PROVE Goal
  <2>1. stamp[r] \in Time
    BY <1>1 DEF TypeOK
  <2>2. CASE store'[i] # store[i]
    <3>1. store[i] # None /\ store'[i] = Touched(store[i], r)
      BY <1>1, <1>6, <2>2 DEF Touch
    <3>2. store[i] \in Key
      BY <1>1, <3>1
    <3>3. store'[i] \in Key
      BY <2>1, <3>1, <3>2 DEF Touched, Key
    <3>4. /\ store'[i].secret = store[i].secret /\ store'[i].owner = store[i].owner
          /\ store'[i].scopes = store[i].scopes /\ store'[i].created = store[i].created
          /\ store'[i].expires = store[i].expires /\ store'[i].revoked = store[i].revoked
      BY <3>1, <3>2 DEF Touched, Key
    <3>5. QED
      BY <1>2, <3>1, <3>2, <3>3, <3>4, AgesAgrees
  <2>3. QED
    BY <1>3, <2>2
<1>7. ASSUME store' = store PROVE Goal
  BY <1>3, <1>7
<1>8. ASSUME NEW r \in Requests, Step(r) PROVE Goal
  <2>1. CASE Insert(r) \/ Revoke(r) \/ Touch(r)
    BY <1>4, <1>5, <1>6, <2>1
  <2>2. CASE ~(Insert(r) \/ Revoke(r) \/ Touch(r))
    <3>1. UNCHANGED store
      BY <1>8, <2>2 DEF Step, Receive, Lookup, Verify, Authorize, Validate, GetByID, Fail, Reply,
                        StampTouch
    <3>2. QED
      BY <1>7, <3>1
  <2>3. QED
    BY <2>1, <2>2
<1>9. CASE Tick \/ Crash \/ UNCHANGED vars
  <2>1. store' = store
    BY <1>9 DEF Tick, Crash, vars
  <2>2. QED
    BY <1>7, <2>1
<1>10. QED
  BY <1>8, <1>9 DEF Next

\* What a row's secret, owner, scopes and expiry are, they stay.
LEMMA RowsAgree ==
    ASSUME IInv, [Next]_vars, NEW i \in KeyIds, store[i] # None
    PROVE  /\ store'[i] \in Key /\ Agree(store[i], store'[i])
           /\ store[i].revoked # None => store'[i].revoked # None
<1>1. store[i] \in Key /\ store'[i] \in Key /\ Ages(store[i], store'[i])
  BY RowsAge DEF IInv, TypeOK
<1>2. QED
  BY <1>1 DEF Ages, Agree, Key

\* What a request is about stays, once it has arrived, and it does not come back
\* from its end.
LEMMA RequestsLast ==
    ASSUME IInv, [Next]_vars, NEW r \in Requests
    PROVE  /\ pc[r] # "new" => pc'[r] # "new" /\ req'[r] = req[r] /\ arrived'[r] = arrived[r]
           /\ pc[r] \notin {"decide", "validate"} => body'[r] = body[r]
           /\ pc[r] \in Answered => pc'[r] = pc[r]
           /\ pc[r] = "reply" => pc'[r] \in {"reply", "ok", "lost"}
<1> DEFINE Goal == /\ pc[r] # "new" => pc'[r] # "new" /\ req'[r] = req[r] /\ arrived'[r] = arrived[r]
                   /\ pc[r] \notin {"decide", "validate"} => body'[r] = body[r]
                   /\ pc[r] \in Answered => pc'[r] = pc[r]
                   /\ pc[r] = "reply" => pc'[r] \in {"reply", "ok", "lost"}
<1>1. TypeOK
  BY DEF IInv
<1>2. CASE Receive(r) \/ Lookup(r) \/ Verify(r) \/ Authorize(r)
  BY <1>1, <1>2 DEF Receive, Lookup, Verify, Authorize, Goto, Return, TypeOK, Answered
<1>3. CASE Validate(r) \/ GetByID(r) \/ Insert(r) \/ Fail(r)
  BY <1>1, <1>3 DEF Validate, GetByID, Insert, Fail, Goto, Return, TypeOK, Answered
<1>4. CASE Revoke(r) \/ Reply(r) \/ StampTouch(r) \/ Touch(r)
  BY <1>1, <1>4 DEF Revoke, Reply, StampTouch, Touch, Goto, Return, TypeOK, Answered
<1>5. CASE \E q \in Requests \ {r} : Step(q)
  BY <1>1, <1>5, OthersWait
<1>6. CASE Crash
  BY <1>1, <1>6 DEF Crash, TypeOK, InFlight, Answered
<1>7. CASE Tick \/ UNCHANGED vars
  BY <1>7 DEF Tick, vars
<1>8. QED
  BY <1>2, <1>3, <1>4, <1>5, <1>6, <1>7 DEF Next, Step

Using == {"validate", "get", "insert", "revoke", "reply", "ok"}

\* How a request gets where the invariant says something of it.
LEMMA RequestsMove ==
    ASSUME IInv, [Next]_vars, NEW r \in Requests
    PROVE  /\ pc'[r] = "reply" => pc[r] = "reply" \/ Insert(r) \/ Revoke(r)
           /\ rec'[r] # None => rec'[r] = rec[r] \/ Lookup(r)
           /\ pc'[r] \in Using => \/ pc[r] \in Using
                                  \/ pc[r] = "decide" /\ (ByKey(r) => Usable(rec[r]))
           /\ pc[r] = "new" => pc'[r] = "new" \/ Receive(r)
<1> DEFINE Goal == /\ pc'[r] = "reply" => pc[r] = "reply" \/ Insert(r) \/ Revoke(r)
                   /\ rec'[r] # None => rec'[r] = rec[r] \/ Lookup(r)
                   /\ pc'[r] \in Using => \/ pc[r] \in Using
                                          \/ pc[r] = "decide" /\ (ByKey(r) => Usable(rec[r]))
                   /\ pc[r] = "new" => pc'[r] = "new" \/ Receive(r)
<1>1. TypeOK /\ Stage(r)
  BY DEF IInv, StageInv
<1>2. CASE Receive(r) \/ Lookup(r)
  BY <1>1, <1>2 DEF Receive, Lookup, Goto, Return, TypeOK, Using
<1>3. CASE Verify(r)
  <2>1. pc[r] = "decide" /\ UNCHANGED req /\ pc'[r] \in {"ok", "refused"} /\ rec'[r] \in {rec[r], None}
        /\ (pc'[r] = "ok" => Usable(rec[r]))
    BY <1>1, <1>3 DEF Verify, Goto, Return, TypeOK
  <2>2. QED
    BY <2>1 DEF Using
<1>4. CASE Authorize(r)
  <2>1. /\ pc[r] = "decide" /\ UNCHANGED req /\ pc'[r] \in {"validate", "revoke", "refused"}
        /\ rec'[r] \in {rec[r], None} /\ (pc'[r] # "refused" => CanIssue(r))
    BY <1>1, <1>4 DEF Authorize, Goto, Return, TypeOK
  <2>2. QED
    BY <2>1 DEF Using, CanIssue, ByKey
<1>5. CASE Validate(r) \/ GetByID(r) \/ Insert(r) \/ Fail(r)
  BY <1>1, <1>5 DEF Validate, GetByID, Insert, Fail, Goto, Return, TypeOK, Using
<1>6. CASE Revoke(r) \/ Reply(r)
  BY <1>1, <1>6 DEF Revoke, Reply, Goto, Return, TypeOK, Using
<1>7. CASE StampTouch(r) \/ Touch(r)
  BY <1>1, <1>7 DEF StampTouch, Touch, Goto, Return, TypeOK, Using
<1>8. CASE \E q \in Requests \ {r} : Step(q)
  BY <1>1, <1>8, OthersWait
<1>9. CASE Crash
  BY <1>1, <1>9 DEF Crash, TypeOK, InFlight, Answered, Using
<1>10. CASE Tick \/ UNCHANGED vars
  BY <1>10 DEF Tick, vars
<1>11. QED
  BY <1>2, <1>3, <1>4, <1>5, <1>6, <1>7, <1>8, <1>9, <1>10 DEF Next, Step

\* Answers are the work of Reply; the clock does not go back.
LEMMA AnswersGrow ==
    ASSUME IInv, [Next]_vars
    PROVE  /\ delivered \subseteq delivered' /\ acked \subseteq acked' /\ now <= now'
           /\ \A r \in delivered' \ delivered : Reply(r) /\ req[r].op = "create"
           /\ acked' # acked => \E r \in Requests : Reply(r) /\ req[r].op # "create"
<1> DEFINE Goal == /\ delivered \subseteq delivered' /\ acked \subseteq acked' /\ now <= now'
                   /\ \A r \in delivered' \ delivered : Reply(r) /\ req[r].op = "create"
                   /\ acked' # acked => \E r \in Requests : Reply(r) /\ req[r].op # "create"
<1>1. now \in Nat
  BY NoneIsNoKey DEF IInv, TypeOK
<1>2. CASE UNCHANGED <<delivered, acked>> /\ now' \in {now, now + 1}
  BY <1>1, <1>2
<1>3. ASSUME NEW r \in Requests, Reply(r) PROVE Goal
  <2>1. now' = now
    BY <1>3 DEF Reply
  <2>2. CASE req[r].op = "create"
    BY <1>1, <1>3, <2>1, <2>2 DEF Reply
  <2>3. CASE req[r].op # "create"
    BY <1>1, <1>3, <2>1, <2>3 DEF Reply
  <2>4. QED
    BY <2>2, <2>3
<1>4. ASSUME NEW r \in Requests, Step(r), ~Reply(r) PROVE UNCHANGED <<delivered, acked, now>>
  BY <1>4 DEF Step, Receive, Lookup, Verify, Authorize, Validate, GetByID, Insert, Fail, Revoke,
              StampTouch, Touch
<1>5. CASE Tick \/ Crash \/ UNCHANGED vars
  <2>1. UNCHANGED <<delivered, acked>> /\ now' \in {now, now + 1}
    BY <1>5 DEF Tick, Crash, vars
  <2>2. QED
    BY <1>2, <2>1
<1>6. QED
  BY <1>2, <1>3, <1>4, <1>5 DEF Next

-----------------------------------------------------------------------------
(* Every step keeps the invariant                                          *)

LEMMA StepTypes ==
    ASSUME IInv, [Next]_vars
    PROVE  TypeOK'
<1>1. TypeOK /\ store \in [KeyIds -> Key \cup {None}]
  BY DEF IInv, TypeOK
<1>2. ASSUME NEW r \in Requests, Insert(r) PROVE TypeOK'
  <2>1. NewRow(r) \in Key /\ store' = [store EXCEPT ![body[r].id] = NewRow(r)]
    BY <1>2, InsertedRow
  <2>2. store' \in [KeyIds -> Key \cup {None}]
    BY <1>1, <2>1
  <2>3. pc' \in [Requests -> {"new"} \cup InFlight \cup Answered]
    BY <1>1, <1>2 DEF Insert, Goto, TypeOK, InFlight
  <2>4. QED
    BY <1>1, <1>2, <2>2, <2>3 DEF Insert, TypeOK
<1>3. ASSUME NEW r \in Requests, Revoke(r) \/ Touch(r) PROVE TypeOK'
  <2>1. store' \in [KeyIds -> Key \cup {None}]
    <3>1. \A i \in KeyIds : store'[i] \in Key \cup {None}
      <4>1. \A i \in KeyIds : store[i] # None => store'[i] \in Key
        BY RowsAge
      <4>2. \A i \in KeyIds : store[i] = None => store'[i] = None
        BY <1>1, <1>3 DEF Revoke, Touch
      <4>3. QED
        BY <4>1, <4>2
    <3>2. store' = [i \in KeyIds |-> store'[i]]
      BY <1>1, <1>3 DEF Revoke, Touch
    <3>3. QED
      BY <3>1, <3>2
  <2>2. CASE Revoke(r)
    BY <1>1, <2>1, <2>2 DEF Revoke, Goto, TypeOK, InFlight
  <2>3. CASE Touch(r)
    <3>1. pc[r] \in {"new"} \cup InFlight \cup Answered
      BY <1>1 DEF TypeOK
    <3>2. /\ pc' \in [Requests -> {"new"} \cup InFlight \cup Answered]
          /\ rec' \in [Requests -> Key \cup {None}] /\ stamp' \in [Requests -> Time]
      BY <1>1, <2>3, <3>1, ReturnTypes DEF Touch
    <3>3. QED
      BY <1>1, <2>1, <2>3, <3>2 DEF Touch, TypeOK
  <2>4. QED
    BY <1>3, <2>2, <2>3
<1>4. ASSUME NEW r \in Requests, Reply(r) PROVE TypeOK'
  <2>1. /\ pc' \in [Requests -> {"new"} \cup InFlight \cup Answered]
        /\ rec' \in [Requests -> Key \cup {None}] /\ stamp' \in [Requests -> Time]
    BY <1>1, <1>4, ReturnTypes DEF Reply, Answered
  <2>2. delivered' \in SUBSET Requests /\ acked' \in SUBSET Requests
    BY <1>1, <1>4 DEF Reply, TypeOK
  <2>3. QED
    BY <1>1, <1>4, <2>1, <2>2 DEF Reply, TypeOK
<1>5. ASSUME NEW r \in Requests, StampTouch(r) PROVE TypeOK'
  BY <1>1, <1>5 DEF StampTouch, TypeOK
<1>6. CASE Tick
  BY <1>1, <1>6, KeysAssumption DEF Tick, TypeOK, Time
<1>7. CASE Crash
  <2>1. 0 \in Time
    BY KeysAssumption DEF Time
  <2>2. QED
    BY <1>1, <1>7, <2>1 DEF Crash, TypeOK, Answered
<1>8. CASE UNCHANGED vars
  BY <1>1, <1>8 DEF vars, TypeOK
<1>9. QED
  BY <1>1, <1>2, <1>3, <1>4, <1>5, <1>6, <1>7, <1>8, AskTypes, CreateTypes DEF Next, Step

LEMMA StepRow ==
    ASSUME IInv, [Next]_vars
    PROVE  RowInv'
<1> SUFFICES ASSUME NEW i \in KeyIds, store'[i] # None
             PROVE  LET s == store'[i].secret IN
                    /\ pc'[s] \in {"reply", "ok", "lost"} /\ req'[s].op = "create"
                    /\ body'[s] \in Full /\ body'[s].id = i
  BY DEF RowInv, Full
<1>1. CASE store[i] # None
  <2> DEFINE s == store[i].secret
  <2>1. store'[i].secret = s
    BY <1>1, RowsAgree DEF Agree
  <2>2. s \in Requests
    BY <1>1 DEF IInv, TypeOK, Key
  <2>3. /\ pc[s] \in {"reply", "ok", "lost"} /\ req[s].op = "create"
        /\ body[s] \in Full /\ body[s].id = i
    BY <1>1 DEF IInv, RowInv
  <2>4. pc'[s] \in {"reply", "ok", "lost"} /\ req'[s] = req[s] /\ body'[s] = body[s]
    BY <2>2, <2>3, RequestsLast DEF Answered
  <2>5. QED
    BY <2>1, <2>3, <2>4
<1>2. CASE store[i] = None
  <2>1. PICK r \in Requests : Insert(r) /\ body[r].id = i /\ store'[i] = NewRow(r)
    BY <1>2, RowsAge
  <2>2. store'[i].secret = r
    BY <2>1 DEF NewRow
  <2>3. pc'[r] = "reply" /\ UNCHANGED <<req, body>>
    BY <2>1 DEF Insert, Goto, IInv, TypeOK
  <2>4. QED
    BY <2>1, <2>2, <2>3, InsertedRow
<1>3. QED
  BY <1>1, <1>2

\* A row that a request made stays the row of its id.
LEMMA MadeLasts ==
    ASSUME IInv, [Next]_vars, NEW r \in Requests, Made(r), body[r] \in Full, body'[r] = body[r]
    PROVE  Made(r)'
<1>1. body[r].id \in KeyIds
  BY DEF Full
<1>2. QED
  BY <1>1, RowsAgree DEF Made, Agree

LEMMA StepMade ==
    ASSUME IInv, [Next]_vars
    PROVE  MadeInv'
<1>1. ASSUME NEW r \in Requests, pc'[r] = "reply", req'[r].op = "create"
      PROVE  Made(r)'
  <2>1. pc[r] = "reply" \/ Insert(r) \/ Revoke(r)
    BY <1>1, RequestsMove
  <2>2. CASE pc[r] = "reply"
    <3>1. req'[r] = req[r] /\ body'[r] = body[r]
      BY <2>2, RequestsLast
    <3>2. Made(r) /\ body[r] \in Full
      BY <1>1, <2>2, <3>1 DEF IInv, MadeInv, StageInv, Stage
    <3>3. QED
      BY <3>1, <3>2, MadeLasts
  <2>3. CASE Insert(r)
    <3>1. /\ store' = [store EXCEPT ![body[r].id] = NewRow(r)] /\ NewRow(r) # None
          /\ body[r].id \in KeyIds /\ UNCHANGED body
      BY <2>3, InsertedRow DEF Insert
    <3>2. store'[body[r].id] = NewRow(r)
      BY <3>1 DEF IInv, TypeOK
    <3>3. NewRow(r).secret = r
      BY DEF NewRow
    <3>4. QED
      BY <3>1, <3>2, <3>3 DEF Made
  <2>4. CASE Revoke(r)
    <3>1. pc[r] = "revoke" /\ req'[r] = req[r]
      BY <2>4 DEF Revoke
    <3>2. req[r].op = "revoke"
      BY <3>1 DEF IInv, StageInv, Stage
    <3>3. QED
      BY <1>1, <3>1, <3>2
  <2>5. QED
    BY <2>1, <2>2, <2>3, <2>4
<1>2. ASSUME NEW r \in Requests, r \in delivered'
      PROVE  pc'[r] = "ok" /\ body'[r] \in Full /\ Made(r)'
  <2>1. CASE r \in delivered
    <3>1. pc[r] = "ok" /\ body[r] \in Full /\ Made(r)
      BY <2>1 DEF IInv, MadeInv
    <3>2. pc'[r] = "ok" /\ body'[r] = body[r]
      BY <3>1, RequestsLast DEF Answered
    <3>3. QED
      BY <3>1, <3>2, MadeLasts
  <2>2. CASE r \notin delivered
    <3>1. Reply(r) /\ req[r].op = "create"
      BY <1>2, <2>2, AnswersGrow
    <3>2. pc[r] = "reply" /\ pc'[r] = "ok" /\ body'[r] = body[r]
      BY <3>1 DEF Reply, Return, Goto, IInv, TypeOK
    <3>3. Made(r) /\ body[r] \in Full
      BY <3>1, <3>2 DEF IInv, MadeInv, StageInv, Stage
    <3>4. QED
      BY <3>2, <3>3, MadeLasts
  <2>3. QED
    BY <2>1, <2>2
<1>3. QED
  BY <1>1, <1>2 DEF MadeInv

LEMMA StepHeld ==
    ASSUME IInv, [Next]_vars
    PROVE  HeldInv'
<1> SUFFICES ASSUME NEW r \in Requests, rec'[r] # None
             PROVE  /\ ByKey(r)' /\ rec'[r].secret = req'[r].cred.secret
                    /\ \E i \in KeyIds : Agree(rec'[r], store'[i])
                    /\ rec'[r].secret \in arrived'[r].acked => rec'[r].revoked # None
  BY DEF HeldInv, Agree
<1>1. CASE rec'[r] = rec[r]
  <2>1. /\ ByKey(r) /\ rec[r].secret = req[r].cred.secret
        /\ \E i \in KeyIds : Agree(rec[r], store[i])
        /\ rec[r].secret \in arrived[r].acked => rec[r].revoked # None
    BY <1>1 DEF IInv, HeldInv
  <2>2. pc[r] # "new"
    BY <1>1 DEF IInv, StageInv, Stage
  <2>3. req'[r] = req[r] /\ arrived'[r] = arrived[r]
    BY <2>2, RequestsLast
  <2>4. PICK i \in KeyIds : Agree(rec[r], store[i])
    BY <2>1
  <2>5. Agree(rec[r], store'[i])
    BY <2>4, RowsAgree, KeysAssumption DEF Agree
  <2>6. QED
    BY <1>1, <2>1, <2>3, <2>5 DEF ByKey
<1>2. CASE Lookup(r) /\ rec'[r] # rec[r]
  <2>1. /\ pc[r] = "lookup" /\ UNCHANGED <<store, req, arrived>>
    BY <1>2 DEF Lookup
  <2>2. rec'[r] \in Rows /\ rec'[r].secret = req[r].cred.secret
    <3> DEFINE Found(k) == k.secret = req[r].cred.secret
    <3>1. rec' = [rec EXCEPT ![r] =
                    IF \E k \in Rows : Found(k) THEN CHOOSE k \in Rows : Found(k) ELSE None]
          \/ rec' = [rec EXCEPT ![r] = None]
      BY <1>2 DEF Lookup, Return
    <3>2. rec'[r] = (IF \E k \in Rows : Found(k) THEN CHOOSE k \in Rows : Found(k) ELSE None)
      BY <3>1 DEF IInv, TypeOK
    <3> HIDE DEF Found
    <3>3. \E k \in Rows : Found(k)
      BY <3>2
    <3>4. rec'[r] = CHOOSE k \in Rows : Found(k)
      BY <3>2, <3>3
    <3>5. QED
      BY <3>3, <3>4 DEF Found
  <2>3. PICK i \in KeyIds : store[i] = rec'[r] /\ store[i] # None
    BY <2>2 DEF Rows
  <2>4. ByKey(r)
    BY <2>1 DEF IInv, StageInv, Stage
  <2>5. store[i].secret \in arrived[r].acked => store[i].revoked # None
    BY <2>3 DEF IInv, AckInv
  <2>6. QED
    BY <2>1, <2>2, <2>3, <2>4, <2>5 DEF Agree, ByKey
<1>3. QED
  BY <1>1, <1>2, RequestsMove

LEMMA StoredLasts ==
    ASSUME IInv, [Next]_vars, NEW s, Stored(s)
    PROVE  Stored(s)'
<1>1. PICK i \in KeyIds : store[i] # None /\ store[i].secret = s
  BY DEF Stored
<1>2. store'[i] # None /\ store'[i].secret = s
  BY <1>1, RowsAgree DEF Agree
<1>3. QED
  BY <1>2 DEF Stored

\* The secret of a new row is new: nobody has seen it or revoked it.
LEMMA NewSecret ==
    ASSUME IInv, NEW r \in Requests, Insert(r)
    PROVE  ~Stored(r)
  BY InsertedRow DEF Stored, IInv, RowInv

LEMMA StepUsed ==
    ASSUME IInv, [Next]_vars
    PROVE  UsedInv'
<1> SUFFICES ASSUME NEW r \in Requests, pc'[r] \in Using, ByKey(r)'
             PROVE  WasUsable(r)'
  BY DEF UsedInv, Using
<1>1. \/ pc[r] \in Using
      \/ pc[r] = "decide" /\ (ByKey(r) => Usable(rec[r]))
  BY RequestsMove
<1>2. req'[r] = req[r] /\ arrived'[r] = arrived[r]
  BY <1>1, RequestsLast DEF Using
<1>3. ByKey(r)
  BY <1>2 DEF ByKey
<1>4. WasUsable(r)
  <2>1. CASE pc[r] \in Using
    BY <1>3, <2>1 DEF IInv, UsedInv, Using
  <2>2. CASE Usable(rec[r])
    <3>1. rec[r] \in Key /\ rec[r].revoked = None /\ ~IsExpired(rec[r])
      BY <2>2 DEF Usable, IInv, TypeOK
    <3>2. PICK i \in KeyIds : Agree(rec[r], store[i])
      BY <2>2 DEF Usable, IInv, HeldInv
    <3>3. rec[r].secret = req[r].cred.secret /\ rec[r].secret \notin arrived[r].acked
      BY <2>2, <3>1 DEF Usable, IInv, HeldInv
    <3>4. rec[r].expires # None => arrived[r].at < rec[r].expires
      <4>1. arrived[r].at \in Nat /\ now \in Nat /\ arrived[r].at <= now
        BY NoneIsNoKey DEF IInv, TypeOK, AckInv
      <4>2. rec[r].expires # None => rec[r].expires \in Nat /\ ~(rec[r].expires <= now)
        BY <3>1, NoneIsNoKey DEF IsExpired, Key
      <4>3. QED
        BY <4>1, <4>2
    <3>5. QED
      BY <3>2, <3>3, <3>4 DEF WasUsable, Agree
  <2>3. QED
    BY <1>1, <1>3, <2>1, <2>2
<1>5. PICK i \in KeyIds : /\ store[i] # None /\ store[i].secret = req[r].cred.secret
                          /\ store[i].expires # None => arrived[r].at < store[i].expires
  BY <1>4 DEF WasUsable
<1>6. /\ store'[i] # None /\ store'[i].secret = store[i].secret
      /\ store'[i].expires = store[i].expires
  BY <1>5, RowsAgree DEF Agree
<1>7. QED
  BY <1>2, <1>4, <1>5, <1>6 DEF WasUsable

\* Answers to revocations say what the table already has.
LEMMA AcknowledgedRows ==
    ASSUME IInv, [Next]_vars, NEW s \in acked'
    PROVE  Stored(s) /\ \A i \in KeyIds : store[i] # None /\ store[i].secret = s => store[i].revoked # None
<1>1. CASE s \in acked
  BY <1>1 DEF IInv, AckInv
<1>2. CASE s \notin acked
  <2>1. PICK r \in Requests : Reply(r) /\ req[r].op # "create"
    BY <1>2, AnswersGrow
  <2>2. s \in arrived[r].stored /\ store[body[r].id] # None /\ store[body[r].id].secret = s
    BY <1>2, <2>1 DEF Reply
  <2>3. pc[r] = "reply" /\ req[r].op = "revoke" /\ body[r].id \in KeyIds
    BY <2>1, BodyShape DEF Reply, IInv, StageInv, Stage
  <2>4. store[body[r].id].revoked # None
    BY <2>2, <2>3 DEF IInv, AckInv
  <2>5. ASSUME NEW i \in KeyIds, store[i] # None, store[i].secret = s PROVE i = body[r].id
    BY <2>2, <2>3, <2>5 DEF IInv, RowInv
  <2>6. QED
    BY <2>2, <2>3, <2>4, <2>5 DEF IInv, AckInv
<1>3. QED
  BY <1>1, <1>2

\* So does a revocation that is about to be answered.
LEMMA StepRevoking ==
    ASSUME IInv, [Next]_vars, NEW r \in Requests, pc'[r] = "reply", req'[r].op = "revoke",
           store'[body'[r].id] # None, store'[body'[r].id].secret \in arrived'[r].stored
    PROVE  store'[body'[r].id].revoked # None
<1>1. pc[r] = "reply" \/ Insert(r) \/ Revoke(r)
  BY RequestsMove
<1>2. CASE Insert(r)
  <2>1. req[r].op = "create" /\ UNCHANGED req
    BY <1>2, InsertedRow DEF Insert
  <2>2. QED
    BY <2>1
<1>3. CASE pc[r] = "reply" \/ Revoke(r)
  <2>1. pc[r] \in {"revoke", "reply"}
    BY <1>3 DEF Revoke
  <2>2. req'[r] = req[r] /\ arrived'[r] = arrived[r] /\ body'[r] = body[r]
    BY <2>1, RequestsLast
  <2> DEFINE i == body[r].id
  <2>3. i \in KeyIds
    BY <2>1, BodyShape DEF IInv, StageInv, Stage
  <2>4. CASE store[i] = None
    <3>1. PICK q \in Requests : Insert(q) /\ body[q].id = i /\ store'[i] = NewRow(q)
      BY <2>2, <2>3, <2>4, RowsAge
    <3>2. store'[i].secret = q
      BY <3>1 DEF NewRow
    <3>3. Stored(q)
      BY <2>2, <3>2 DEF IInv, AckInv
    <3>4. QED
      BY <3>1, <3>3, NewSecret
  <2>5. CASE store[i] # None /\ Revoke(r)
    <3>1. store'[i] = Revoked(store[i], stamp[r])
      BY <2>3, <2>5 DEF Revoke, IInv, TypeOK
    <3>2. store[i] \in Key /\ stamp[r] # None
      BY <2>3, <2>5, NoneIsNoKey DEF IInv, TypeOK
    <3>3. store'[i].revoked # None
      BY <3>1, <3>2 DEF Revoked, Key
    <3>4. QED
      BY <2>2, <3>3
  <2>6. CASE store[i] # None /\ pc[r] = "reply"
    <3>1. store'[i].secret = store[i].secret /\ (store[i].revoked # None => store'[i].revoked # None)
      BY <2>3, <2>6, RowsAgree DEF Agree
    <3>2. store[i].revoked # None
      BY <2>2, <2>6, <3>1 DEF IInv, AckInv
    <3>3. QED
      BY <2>2, <3>1, <3>2
  <2>7. QED
    BY <1>3, <2>4, <2>5, <2>6
<1>4. QED
  BY <1>1, <1>2, <1>3

LEMMA StepAck ==
    ASSUME IInv, [Next]_vars
    PROVE  AckInv'
<1>1. ASSUME NEW r \in Requests
      PROVE  /\ arrived'[r].at <= now' /\ arrived'[r].acked \subseteq acked'
             /\ \A s \in arrived'[r].stored : Stored(s)'
  <2>1. now \in Nat /\ now' \in Nat /\ arrived[r].at \in Nat
    BY StepTypes, NoneIsNoKey DEF IInv, TypeOK
  <2>2. CASE arrived'[r] = arrived[r]
    <3>1. /\ arrived[r].at <= now /\ arrived[r].acked \subseteq acked
          /\ \A s \in arrived[r].stored : Stored(s)
      BY DEF IInv, AckInv
    <3>2. arrived'[r].at <= now'
      BY <2>1, <2>2, <3>1, AnswersGrow
    <3>3. arrived'[r].acked \subseteq acked'
      BY <2>2, <3>1, AnswersGrow
    <3>4. QED
      BY <2>2, <3>1, <3>2, <3>3, StoredLasts
  <2>3. CASE Receive(r)
    <3>1. /\ arrived'[r] = [at |-> now, stored |-> {k.secret : k \in Rows}, acked |-> acked]
          /\ UNCHANGED <<store, now, acked>>
      BY <2>3 DEF Receive, IInv, TypeOK
    <3>2. \A s \in {k.secret : k \in Rows} : Stored(s)
      BY DEF Rows, Stored
    <3>3. QED
      BY <2>1, <3>1, <3>2, StoredLasts
  <2>4. arrived'[r] = arrived[r] \/ Receive(r)
    <3>1. CASE \E q \in Requests \ {r} : Step(q)
      BY <3>1, OthersWait DEF IInv
    <3>2. CASE Step(r) /\ ~Receive(r)
      BY <3>2 DEF Step, Lookup, Verify, Authorize, Validate, GetByID, Insert, Fail, Revoke, Reply,
                  StampTouch, Touch
    <3>3. CASE Tick \/ Crash \/ UNCHANGED vars
      BY <3>3 DEF Tick, Crash, vars
    <3>4. QED
      BY <3>1, <3>2, <3>3 DEF Next
  <2>5. QED
    BY <2>2, <2>3, <2>4
<1>2. \A s \in acked' : Stored(s)'
  BY AcknowledgedRows, StoredLasts
<1>3. ASSUME NEW i \in KeyIds, store'[i] # None, store'[i].secret \in acked'
      PROVE  store'[i].revoked # None
  <2>1. CASE store[i] # None
    <3>1. store'[i].secret = store[i].secret /\ (store[i].revoked # None => store'[i].revoked # None)
      BY <2>1, RowsAgree DEF Agree
    <3>2. store[i].revoked # None
      BY <1>3, <2>1, <3>1, AcknowledgedRows
    <3>3. QED
      BY <3>1, <3>2
  <2>2. CASE store[i] = None
    <3>1. PICK r \in Requests : Insert(r) /\ store'[i] = NewRow(r)
      BY <1>3, <2>2, RowsAge
    <3>2. store'[i].secret = r
      BY <3>1 DEF NewRow
    <3>3. Stored(r)
      BY <1>3, <3>2, AcknowledgedRows
    <3>4. QED
      BY <3>1, <3>3, NewSecret
  <2>3. QED
    BY <2>1, <2>2
<1>4. QED
  BY <1>1, <1>2, <1>3, StepRevoking DEF AckInv

LEMMA InitIInv == Init => IInv
<1> SUFFICES ASSUME Init PROVE IInv
  OBVIOUS
<1>1. 0 \in Time
  BY KeysAssumption DEF Time
<1>2. TypeOK
  BY <1>1 DEF Init, TypeOK
<1>3. StageInv
  BY DEF Init, StageInv, Stage
<1>4. RowInv /\ MadeInv /\ HeldInv /\ UsedInv
  BY DEF Init, RowInv, MadeInv, HeldInv, UsedInv
<1>5. AckInv
  BY DEF Init, AckInv
<1>6. QED
  BY <1>2, <1>3, <1>4, <1>5 DEF IInv

LEMMA StepIInv == IInv /\ [Next]_vars => IInv'
<1> SUFFICES ASSUME IInv, [Next]_vars PROVE IInv'
  OBVIOUS
<1>1. StageInv'
  BY StepStage DEF IInv
<1>2. QED
  BY <1>1, StepTypes, StepRow, StepMade, StepHeld, StepAck, StepUsed DEF IInv

-----------------------------------------------------------------------------
(* Where keys come from                                                    *)

\* OwnerIsInherited, row by row.
Inherits(i) ==
    LET c == req[store[i].secret].cred IN
    IF c.kind = "key"
    THEN \E j \in KeyIds : /\ store[j] # None /\ store[j].secret = c.secret
                           /\ "admin" \in store[j].scopes /\ store[j].owner = store[i].owner
    ELSE c.canIssue /\ c.who = store[i].owner

OwnerInv == \A i \in KeyIds : store[i] # None => Inherits(i)

\* What a row inherits, it keeps.
LEMMA InheritsLasts ==
    ASSUME IInv, [Next]_vars, NEW i \in KeyIds, store[i] # None, Inherits(i)
    PROVE  Inherits(i)'
<1> DEFINE s == store[i].secret
<1>1. s \in Requests /\ pc[s] # "new"
  BY DEF IInv, TypeOK, Key, RowInv
<1>2. /\ store'[i].secret = s /\ store'[i].owner = store[i].owner /\ req'[s] = req[s]
  BY <1>1, RowsAgree, RequestsLast DEF Agree
<1>3. CASE req[s].cred.kind = "key"
  <2>1. PICK j \in KeyIds : /\ store[j] # None /\ store[j].secret = req[s].cred.secret
                            /\ "admin" \in store[j].scopes /\ store[j].owner = store[i].owner
    BY <1>3 DEF Inherits
  <2>2. /\ store'[j] # None /\ store'[j].secret = store[j].secret
        /\ store'[j].scopes = store[j].scopes /\ store'[j].owner = store[j].owner
    BY <2>1, RowsAgree DEF Agree
  <2>3. QED
    BY <1>2, <1>3, <2>1, <2>2 DEF Inherits
<1>4. CASE req[s].cred.kind # "key"
  BY <1>2, <1>4 DEF Inherits
<1>5. QED
  BY <1>3, <1>4

\* The row of a create by key is its parent's as it was read, and as it still is.
LEMMA NewInherits ==
    ASSUME IInv, [Next]_vars, NEW r \in Requests, Insert(r), NEW i \in KeyIds, store'[i] = NewRow(r)
    PROVE  Inherits(i)'
<1>1. pc[r] = "insert" /\ req'[r] = req[r] /\ Stage(r)
  BY InsertedRow DEF Insert, IInv, StageInv
<1>2. store'[i].secret = r /\ store'[i].owner = CallerOwner(r)
  BY DEF NewRow
<1>3. CASE ByKey(r)
  <2>1. rec[r] # None /\ "admin" \in rec[r].scopes
    BY <1>1, <1>3 DEF Stage
  <2>2. rec[r].secret = req[r].cred.secret
    BY <2>1 DEF IInv, HeldInv
  <2>3. PICK j \in KeyIds : Agree(rec[r], store[j])
    BY <2>1 DEF IInv, HeldInv
  <2>4. /\ store'[j] # None /\ store'[j].secret = req[r].cred.secret
        /\ "admin" \in store'[j].scopes /\ store'[j].owner = rec[r].owner
    BY <2>1, <2>2, <2>3, RowsAgree DEF Agree
  <2>5. CallerOwner(r) = rec[r].owner
    BY <1>3 DEF CallerOwner, ByKey
  <2>6. QED
    BY <1>1, <1>2, <1>3, <2>4, <2>5 DEF Inherits, ByKey
<1>4. CASE ~ByKey(r)
  <2>1. req[r].cred.canIssue /\ CallerOwner(r) = req[r].cred.who
    BY <1>1, <1>4 DEF Stage, CallerOwner, ByKey
  <2>2. QED
    BY <1>1, <1>2, <1>4, <2>1 DEF Inherits, ByKey
<1>5. QED
  BY <1>3, <1>4

LEMMA StepOwner == IInv /\ OwnerInv /\ [Next]_vars => OwnerInv'
<1> SUFFICES ASSUME IInv, OwnerInv, [Next]_vars, NEW i \in KeyIds, store'[i] # None
             PROVE  Inherits(i)'
  BY DEF OwnerInv
<1>1. CASE store[i] # None
  BY <1>1, InheritsLasts DEF OwnerInv
<1>2. CASE store[i] = None
  BY <1>2, RowsAge, NewInherits
<1>3. QED
  BY <1>1, <1>2

-----------------------------------------------------------------------------
(* Theorems                                                                *)

\* The inductive invariant holds in every reachable state.
THEOREM Invariance == Spec => []IInv
  BY InitIInv, StepIInv, PTL DEF Spec

\* Every variable keeps its type; no statement writes a row the table cannot hold.
THEOREM TypeCorrect == Spec => []TypeOK
<1>1. IInv => TypeOK
  BY DEF IInv
<1>2. QED
  BY <1>1, Invariance, PTL

\* After a 204 no request that arrives later gets anything with that key, however
\* long it held a row it had read, and whatever touches and creates did meanwhile.
THEOREM RevocationHolds == Spec => []RevokeIsFinal
<1>1. IInv => RevokeIsFinal
  BY DEF IInv, UsedInv, WasUsable, ByKey, RevokeIsFinal
<1>2. QED
  BY <1>1, Invariance, PTL

\* Nor does a request that arrives at or after the second a key expires.
THEOREM ExpiryHolds == Spec => []ExpiryIsFinal
<1>1. IInv => ExpiryIsFinal
  <2> SUFFICES ASSUME IInv, NEW r \in Requests, pc[r] = "ok", req[r].cred.kind = "key"
               PROVE  \E k \in Rows : /\ k.secret = req[r].cred.secret
                                      /\ k.expires # None => arrived[r].at < k.expires
    BY DEF ExpiryIsFinal
  <2>1. PICK i \in KeyIds : /\ store[i] # None /\ store[i].secret = req[r].cred.secret
                            /\ store[i].expires # None => arrived[r].at < store[i].expires
    BY DEF IInv, UsedInv, WasUsable, ByKey
  <2>2. store[i] \in Rows
    BY <2>1 DEF Rows
  <2>3. QED
    BY <2>1, <2>2
<1>2. QED
  BY <1>1, Invariance, PTL

\* Creates that race for an id, crashes and retries never give it to two clients.
THEOREM IdsAreUnique == Spec => []AnsweredKeysAreStored
<1>1. IInv => AnsweredKeysAreStored
  BY DEF IInv, TypeOK, MadeInv, Made, AnsweredKeysAreStored
<1>2. QED
  BY <1>1, Invariance, PTL

\* The audit trail: no row disappears, and of a row only the last use changes and,
\* once, the revocation.
THEOREM AuditTrail == Spec => RowsOnlyAge
<1>1. IInv /\ [Next]_vars =>
        [\A i \in KeyIds : store[i] # None =>
            /\ store'[i] # None
            /\ store[i].revoked # None => store'[i].revoked = store[i].revoked
            /\ store'[i] = [store[i] EXCEPT !.revoked = store'[i].revoked,
                                            !.lastUsed = store'[i].lastUsed]]_store
  BY RowsAge DEF Ages
<1>2. QED
  BY <1>1, Invariance, PTL DEF Spec, RowsOnlyAge

\* Every key can be traced to somebody who might issue it.
THEOREM OwnersAreTraced == Spec => []OwnerIsInherited
<1>1. Init => OwnerInv
  BY DEF Init, OwnerInv
<1>2. OwnerInv => OwnerIsInherited
  <2> SUFFICES ASSUME OwnerInv, NEW k \in Rows
               PROVE  LET c == req[k.secret].cred IN
                      IF c.kind = "key"
                      THEN \E parent \in Rows : /\ parent.secret = c.secret
                                                /\ "admin" \in parent.scopes
                                                /\ parent.owner = k.owner
                      ELSE c.canIssue /\ c.who = k.owner
    BY DEF OwnerIsInherited
  <2>1. PICK i \in KeyIds : store[i] = k /\ store[i] # None
    BY DEF Rows
  <2>2. Inherits(i)
    BY <2>1 DEF OwnerInv
  <2>3. \A j \in KeyIds : store[j] # None => store[j] \in Rows
    BY DEF Rows
  <2>4. QED
    BY <2>1, <2>2, <2>3 DEF Inherits
<1>3. QED
  BY <1>1, <1>2, StepOwner, Invariance, PTL DEF Spec

=============================================================================

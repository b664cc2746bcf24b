----------------------- MODULE ConsumerKeysLedgerProofs -----------------------
(* ConsumerKeys implements KeyLedger, for every value of its constants.    *)
EXTENDS ConsumerKeysProofs

ledger == [i \in {j \in KeyIds : store[j] # None} |-> Entry(store[i])]
state == [r \in Requests |-> Progress(r)]

-----------------------------------------------------------------------------
(* What a step changes of the ledger and of the requests                   *)

\* Where a request is in the ledger's terms, before and after a step.
LEMMA Position ==
    ASSUME NEW r \in Requests
    PROVE  /\ pc[r] = "decide" /\ Holds(r) => Progress(r) = "entitled"
           /\ pc[r] = "decide" /\ ~Holds(r) => Progress(r) = "waiting"
           /\ pc[r] # "decide" => Progress(r) = Phase[pc[r]]
           /\ pc'[r] = "decide" /\ Holds(r)' => Progress(r)' = "entitled"
           /\ pc'[r] = "decide" /\ ~Holds(r)' => Progress(r)' = "waiting"
           /\ pc'[r] # "decide" => Progress(r)' = Phase[pc'[r]]
  BY DEF Progress, Holds

\* A request that nothing happens to stays where it is.
LEMMA SameProgress ==
    ASSUME NEW q \in Requests, pc'[q] = pc[q], req'[q] = req[q], rec'[q] = rec[q], now' = now
    PROVE  Progress(q)' = Progress(q)
  BY DEF Progress, Holds

\* What a request does moves no other one.
LEMMA OneMoves ==
    ASSUME TypeOK, NEW r \in Requests, Step(r)
    PROVE  /\ state' = [state EXCEPT ![r] = Progress(r)']
           /\ now' = now
<1>1. now' = now
  BY DEF Step, Receive, Lookup, Verify, Authorize, Validate, GetByID, Insert, Fail, Revoke,
         Reply, StampTouch, Touch
<1>2. \A q \in Requests \ {r} : Progress(q)' = Progress(q)
  BY <1>1, OthersWait, SameProgress
<1>3. QED
  BY <1>1, <1>2 DEF state

\* The ledger has the same keys if the table has the same rows, but for their use.
LEMMA SameLedger ==
    ASSUME \A i \in KeyIds : /\ store'[i] = None <=> store[i] = None
                             /\ store[i] # None => Entry(store'[i]) = Entry(store[i])
    PROVE  ledger' = ledger
<1>1. {j \in KeyIds : store'[j] # None} = {j \in KeyIds : store[j] # None}
  OBVIOUS
<1>2. QED
  BY <1>1 DEF ledger

LEMMA Issued ==
    ASSUME NEW i \in KeyIds, store[i] # None
    PROVE  Entry(store[i]) \in Ledger!Keys
  BY DEF Ledger!Keys

LEMMA KeysAreRows ==
    ASSUME NEW k \in Ledger!Keys
    PROVE  \E i \in KeyIds : store[i] # None /\ k = Entry(store[i])
  BY DEF Ledger!Keys

-----------------------------------------------------------------------------
(* Every step is one of the ledger's, or a stutter                         *)

LEMMA Stutters ==
    ASSUME TypeOK, NEW r \in Requests, Step(r), ledger' = ledger, req' = req,
           Progress(r)' = Progress(r)
    PROVE  UNCHANGED Ledger!ledgerVars
<1>1. state' = state
  BY OneMoves DEF state
<1>2. QED
  BY <1>1, OneMoves DEF Ledger!ledgerVars, ledger, state

LEMMA GivesUp ==
    ASSUME TypeOK, NEW r \in Requests, Step(r), Return(r, "refused"), pc[r] # "new",
           store' = store, req' = req
    PROVE  Ledger!GiveUp
<1>1. Progress(r)' = "over"
  BY Position DEF Return, Goto, TypeOK, Phase
<1>2. Progress(r) # "new"
  BY Position DEF TypeOK, Phase, InFlight, Answered
<1>3. ledger' = ledger
  BY DEF ledger
<1>4. QED
  BY <1>1, <1>2, <1>3, OneMoves DEF Ledger!GiveUp, ledger, state

LEMMA Asks ==
    ASSUME TypeOK, NEW r \in Requests, Receive(r)
    PROVE  Ledger!Ask(r)
<1>1. PICK i \in Inputs : /\ req' = [req EXCEPT ![r] = i]
                          /\ Goto(r, IF i.cred.kind = "key" THEN "lookup" ELSE "decide")
  BY DEF Receive
<1>2. i.cred.kind \in {"key", "identity"}
  BY DEF Inputs, Creds
<1>3. Progress(r) = "new" /\ req'[r] = i
  BY <1>1, Position DEF Receive, Phase, TypeOK
<1>4. /\ Progress(r)' \in {"waiting", "entitled"}
      /\ Progress(r)' = "entitled" => i.cred.kind = "identity" /\ i.cred.canIssue
  <2>1. CASE i.cred.kind = "key"
    BY <1>1, <1>3, <2>1, Position DEF Goto, TypeOK, Phase
  <2>2. CASE i.cred.kind = "identity"
    <3>1. pc'[r] = "decide" /\ (Holds(r)' => i.cred.canIssue)
      BY <1>1, <1>3, <2>2 DEF Goto, TypeOK, Holds
    <3>2. QED
      BY <2>2, <3>1, Position
  <2>3. QED
    BY <1>2, <2>1, <2>2
<1>5. ledger' = ledger
  BY DEF Receive, ledger
<1>6. state' = [state EXCEPT ![r] = Progress(r)'] /\ now' = now
  BY OneMoves DEF Step
<1>7. QED
  BY <1>1, <1>3, <1>4, <1>5, <1>6 DEF Ledger!Ask, Ledger!Becomes, ledger, state

\* What entitles a request is the row it reads, as it reads it.
LEMMA Entitles ==
    ASSUME IInv, NEW r \in Requests, Lookup(r), ~Return(r, "refused")
    PROVE  Ledger!Entitle(r) \/ UNCHANGED Ledger!ledgerVars
<1>1. /\ pc[r] = "lookup" /\ ByKey(r) /\ TypeOK /\ UNCHANGED <<store, now, req>>
      /\ Goto(r, "decide") /\ Step(r)
  BY DEF Lookup, IInv, StageInv, Stage, Step
<1>2. Progress(r) = "waiting" /\ ledger' = ledger
  BY <1>1, Position DEF Phase, ledger
<1>3. CASE Holds(r)'
  <2>1. Progress(r)' = "entitled"
    BY <1>1, <1>3, Position DEF Goto, TypeOK
  <2>2. /\ rec'[r] # None /\ rec'[r].revoked = None
        /\ rec'[r].expires # None => now < rec'[r].expires
        /\ req[r].op # "verify" => "admin" \in rec'[r].scopes
    BY <1>1, <1>3 DEF Holds, ByKey
  <2> DEFINE Found(k) == k.secret = req[r].cred.secret
  <2>3. /\ \E k \in Rows : Found(k)
        /\ rec'[r] = CHOOSE k \in Rows : Found(k)
    BY <1>1, <2>2 DEF Lookup, IInv, TypeOK
  <2>4. rec'[r] \in Rows /\ Found(rec'[r])
    BY <2>3
  <2> HIDE DEF Found
  <2>5. PICK i \in KeyIds : store[i] # None /\ rec'[r] = store[i]
    BY <2>4 DEF Rows
  <2> DEFINE k == Entry(store[i])
  <2>6. k \in Ledger!Keys
    BY <2>5, Issued
  <2>7. /\ k.secret = req[r].cred.secret /\ ~k.struck
        /\ k.expires # None => now < k.expires
        /\ req[r].op # "verify" => "admin" \in k.scopes
    BY <2>2, <2>4, <2>5 DEF Entry, Found
  <2>8. Ledger!Live(k)
    BY <2>7 DEF Ledger!Live
  <2> HIDE DEF k
  <2>9. Ledger!Entitle(r)
    BY <1>1, <1>2, <2>1, <2>6, <2>7, <2>8, OneMoves
    DEF Ledger!Entitle, Ledger!Becomes, ByKey, ledger, state
  <2>10. QED
    BY <2>9
<1>4. CASE ~Holds(r)'
  <2>1. Progress(r)' = "waiting"
    BY <1>1, <1>4, Position DEF Goto, TypeOK
  <2>2. QED
    BY <1>1, <1>2, <2>1, Stutters
<1>5. QED
  BY <1>3, <1>4

\* Of a row that is usable now, the handler knows all that entitles.
LEMMA UsableHolds ==
    ASSUME TypeOK, NEW r \in Requests, ByKey(r), Usable(rec[r]),
           req[r].op # "verify" => "admin" \in rec[r].scopes
    PROVE  Holds(r)
<1>1. rec[r] \in Key /\ now \in Nat /\ rec[r].expires \in Nat \cup {None}
  BY NoneIsNoKey DEF TypeOK, Usable, Key
<1>2. rec[r].expires # None => now < rec[r].expires
  BY <1>1 DEF Usable, IsExpired
<1>3. QED
  BY <1>2 DEF Holds, ByKey, Usable

LEMMA Uses ==
    ASSUME IInv, NEW r \in Requests, Verify(r), ~Return(r, "refused")
    PROVE  Ledger!Use(r)
<1>1. /\ pc[r] = "decide" /\ req[r].op = "verify" /\ Usable(rec[r]) /\ Goto(r, "ok")
      /\ UNCHANGED <<store, now, req>> /\ TypeOK /\ Step(r)
  BY DEF Verify, IInv, Step
<1>2. ByKey(r)
  BY <1>1, InputShape DEF IInv, StageInv, Stage, ByKey
<1>3. Progress(r) = "entitled"
  BY <1>1, <1>2, UsableHolds, Position
<1>4. Progress(r)' = "done"
  BY <1>1, Position DEF Goto, TypeOK, Phase
<1>5. ledger' = ledger
  BY <1>1 DEF ledger
<1>6. QED
  BY <1>1, <1>3, <1>4, <1>5, OneMoves DEF Ledger!Use, Ledger!Becomes, ledger, state

\* Who is authorised was entitled when it was read, and still is.
LEMMA Authorized ==
    ASSUME IInv, NEW r \in Requests, Authorize(r), ~Return(r, "refused")
    PROVE  UNCHANGED Ledger!ledgerVars
<1>1. /\ pc[r] = "decide" /\ req[r].op # "verify" /\ CanIssue(r)
      /\ Goto(r, "validate") \/ Goto(r, "revoke")
      /\ UNCHANGED <<store, now, req>> /\ TypeOK /\ Step(r)
  BY DEF Authorize, IInv, Step
<1>2. Holds(r)
  <2>1. CASE ByKey(r)
    BY <1>1, <2>1, UsableHolds DEF CanIssue, ByKey
  <2>2. CASE ~ByKey(r)
    BY <1>1, <2>2 DEF CanIssue, ByKey, Holds
  <2>3. QED
    BY <2>1, <2>2
<1>3. Progress(r) = "entitled" /\ Progress(r)' = "entitled"
  BY <1>1, <1>2, Position DEF Goto, TypeOK, Phase
<1>4. ledger' = ledger
  BY <1>1 DEF ledger
<1>5. QED
  BY <1>1, <1>3, <1>4, Stutters

\* Between being authorised and its statement a request does nothing for the ledger,
\* nor does it after its statement.
LEMMA Waits ==
    ASSUME IInv, NEW r \in Requests, Step(r), ~Return(r, "refused"),
           Validate(r) \/ GetByID(r) \/ Reply(r) \/ StampTouch(r)
    PROVE  UNCHANGED Ledger!ledgerVars
<1>1. TypeOK /\ UNCHANGED <<store, now, req>>
  BY DEF Validate, GetByID, Reply, StampTouch, IInv
<1>2. ledger' = ledger
  BY <1>1 DEF ledger
<1>3. Progress(r)' = Progress(r)
  <2>1. CASE Validate(r) \/ GetByID(r)
    BY <1>1, <2>1, Position DEF Validate, GetByID, Goto, TypeOK, Phase
  <2>2. CASE Reply(r)
    BY <1>1, <2>2, Position DEF Reply, Return, Goto, TypeOK, Phase
  <2>3. CASE StampTouch(r)
    BY <1>1, <2>3, SameProgress DEF StampTouch
  <2>4. QED
    BY <2>1, <2>2, <2>3
<1>4. QED
  BY <1>1, <1>2, <1>3, Stutters

\* When a key was last used is not in the ledger.
LEMMA TouchStutters ==
    ASSUME IInv, NEW r \in Requests, Touch(r)
    PROVE  UNCHANGED Ledger!ledgerVars
<1>1. /\ TypeOK /\ Step(r) /\ UNCHANGED <<now, req>> /\ pc[r] = "ok" /\ pc'[r] = "ok"
  BY DEF Touch, Return, Goto, IInv, TypeOK, StageInv, Stage, Step
<1>2. ASSUME NEW i \in KeyIds
      PROVE  /\ store'[i] = None <=> store[i] = None
             /\ store[i] # None => Entry(store'[i]) = Entry(store[i])
  <2>1. store'[i] = store[i] \/ (store[i] # None /\ store'[i] = Touched(store[i], r))
    BY <1>1 DEF Touch, TypeOK
  <2>2. CASE store'[i] = store[i]
    BY <2>2
  <2>3. CASE store[i] # None /\ store'[i] = Touched(store[i], r)
    <3>1. store[i] \in Key /\ stamp[r] \in Time
      BY <1>1, <2>3 DEF TypeOK
    <3>2. store'[i] \in Key
      BY <2>3, <3>1 DEF Touched, Key
    <3>3. store'[i] # None
      BY <3>2, KeysAssumption
    <3>4. QED
      BY <2>3, <3>1, <3>3 DEF Touched, Entry, Key
  <2>4. QED
    BY <2>1, <2>2, <2>3
<1>3. ledger' = ledger
  BY <1>2, SameLedger
<1>4. Progress(r)' = Progress(r)
  BY <1>1, Position DEF Phase
<1>5. QED
  BY <1>1, <1>3, <1>4, Stutters

\* The row of a create is a new key, of a new secret, and its owner an heir.
LEMMA Issues ==
    ASSUME IInv, NEW r \in Requests, Insert(r), NEW i \in KeyIds, i = body[r].id
    PROVE  Ledger!Issue(r, i)
<1> DEFINE row == NewRow(r)
<1>1. /\ row \in Key /\ row # None /\ req[r].op = "create" /\ pc[r] = "insert"
      /\ store[i] = None /\ store' = [store EXCEPT ![i] = row]
  BY InsertedRow
<1>2. UNCHANGED <<now, req>> /\ Goto(r, "reply") /\ TypeOK /\ Step(r)
  BY DEF Insert, IInv, Step
<1>3. Progress(r) = "entitled" /\ Progress(r)' = "done"
  BY <1>1, <1>2, Position DEF Goto, TypeOK, Phase
<1>4. \A k \in Ledger!Keys : k.secret # r
  <2> SUFFICES ASSUME NEW k \in Ledger!Keys, k.secret = r PROVE FALSE
    OBVIOUS
  <2>1. PICK j \in KeyIds : store[j] # None /\ k = Entry(store[j])
    BY KeysAreRows
  <2>2. Stored(r)
    BY <2>1 DEF Stored, Entry
  <2>3. QED
    BY <2>2, NewSecret
<1>5. /\ i \notin DOMAIN ledger /\ i \in DOMAIN ledger' /\ ledger'[i] = Entry(row)
      /\ ledger' = [j \in DOMAIN ledger \cup {i} |-> IF j = i THEN ledger'[i] ELSE ledger[j]]
  <2>1. /\ store'[i] = row
        /\ \A j \in KeyIds \ {i} : store'[j] = store[j]
    BY <1>1, <1>2 DEF TypeOK
  <2> HIDE DEF row
  <2>2. {j \in KeyIds : store'[j] # None} = {j \in KeyIds : store[j] # None} \cup {i}
    BY <1>1, <2>1
  <2>3. QED
    BY <1>1, <2>1, <2>2 DEF ledger
<1>6. Entry(row).secret = r /\ ~Entry(row).struck
  BY DEF Entry, NewRow
<1>7. Ledger!Heir(r, Entry(row).owner)
  <2>1. Entry(row).owner = CallerOwner(r) /\ Stage(r)
    BY DEF Entry, NewRow, IInv, StageInv
  <2>2. CASE ByKey(r)
    <3>1. rec[r] # None /\ CallerOwner(r) = rec[r].owner
      BY <1>1, <2>1, <2>2 DEF Stage, CallerOwner, ByKey
    <3>2. PICK j \in KeyIds : rec[r].secret = req[r].cred.secret /\ Agree(rec[r], store[j])
      BY <3>1 DEF IInv, HeldInv
    <3>3. Entry(store[j]) \in Ledger!Keys
      BY <3>2, Issued DEF Agree
    <3>4. Entry(store[j]).secret = req[r].cred.secret /\ Entry(store[j]).owner = rec[r].owner
      BY <3>2 DEF Agree, Entry
    <3>5. QED
      BY <2>1, <2>2, <3>1, <3>3, <3>4 DEF Ledger!Heir, ByKey
  <2>3. CASE ~ByKey(r)
    BY <2>1, <2>3 DEF CallerOwner, ByKey, Ledger!Heir
  <2>4. QED
    BY <2>2, <2>3
<1> HIDE DEF row
<1>8. QED
  BY <1>1, <1>2, <1>3, <1>4, <1>5, <1>6, <1>7, OneMoves
  DEF Ledger!Issue, Ledger!Becomes, ledger, state

\* The first revocation strikes the key out, a later one changes nothing.
LEMMA Strikes ==
    ASSUME IInv, NEW r \in Requests, Revoke(r), NEW i \in KeyIds, i = body[r].id
    PROVE  Ledger!Strike(r, i)
<1>1. /\ pc[r] = "revoke" /\ req[r].op = "revoke" /\ UNCHANGED <<now, req>>
      /\ Goto(r, "reply") /\ TypeOK /\ Step(r)
  BY DEF Revoke, IInv, StageInv, Stage, Step
<1>2. Progress(r) = "entitled" /\ Progress(r)' = "done"
  BY <1>1, Position DEF Goto, TypeOK, Phase
<1>3. ASSUME NEW j \in KeyIds
      PROVE  /\ store'[j] = None <=> store[j] = None
             /\ store[j] # None => Entry(store'[j]) =
                    IF j = i THEN [Entry(store[j]) EXCEPT !.struck = TRUE] ELSE Entry(store[j])
  <2>1. CASE j # i \/ store[j] = None
    BY <1>1, <2>1 DEF Revoke, TypeOK
  <2>2. CASE j = i /\ store[j] # None
    <3>1. store[j] \in Key /\ stamp[r] \in Time /\ stamp[r] # None
      BY <1>1, <2>2, NoneIsNoKey DEF TypeOK
    <3>2. store'[j] = Revoked(store[j], stamp[r])
      BY <1>1, <2>2 DEF Revoke, TypeOK
    <3>3. store'[j] \in Key
      BY <3>1, <3>2 DEF Revoked, Key
    <3>4. store'[j] # None
      BY <3>3, KeysAssumption
    <3>5. /\ store'[j].secret = store[j].secret /\ store'[j].owner = store[j].owner
          /\ store'[j].scopes = store[j].scopes /\ store'[j].expires = store[j].expires
          /\ store'[j].revoked # None
      BY <3>1, <3>2 DEF Revoked, Key
    <3>6. QED
      BY <2>2, <3>4, <3>5 DEF Entry
  <2>3. QED
    BY <2>1, <2>2
<1>4. ledger' = [j \in DOMAIN ledger |->
                    IF j = i THEN [ledger[j] EXCEPT !.struck = TRUE] ELSE ledger[j]]
  <2>1. {j \in KeyIds : store'[j] # None} = {j \in KeyIds : store[j] # None}
    BY <1>3
  <2>2. QED
    BY <1>3, <2>1 DEF ledger
<1>5. QED
  BY <1>1, <1>2, <1>4, OneMoves DEF Ledger!Strike, Ledger!Becomes, ledger, state

\* Time entitles nobody.
LEMMA Ticks ==
    ASSUME IInv, Tick
    PROVE  Ledger!Tick
<1>1. UNCHANGED <<store, pc, req, rec>> /\ now' = now + 1 /\ TypeOK
  BY DEF Tick, IInv
<1>2. ASSUME NEW r \in Requests
      PROVE  \/ Progress(r)' = Progress(r)
             \/ Progress(r) = "entitled" /\ Progress(r)' = "waiting"
  <2>1. CASE pc[r] # "decide"
    BY <1>1, <2>1, Position
  <2>2. CASE pc[r] = "decide"
    <3>1. Holds(r)' => Holds(r)
      <4>1. now \in Nat /\ (rec[r] # None => rec[r].expires \in Nat \cup {None})
        BY <1>1, NoneIsNoKey DEF TypeOK, Key
      <4>2. QED
        BY <1>1, <4>1 DEF Holds
    <3>2. QED
      BY <1>1, <2>2, <3>1, Position
  <2>3. QED
    BY <2>1, <2>2
<1>3. ledger' = ledger
  BY <1>1 DEF ledger
<1>4. QED
  BY <1>1, <1>2, <1>3 DEF Ledger!Tick, ledger, state

\* With the process go the requests in flight, and nothing else.
LEMMA CrashGivesUp ==
    ASSUME IInv, Crash
    PROVE  Ledger!GiveUp
<1>1. UNCHANGED <<store, now, req>> /\ TypeOK
  BY DEF Crash, IInv
<1>2. ASSUME NEW r \in Requests
      PROVE  \/ Progress(r)' = Progress(r)
             \/ Progress(r) # "new" /\ Progress(r)' = "over"
  <2>1. pc'[r] = (IF pc[r] \in InFlight THEN "lost" ELSE pc[r])
    BY <1>1 DEF Crash, TypeOK
  <2>2. CASE pc[r] \in InFlight
    BY <2>1, <2>2, Position DEF InFlight, Phase
  <2>3. CASE pc[r] \notin InFlight
    BY <2>1, <2>3, Position DEF InFlight
  <2>4. QED
    BY <2>2, <2>3
<1>3. ledger' = ledger
  BY <1>1 DEF ledger
<1>4. QED
  BY <1>1, <1>2, <1>3 DEF Ledger!GiveUp, ledger, state

LEMMA StepLedger ==
    ASSUME IInv, [Next]_vars
    PROVE  [Ledger!Next]_(Ledger!ledgerVars)
<1>1. ASSUME NEW r \in Requests, Step(r)
      PROVE  Ledger!Next \/ UNCHANGED Ledger!ledgerVars
  <2>1. CASE Return(r, "refused") /\ ~(Receive(r) \/ Insert(r) \/ Revoke(r) \/ Reply(r)
                                      \/ StampTouch(r) \/ Touch(r))
    <3>1. TypeOK /\ pc[r] # "new" /\ UNCHANGED <<store, req>>
      BY <1>1, <2>1 DEF Step, Lookup, Verify, Authorize, Validate, GetByID, Fail, IInv
    <3>2. QED
      BY <1>1, <2>1, <3>1, GivesUp DEF Ledger!Next
  <2>2. CASE Receive(r)
    BY <2>2, Asks DEF IInv, Ledger!Next
  <2>3. CASE Lookup(r) /\ ~Return(r, "refused")
    BY <2>3, Entitles DEF Ledger!Next
  <2>4. CASE Verify(r) /\ ~Return(r, "refused")
    BY <2>4, Uses DEF Ledger!Next
  <2>5. CASE Authorize(r) /\ ~Return(r, "refused")
    BY <2>5, Authorized
  <2>6. CASE (Validate(r) \/ GetByID(r)) /\ ~Return(r, "refused")
    BY <1>1, <2>6, Waits
  <2>7. CASE Insert(r)
    <3>1. PICK i \in KeyIds : i = body[r].id
      BY <2>7, InsertedRow
    <3>2. Ledger!Issue(r, i)
      BY <2>7, <3>1, Issues
    <3>3. QED
      BY <3>2 DEF Ledger!Next
  <2>8. CASE Revoke(r)
    <3>1. PICK i \in KeyIds : i = body[r].id
      BY <2>8, BodyShape DEF Revoke, IInv, StageInv, Stage
    <3>2. Ledger!Strike(r, i)
      BY <2>8, <3>1, Strikes
    <3>3. QED
      BY <3>2 DEF Ledger!Next
  <2>9. CASE Reply(r) \/ StampTouch(r)
    <3>1. ~Return(r, "refused")
      BY <2>9 DEF Reply, StampTouch, Return, Goto, IInv, TypeOK, StageInv, Stage
    <3>2. QED
      BY <1>1, <2>9, <3>1, Waits
  <2>10. CASE Touch(r)
    BY <2>10, TouchStutters
  <2>11. CASE Fail(r) /\ ~Return(r, "refused")
    BY <2>11 DEF Fail
  <2>12. QED
    BY <1>1, <2>1, <2>2, <2>3, <2>4, <2>5, <2>6, <2>7, <2>8, <2>9, <2>10, <2>11 DEF Step
<1>2. CASE Tick
  BY <1>2, Ticks DEF Ledger!Next
<1>3. CASE Crash
  BY <1>3, CrashGivesUp DEF Ledger!Next
<1>4. CASE UNCHANGED vars
  <2>1. \A r \in Requests : Progress(r)' = Progress(r)
    BY <1>4, SameProgress DEF vars
  <2>2. UNCHANGED Ledger!ledgerVars
    BY <1>4, <2>1 DEF vars, Ledger!ledgerVars
  <2>3. QED
    BY <2>2
<1>5. QED
  BY <1>1, <1>2, <1>3, <1>4 DEF Next

-----------------------------------------------------------------------------

\* The consumer keys implement KeyLedger: whatever handlers do with rows they read
\* earlier, while others revoke, insert and touch, the clock goes on and the process
\* dies, each effect is one that ledger and clock allowed at one instant since its
\* request arrived.
THEOREM KeysAreALedger == Spec => KeepsKeyLedger
<1>1. Init => Ledger!Init
  <2> SUFFICES ASSUME Init PROVE Ledger!Init
    OBVIOUS
  <2>1. \A r \in Requests : Progress(r) = "new"
    BY Position DEF Init, Phase
  <2>2. {j \in KeyIds : store[j] # None} = {}
    BY DEF Init
  <2>3. QED
    BY <2>1, <2>2 DEF Init, Ledger!Init
<1>2. IInv /\ [Next]_vars => [Ledger!Next]_(Ledger!ledgerVars)
  BY StepLedger
<1>3. QED
  BY <1>1, <1>2, Invariance, PTL DEF Spec, KeepsKeyLedger, Ledger!Spec

=============================================================================

------------------------------ MODULE KeyLedger ------------------------------
(***************************************************************************)
(* What mcp-auth promises about consumer keys to operators and clients: a  *)
(* ledger in which an id is issued once and a key is struck out for good,  *)
(* and requests each of which is entitled, at one instant between its      *)
(* arrival and its effect, by what ledger and clock say at that instant.   *)
(* Requests may come to nothing at any time; the ledger stays.             *)
(***************************************************************************)
EXTENDS Naturals

CONSTANTS
    Requests,
    KeyIds,
    None        \* the key does not expire; nothing has been asked

VARIABLES
    ledger,     \* the keys issued, by id: [secret, owner, scopes, expires, struck]
    clock,
    ask,        \* what each request asks for, and who asks: [op, cred]
    state       \* of each request: "new", "waiting", "entitled", "done", "over"

ledgerVars == <<ledger, clock, ask, state>>

Keys == {ledger[i] : i \in DOMAIN ledger}
Becomes(r, s) == state' = [state EXCEPT ![r] = s]

Init ==
    /\ ledger = [i \in {} |-> None]
    /\ clock = 0
    /\ ask = [r \in Requests |-> None]
    /\ state = [r \in Requests |-> "new"]

\* Nobody is entitled on arrival but an identity that may issue.
Ask(r) ==
    /\ state[r] = "new"
    /\ state'[r] \in {"waiting", "entitled"}
    /\ ask' = [ask EXCEPT ![r] = ask'[r]]
    /\ state'[r] = "entitled" => ask'[r].cred.kind = "identity" /\ ask'[r].cred.canIssue
    /\ Becomes(r, state'[r])
    /\ UNCHANGED <<ledger, clock>>

\* A live key entitles to its use, and one that is an admin key to issue and
\* to revoke.
Live(k) == ~k.struck /\ (k.expires # None => clock < k.expires)

Entitle(r) ==
    /\ state[r] = "waiting"
    /\ ask[r].cred.kind = "key"
    /\ \E k \in Keys : /\ k.secret = ask[r].cred.secret
                       /\ Live(k)
                       /\ ask[r].op # "verify" => "admin" \in k.scopes
    /\ Becomes(r, "entitled")
    /\ UNCHANGED <<ledger, clock, ask>>

Use(r) ==
    /\ state[r] = "entitled"
    /\ ask[r].op = "verify"
    /\ Becomes(r, "done")
    /\ UNCHANGED <<ledger, clock, ask>>

\* Whose key a request can make.
Heir(r, owner) ==
    IF ask[r].cred.kind = "key"
    THEN \E k \in Keys : k.secret = ask[r].cred.secret /\ k.owner = owner
    ELSE ask[r].cred.who = owner

\* An id is issued once, and its secret to the request that made it.
Issue(r, i) ==
    /\ state[r] = "entitled"
    /\ ask[r].op = "create"
    /\ i \notin DOMAIN ledger
    /\ \A k \in Keys : k.secret # r
    /\ i \in DOMAIN ledger'
    /\ ledger'[i].secret = r /\ ~ledger'[i].struck /\ Heir(r, ledger'[i].owner)
    /\ ledger' = [j \in DOMAIN ledger \cup {i} |-> IF j = i THEN ledger'[i] ELSE ledger[j]]
    /\ Becomes(r, "done")
    /\ UNCHANGED <<clock, ask>>

\* An id that has not been issued is no error.
Strike(r, i) ==
    /\ state[r] = "entitled"
    /\ ask[r].op = "revoke"
    /\ ledger' = [j \in DOMAIN ledger |->
            IF j = i THEN [ledger[j] EXCEPT !.struck = TRUE] ELSE ledger[j]]
    /\ Becomes(r, "done")
    /\ UNCHANGED <<clock, ask>>

\* Requests are refused, or they are lost, or the answer of what is done is.
GiveUp ==
    /\ UNCHANGED <<ledger, clock, ask>>
    /\ \A r \in Requests : \/ state'[r] = state[r]
                           \/ state[r] # "new" /\ state'[r] = "over"
    /\ state' = [r \in Requests |-> state'[r]]

\* A key may expire before the request it entitles has any effect.
Tick ==
    /\ clock' = clock + 1
    /\ \A r \in Requests : \/ state'[r] = state[r]
                           \/ state[r] = "entitled" /\ state'[r] = "waiting"
    /\ state' = [r \in Requests |-> state'[r]]
    /\ UNCHANGED <<ledger, ask>>

Next ==
    \/ GiveUp
    \/ \E r \in Requests : Ask(r) \/ Entitle(r) \/ Use(r)
    \/ \E r \in Requests, i \in KeyIds : Issue(r, i) \/ Strike(r, i)
    \/ Tick

Spec == Init /\ [][Next]_ledgerVars

=============================================================================

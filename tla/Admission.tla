------------------------------ MODULE Admission ------------------------------
(***************************************************************************)
(* The admission chain of the engine as the chart configures it:           *)
(* scope-guard (images/scope-guard) may refuse a change, contributors      *)
(* (images/contributors) adds to the frontmatter of a page who wrote it,   *)
(* git-mirror is told.  The engine is external: it calls the webhooks one  *)
(* after the other, for one request or for several at a time, and lets the *)
(* change land if nobody refused.                                          *)
(*                                                                         *)
(* A scope is a workspace and project, and holds one page; a page is its   *)
(* list of contributors; one whose frontmatter has something else in that   *)
(* place is like one without.  `user` stands for the user and sub of an    *)
(* actor, which are treated alike, `client` for its agent and client, and  *)
(* `writes` for what contributors reads as a number there.                 *)
(***************************************************************************)
EXTENDS Integers, Sequences

CONSTANTS
    Requests,   \* changes the engine is asked for
    Inputs,     \* what they may ask
    Seeds,      \* contributors of the pages there are
    RuleSets,   \* ACL_RULES
    Scopes,
    Workspaces, \* the scopes of each
    Users,
    Clients,
    Anonymous,  \* an actor without a user: ""
    Star,       \* the rules of everybody: "*"
    Broken,     \* ACL_RULES that do not parse or compile
    Null,       \* an entry's user is null
    Missing,    \* an entry has no user
    Odd,        \* an entry that is not an object
    None        \* no page, no destination, no client, no scope-guard

Writes == {"write_page", "consolidate"}
Moves == {"move_project", "move_session"}
Ops == Writes \cup Moves \cup {"delete", "purge_project", "purge_workspace"}

\* ops = {} stands for an omitted list: every operation.
Rule == [user : Users \cup {Star, Anonymous}, scopes : SUBSET Scopes, ops : SUBSET Ops]

\* A request body is cut at 1 MiB by scope-guard, at 4 MiB by contributors.
Sizes == {"small", "large", "huge"}
Input == [op : Ops, user : Users \cup {Anonymous}, client : Clients \cup {None},
          scope : Scopes, dest : Scopes \cup {None}, size : Sizes]

Entry == [client : Clients, user : Users \cup {Null, Missing}, writes : Nat]
Contributors == Seq(Entry \cup {Odd})

ASSUME AdmissionAssumption ==
    /\ Inputs \subseteq Input
    /\ Workspaces \subseteq SUBSET Scopes
    /\ \A rules \in RuleSets \ {Broken, None} : rules \subseteq Rule
    /\ \A s \in Seeds \ {None} : s \in Contributors
    /\ Odd \notin Entry

VARIABLES
    rules,      \* what scope-guard was started with
    blocking,   \* webhooks.gitMirror.blocking
    policy,     \* failurePolicy of each webhook
    pages,
    call        \* the requests in the engine

vars == <<rules, blocking, policy, pages, call>>

Hooks == {"scope-guard", "contributors", "git-mirror"}

\* The chart forces that of scope-guard.
Policies == {p \in [Hooks -> {"ignore", "reject"}] : p["scope-guard"] = "reject"}

\* `at`: the place in the chain; `base`: the contributors the request started from;
\* `page`: what they have become; `asked`: webhooks that did their work; `told`:
\* what git-mirror got.
Calls == [pc : {"idle", "chain", "landed", "rejected"}, in : Inputs \cup {None}, at : 1..4,
          base : Contributors, page : Contributors, asked : SUBSET Hooks,
          told : Contributors \cup {None}]
Idle == [pc |-> "idle", in |-> None, at |-> 1, base |-> <<>>, page |-> <<>>, asked |-> {},
         told |-> None]

TypeOK ==
    /\ rules \in RuleSets
    /\ blocking \in BOOLEAN
    /\ policy \in Policies
    /\ pages \in [Scopes -> Contributors \cup {None}]
    /\ call \in [Requests -> Calls]

Init ==
    /\ rules \in RuleSets
    /\ blocking \in BOOLEAN
    /\ policy \in Policies
    /\ pages \in [Scopes -> Seeds]
    /\ call = [r \in Requests |-> Idle]

Set(r, c) == call' = [call EXCEPT ![r] = c]

Begin(r, in) ==
    /\ call[r].pc = "idle"
    /\ LET now == IF pages[in.scope] = None THEN <<>> ELSE pages[in.scope] IN
       Set(r, [call[r] EXCEPT !.pc = "chain", !.in = in, !.base = now, !.page = now])
    /\ UNCHANGED <<rules, blocking, policy, pages>>

-----------------------------------------------------------------------------
(* The chain                                                               *)

\* Mutants: every webhook is appended; every webhook is prepended.
AppendGuard ==
    <<"contributors", "git-mirror">> \o IF rules = None THEN <<>> ELSE <<"scope-guard">>
MirrorFirst ==
    (IF rules = None THEN <<>> ELSE <<"scope-guard">>) \o <<"git-mirror", "contributors">>
\* contributors and git-mirror are appended, scope-guard is prepended.
Chain ==
    IF rules = None THEN <<"contributors", "git-mirror">>
    ELSE <<"scope-guard", "contributors", "git-mirror">>

events(hook) ==
    CASE hook = "scope-guard" -> Writes \cup {"delete", "purge_project", "move_project"}
      [] hook = "contributors" -> Writes
      [] hook = "git-mirror" -> Writes \cup {"delete", "purge_project"}

\* git-mirror is not waited for, unless it is blocking: see Notify.
Waits(hook, op) == op \in events(hook) /\ (hook = "git-mirror" => blocking)

Asks(r, hook) ==
    /\ call[r].pc = "chain"
    /\ call[r].at \in DOMAIN Chain
    /\ Chain[call[r].at] = hook

Passed(c) == [c EXCEPT !.at = @ + 1]
Answered(r, hook) == Passed([call[r] EXCEPT !.asked = @ \cup {hook}])

Skip(r) ==
    /\ \E hook \in Hooks : Asks(r, hook) /\ ~Waits(hook, call[r].in.op)
    /\ Set(r, Passed(call[r]))
    /\ UNCHANGED <<rules, blocking, policy, pages>>

\* The rules of the user and those of everybody.
admitted(user, scope, op) ==
    \E rule \in rules :
        /\ rule.user \in {user, Star}
        /\ scope \in rule.scopes
        /\ rule.ops = {} \/ op \in rule.ops

OnlySessions(op) == op = "move_session"                          \* mutant
isMoveOp(op) == op \in Moves

evaluate(in) ==
    /\ admitted(in.user, in.scope, in.op)
    /\ isMoveOp(in.op) => in.dest # None /\ admitted(in.user, in.dest, in.op)

Refused(c) == [c EXCEPT !.pc = "rejected"]

\* A webhook that fails, or does not answer in time, having done c.
Failed(hook, c) == IF policy[hook] = "reject" THEN Refused(c) ELSE Passed(c)

\* 200 or 403.
Guard(r) ==
    /\ Asks(r, "scope-guard") /\ Waits("scope-guard", call[r].in.op)
    /\ rules # Broken /\ call[r].in.size = "small"
    /\ Set(r, IF evaluate(call[r].in) THEN Answered(r, "scope-guard") ELSE Refused(call[r]))
    /\ UNCHANGED <<rules, blocking, policy, pages>>

\* It does not run with rules it cannot compile, answers 400 to a body that was
\* cut, or does not answer in time.
GuardFails(r) ==
    /\ Asks(r, "scope-guard") /\ Waits("scope-guard", call[r].in.op)
    /\ Set(r, Failed("scope-guard", call[r]))
    /\ UNCHANGED <<rules, blocking, policy, pages>>

AlwaysNew(list, client) == {}                                      \* mutant
\* The entries of this client.
Mine(list, client) == {i \in DOMAIN list : list[i] # Odd /\ list[i].client = client}

Seen(entry, user) ==
    [entry EXCEPT !.writes = @ + 1,
                  !.user = IF @ = Missing /\ user # Anonymous THEN user ELSE @]

EmptyUser(in) == [client |-> in.client, user |-> in.user, writes |-> 1]   \* mutant
First(in) ==
    [client |-> in.client, user |-> IF in.user = Anonymous THEN Null ELSE in.user, writes |-> 1]

enrich(list, in) ==
    LET mine == Mine(list, in.client) IN
    IF mine = {} THEN Append(list, First(in))
    ELSE [i \in DOMAIN list |-> IF i \in mine THEN Seen(list[i], in.user) ELSE list[i]]

\* 200 with the frontmatter, 204 for an actor without an agent and client.
Enrich(r) ==
    /\ Asks(r, "contributors") /\ Waits("contributors", call[r].in.op)
    /\ call[r].in.size # "huge"
    /\ Set(r, IF call[r].in.client = None THEN Passed(call[r])
              ELSE [Answered(r, "contributors") EXCEPT !.page = enrich(@, call[r].in)])
    /\ UNCHANGED <<rules, blocking, policy, pages>>

EnrichFails(r) ==
    /\ Asks(r, "contributors") /\ Waits("contributors", call[r].in.op)
    /\ Set(r, Failed("contributors", call[r]))
    /\ UNCHANGED <<rules, blocking, policy, pages>>

\* What git-mirror gets: the page, or that it is gone.
Telling(r) == IF call[r].in.op \in Writes THEN call[r].page ELSE None
Told(r) == [call[r] EXCEPT !.asked = @ \cup {"git-mirror"}, !.told = Telling(r)]

Mirror(r) ==
    /\ Asks(r, "git-mirror") /\ Waits("git-mirror", call[r].in.op)
    /\ Set(r, Passed(Told(r)))
    /\ UNCHANGED <<rules, blocking, policy, pages>>

\* It may have committed the page all the same.
MirrorFails(r) ==
    /\ Asks(r, "git-mirror") /\ Waits("git-mirror", call[r].in.op)
    /\ \E c \in {call[r], Told(r)} : Set(r, Failed("git-mirror", c))
    /\ UNCHANGED <<rules, blocking, policy, pages>>

-----------------------------------------------------------------------------
(* What the engine does with a change that nobody refused                  *)

\* The workspace of a scope.
Beside(s) == {s} \cup UNION {w \in Workspaces : s \in w}

Changed(in, page) ==
    IF in.op \in Writes THEN [pages EXCEPT ![in.scope] = page]
    ELSE IF in.op \in Moves
         THEN [s \in Scopes |-> IF pages[in.scope] = None THEN pages[s]
                                ELSE IF s = in.dest THEN pages[in.scope]
                                ELSE IF s = in.scope THEN None ELSE pages[s]]
    ELSE IF in.op = "purge_workspace"
         THEN [s \in Scopes |-> IF s \in Beside(in.scope) THEN None ELSE pages[s]]
    ELSE [pages EXCEPT ![in.scope] = None]

Lands(r) ==
    /\ call[r].pc = "chain"
    /\ call[r].at = Len(Chain) + 1
    /\ pages' = Changed(call[r].in, call[r].page)
    /\ Set(r, [call[r] EXCEPT !.pc = "landed"])
    /\ UNCHANGED <<rules, blocking, policy>>

\* Not blocking: after the change, and it may never arrive.
Notify(r) ==
    /\ call[r].pc = "landed" /\ ~blocking
    /\ call[r].in.op \in events("git-mirror") /\ "git-mirror" \notin call[r].asked
    /\ Set(r, Told(r))
    /\ UNCHANGED <<rules, blocking, policy, pages>>

Step(r) ==
    \/ \E in \in Inputs : Begin(r, in)
    \/ Skip(r) \/ Guard(r) \/ GuardFails(r) \/ Enrich(r) \/ EnrichFails(r)
    \/ Mirror(r) \/ MirrorFails(r) \/ Lands(r) \/ Notify(r)

Next == \E r \in Requests : Step(r)

Spec == Init /\ [][Next]_vars

-----------------------------------------------------------------------------
(* Properties                                                              *)

Opened(in, scope) ==
    \E rule \in rules : /\ rule.user = in.user \/ rule.user = Star
                        /\ scope \in rule.scopes
                        /\ in.op \in rule.ops \/ rule.ops = {}

\* One of the requests lands that make page s another, with a rule for its operation
\* in that scope if it is one of `guarded`.
LandsByRule(s, guarded) ==
    \E r \in Requests :
        /\ call[r].pc = "chain" /\ call'[r].pc = "landed"
        /\ call[r].in.op \in guarded => rules # Broken /\ Opened(call[r].in, s)

\* What scope-guard is there for: by the operations that it is subscribed to a page
\* comes, changes or goes only if the user has a rule for this operation in the page's
\* scope, so a move has one for both its ends.  Rules that are broken open nothing,
\* and nor does a scope-guard that fails.
LandsWhereAdmitted ==
    [][rules # None =>
         \A s \in Scopes : pages'[s] # pages[s] =>
            LandsByRule(s, {"write_page", "consolidate", "delete", "purge_project",
                            "move_project"})]_vars


\* deployment.yaml: the "reject lands FIRST, before any contributor/mirror webhook
\* has done observable work".  Whoever scope-guard refuses, no other webhook has
\* heard of; no request is refused by a webhook that may only be ignored, or by a
\* mirror that is not waited for; and one that is refused is in the mirror only if
\* the mirror itself refused it, when it had committed it.
RejectedLeavesNoTrace ==
    \A r \in Requests : call[r].pc = "rejected" =>
        LET refuser == Chain[call[r].at] IN
        /\ policy[refuser] = "reject"
        /\ refuser = "scope-guard" => call[r].asked = {}
        /\ refuser = "git-mirror" => blocking
        /\ "git-mirror" \in call[r].asked => refuser = "git-mirror"

\* The mirror gets what lands, with the contributors that the same chain added.
MirrorGetsWhatLands ==
    \A r \in Requests :
        /\ call[r].pc = "landed" /\ "git-mirror" \in call[r].asked
        /\ call[r].in.op \in Writes
        => call[r].told = call[r].page

EntriesOf(list, client) == {i \in DOMAIN list : list[i] # Odd /\ list[i].client = client}

\* README of contributors: "append-only set keyed by (agent, client)".  A page that
\* lands holds every entry it was read with, in its place, with the user it named,
\* and no client twice that was not there twice; exactly the writes that
\* contributors answered are counted.
\* Entries that another request added in between are lost: see `base`.
ContributorsKept ==
    \A r \in Requests :
        call[r].pc = "landed" =>
            /\ \A i \in DOMAIN call[r].base :
                 LET old == call[r].base[i] new == call[r].page[i] IN
                 /\ i \in DOMAIN call[r].page
                 /\ old = Odd => new = Odd
                 /\ old # Odd =>
                      /\ new.client = old.client
                      /\ new.user = old.user \/ (old.user = Missing /\ new.user \in Users)
                      /\ new.writes = old.writes + IF old.client = call[r].in.client
                                                      /\ "contributors" \in call[r].asked
                                                   THEN 1 ELSE 0
            /\ \A c \in Clients : \A i, j \in EntriesOf(call[r].page, c) :
                 i # j => {i, j} \subseteq DOMAIN call[r].base
            /\ "contributors" \in call[r].asked => EntriesOf(call[r].page, call[r].in.client) # {}

=============================================================================

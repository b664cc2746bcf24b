--------------------------- MODULE AdmissionProofs ---------------------------
(* Theorems about Admission, for every value of its constants.             *)
EXTENDS Admission, SequenceTheorems, TLAPS

-----------------------------------------------------------------------------
(* The chain                                                               *)

\* scope-guard comes first if it is there at all, the mirror last, contributors
\* between them.
LEMMA ChainOrder ==
    /\ Len(Chain) \in {2, 3} /\ DOMAIN Chain = 1..Len(Chain)
    /\ \A i \in DOMAIN Chain :
          /\ Chain[i] \in Hooks
          /\ Chain[i] = "scope-guard" => rules # None /\ i = 1
          /\ Chain[i] = "contributors" => i < Len(Chain)
          /\ Chain[i] = "git-mirror" => i = Len(Chain)
    /\ rules # None => Chain[1] = "scope-guard"
<1>1. CASE rules = None
  <2>1. Chain = <<"contributors", "git-mirror">>
    BY <1>1 DEF Chain
  <2>2. QED
    BY <1>1, <2>1 DEF Hooks
<1>2. CASE rules # None
  <2>1. Chain = <<"scope-guard", "contributors", "git-mirror">>
    BY <1>2 DEF Chain
  <2>2. QED
    BY <1>2, <2>1 DEF Hooks
<1>3. QED
  BY <1>1, <1>2

-----------------------------------------------------------------------------
(* Type correctness                                                        *)

LEMMA FirstIsEntry ==
    ASSUME NEW in \in Input, in.client # None
    PROVE  First(in) \in Entry
  BY DEF First, Entry, Input

LEMMA SeenIsEntry ==
    ASSUME NEW e \in Entry, NEW user \in Users \cup {Anonymous}
    PROVE  Seen(e, user) \in Entry
<1>1. e.writes + 1 \in Nat
  BY DEF Entry
<1>2. (IF e.user = Missing /\ user # Anonymous THEN user ELSE e.user) \in Users \cup {Null, Missing}
  BY DEF Entry
<1>3. QED
  BY <1>1, <1>2 DEF Seen, Entry

\* What contributors answers is a list of contributors.
LEMMA EnrichIsContributors ==
    ASSUME NEW list \in Contributors, NEW in \in Input, in.client # None
    PROVE  enrich(list, in) \in Contributors
<1> DEFINE mine == Mine(list, in.client)
<1>1. CASE mine = {}
  <2>1. First(in) \in Entry
    BY FirstIsEntry
  <2>2. Append(list, First(in)) \in Contributors
    BY <2>1 DEF Contributors
  <2>3. QED
    BY <1>1, <2>2 DEF enrich
<1>2. CASE mine # {}
  <2> DEFINE new == [i \in DOMAIN list |-> IF i \in mine THEN Seen(list[i], in.user) ELSE list[i]]
  <2>1. \A i \in 1..Len(list) : new[i] \in Entry \cup {Odd}
    <3> SUFFICES ASSUME NEW i \in 1..Len(list)
                 PROVE  new[i] \in Entry \cup {Odd}
      OBVIOUS
    <3>1. list[i] \in Entry \cup {Odd} /\ i \in DOMAIN list
      BY DEF Contributors
    <3>2. CASE i \in mine
      <4>1. list[i] \in Entry
        BY <3>1, <3>2 DEF Mine
      <4>2. in.user \in Users \cup {Anonymous}
        BY DEF Input
      <4>3. QED
        BY <3>1, <3>2, <4>1, <4>2, SeenIsEntry
    <3>3. QED
      BY <3>1, <3>2
  <2>2. DOMAIN list = 1..Len(list) /\ Len(list) \in Nat
    BY DEF Contributors
  <2>3. new \in [1..Len(list) -> Entry \cup {Odd}]
    BY <2>1, <2>2
  <2>4. new \in Contributors
    BY <2>2, <2>3, SeqDef DEF Contributors
  <2>5. QED
    BY <1>2, <2>4 DEF enrich
<1>3. QED
  BY <1>1, <1>2

-----------------------------------------------------------------------------
(* The inductive invariant: what holds of a request at every place in the    *)
(* chain.                                                                    *)

BeginsClean(c) ==
    /\ c.pc = "idle" => c.at = 1
    /\ c.pc # "idle" => c.in \in Inputs
    /\ c.pc = "idle" \/ (c.pc = "chain" /\ c.at = 1) => c.asked = {} /\ c.told = None

Guarded == {"write_page", "consolidate", "delete", "purge_project", "move_project"}

\* Past scope-guard it has been admitted.
Admitted(c) ==
    c.pc = "chain" /\ c.at > 1 /\ rules # None /\ c.in.op \in Guarded =>
        rules # Broken /\ evaluate(c.in)

\* Whoever refused it may, and it has left no trace but that of a mirror that did.
Traceless(c) ==
    c.pc = "rejected" =>
        /\ policy[Chain[c.at]] = "reject"
        /\ Chain[c.at] = "scope-guard" => c.asked = {}
        /\ Chain[c.at] = "git-mirror" => blocking
        /\ "git-mirror" \in c.asked => Chain[c.at] = "git-mirror"

\* Nothing is added to the page once the mirror has it.
ToldLast(c) ==
    c.pc \in {"chain", "landed"} /\ "git-mirror" \in c.asked =>
        /\ c.pc = "chain" => c.at = Len(Chain) + 1
        /\ c.in.op \in Writes => c.told = c.page

CallInv(c) == c \in Calls /\ BeginsClean(c) /\ Admitted(c) /\ Traceless(c) /\ ToldLast(c)

IInv == TypeOK /\ \A r \in Requests : CallInv(call[r])

\* A step of one request leaves the others what they were.
LEMMA OneCall ==
    ASSUME IInv, NEW r \in Requests, NEW c, CallInv(c), Set(r, c),
           UNCHANGED <<rules, blocking, policy>>, pages' \in [Scopes -> Contributors \cup {None}]
    PROVE  IInv'
<1>1. call' = [call EXCEPT ![r] = c] /\ call \in [Requests -> Calls]
  BY DEF Set, IInv, TypeOK
<1>2. c \in Calls
  BY DEF CallInv
<1>3. TypeOK'
  BY <1>1, <1>2 DEF TypeOK, IInv
<1>4. ASSUME NEW q \in Requests PROVE CallInv(call[q])'
  <2>1. CallInv(call'[q])
    BY <1>1 DEF IInv
  <2>2. QED
    BY <2>1 DEF CallInv, BeginsClean, Admitted, Traceless, ToldLast, evaluate, admitted, Chain
<1>5. QED
  BY <1>3, <1>4 DEF IInv

LEMMA InitIInv == Init => IInv
<1> SUFFICES ASSUME Init PROVE IInv
  OBVIOUS
<1>1. <<>> \in Contributors
  BY DEF Contributors
<1>2. Idle \in Calls
  BY <1>1 DEF Idle, Calls
<1>3. CallInv(Idle)
  BY <1>2 DEF CallInv, BeginsClean, Admitted, Traceless, ToldLast, Idle
<1>4. Seeds \subseteq Contributors \cup {None}
  BY AdmissionAssumption
<1>5. TypeOK
  BY <1>2, <1>4 DEF Init, TypeOK
<1>6. QED
  BY <1>3, <1>5 DEF Init, IInv

LEMMA BeginIInv ==
    ASSUME IInv, NEW r \in Requests, NEW in \in Inputs, Begin(r, in)
    PROVE  IInv'
<1> DEFINE now == IF pages[in.scope] = None THEN <<>> ELSE pages[in.scope]
           c == [call[r] EXCEPT !.pc = "chain", !.in = in, !.base = now, !.page = now]
<1>1. CallInv(call[r]) /\ call[r] \in Calls
  BY DEF IInv, CallInv
<1>2. in.scope \in Scopes
  BY AdmissionAssumption DEF Input
<1>3. now \in Contributors
  <2>1. pages[in.scope] \in Contributors \cup {None} /\ <<>> \in Contributors
    BY <1>2 DEF IInv, TypeOK, Contributors
  <2>2. QED
    BY <2>1
<1>4. call[r].pc = "idle" /\ Set(r, c) /\ UNCHANGED <<rules, blocking, policy, pages>>
  BY DEF Begin
<1> HIDE DEF now
<1>5. c \in Calls
  BY <1>1, <1>3 DEF Calls
<1>6. CallInv(c)
  BY <1>1, <1>4, <1>5 DEF Calls, CallInv, BeginsClean, Admitted, Traceless, ToldLast
<1> HIDE DEF c
<1>7. QED
  BY <1>4, <1>6, OneCall DEF IInv, TypeOK

\* Where a request is that asks a webhook.
LEMMA AskedAt ==
    ASSUME IInv, NEW r \in Requests, NEW hook, Asks(r, hook)
    PROVE  /\ CallInv(call[r]) /\ call[r] \in Calls /\ call[r].pc = "chain"
           /\ call[r].in \in Inputs /\ call[r].in \in Input
           /\ call[r].at \in 1..Len(Chain) /\ Len(Chain) \in {2, 3}
           /\ call[r].at \in {1, 2, 3} /\ (hook = "git-mirror" => call[r].at \in {2, 3})
           /\ "git-mirror" \notin call[r].asked
           /\ hook = "scope-guard" => rules # None /\ call[r].at = 1
           /\ rules # None /\ call[r].at = 1 => hook = "scope-guard"
           /\ hook = "git-mirror" => call[r].at = Len(Chain)
<1>1. CallInv(call[r]) /\ call[r] \in Calls /\ call[r].pc = "chain" /\ Chain[call[r].at] = hook
      /\ call[r].at \in DOMAIN Chain
  BY DEF IInv, CallInv, Asks
<1>2. call[r].at \in 1..Len(Chain) /\ Len(Chain) \in {2, 3}
  BY <1>1, ChainOrder
<1>3. call[r].in \in Inputs /\ call[r].in \in Input
  BY <1>1, AdmissionAssumption DEF CallInv, BeginsClean
<1>4. "git-mirror" \notin call[r].asked
  BY <1>1, <1>2 DEF CallInv, ToldLast
<1>5. call[r].at \in {1, 2, 3} /\ (hook = "git-mirror" => call[r].at \in {2, 3})
  BY <1>1, <1>2, ChainOrder
<1>6. QED
  BY <1>1, <1>2, <1>3, <1>4, <1>5, ChainOrder

\* A request that goes on in the chain with its page, whether the webhook did its
\* work or not, and has been admitted if that was scope-guard.
LEMMA GoesOn ==
    ASSUME IInv, NEW r \in Requests, NEW hook, Asks(r, hook), NEW c,
           c \in {Passed(call[r]), Answered(r, hook)},
           hook # "git-mirror" \/ c = Passed(call[r]),
           hook = "scope-guard" => call[r].in.op \notin Guarded
                                   \/ (rules # Broken /\ evaluate(call[r].in)),
           hook \in Hooks
    PROVE  CallInv(c)
<1>1. /\ CallInv(call[r]) /\ call[r] \in Calls /\ call[r].pc = "chain"
      /\ call[r].in \in Inputs
      /\ call[r].at \in 1..Len(Chain) /\ Len(Chain) \in {2, 3}
      /\ call[r].at \in {1, 2, 3}
      /\ "git-mirror" \notin call[r].asked
      /\ rules # None /\ call[r].at = 1 => hook = "scope-guard"
  BY AskedAt
<1>2. /\ c \in Calls /\ c.pc = "chain" /\ c.in = call[r].in /\ c.at = call[r].at + 1
      /\ c.asked \subseteq call[r].asked \cup {hook} /\ "git-mirror" \notin c.asked
      /\ c.told = call[r].told
  <2>1. call[r].at + 1 \in 1..4
    BY <1>1
  <2>2. CASE c = Passed(call[r])
    BY <1>1, <2>1, <2>2 DEF Calls, Passed
  <2>3. CASE hook # "git-mirror" /\ c = Answered(r, hook)
    <3> DEFINE asked == call[r].asked \cup {hook}
    <3>1. c = [call[r] EXCEPT !.at = @ + 1, !.asked = asked]
      <4>1. call[r] \in Calls
        BY <1>1
      <4>2. QED
        BY <2>3, <4>1 DEF Answered, Passed, Calls
    <3>2. asked \in SUBSET Hooks /\ "git-mirror" \notin asked
      BY <1>1, <2>3 DEF Calls
    <3> HIDE DEF asked
    <3>3. QED
      BY <1>1, <2>1, <3>1, <3>2 DEF Calls, asked
  <2>4. QED
    BY <2>2, <2>3
<1>3. Admitted(c)
  BY <1>1, <1>2 DEF CallInv, Admitted
<1>4. QED
  BY <1>1, <1>2, <1>3 DEF CallInv, BeginsClean, Traceless, ToldLast

\* One that changes nothing but the request.
LEMMA StaysInChain ==
    ASSUME IInv, NEW r \in Requests, NEW c, CallInv(c), Set(r, c),
           UNCHANGED <<rules, blocking, policy, pages>>
    PROVE  IInv'
  BY OneCall DEF IInv, TypeOK

\* A request that a webhook is not asked about, or that survives its failure.
LEMMA PassedIInv ==
    ASSUME IInv, NEW r \in Requests, NEW hook \in Hooks, Asks(r, hook),
           hook = "scope-guard" => ~Waits(hook, call[r].in.op),
           Set(r, Passed(call[r])), UNCHANGED <<rules, blocking, policy, pages>>
    PROVE  IInv'
<1>1. hook = "scope-guard" => call[r].in.op \notin Guarded
  <2>1. "scope-guard" # "git-mirror"
    OBVIOUS
  <2>2. QED
    BY <2>1 DEF Waits, events, Writes, Guarded
<1>2. CallInv(Passed(call[r]))
  BY <1>1, GoesOn
<1>3. QED
  BY <1>2, StaysInChain

\* What the mirror leaves of a request is a request, at the same place.
LEMMA ToldIsCall ==
    ASSUME NEW r \in Requests, call[r] \in Calls
    PROVE  /\ Told(r) \in Calls /\ Told(r).pc = call[r].pc /\ Told(r).in = call[r].in
           /\ Told(r).at = call[r].at /\ Told(r).page = call[r].page
           /\ Told(r).base = call[r].base /\ Told(r).told = Telling(r)
           /\ Told(r).asked = call[r].asked \cup {"git-mirror"}
           /\ call[r].in.op \in Writes => Telling(r) = call[r].page
<1> DEFINE asked == call[r].asked \cup {"git-mirror"}
           told == Telling(r)
<1>1. told \in Contributors \cup {None} /\ (call[r].in.op \in Writes => told = call[r].page)
  BY DEF Telling, Calls
<1>2. asked \in SUBSET Hooks
  BY DEF Calls, Hooks
<1>3. Told(r) = [call[r] EXCEPT !.asked = asked, !.told = told]
  BY DEF Told, Calls
<1> HIDE DEF asked, told
<1>4. /\ Told(r) \in Calls /\ Told(r).pc = call[r].pc /\ Told(r).in = call[r].in
      /\ Told(r).at = call[r].at /\ Told(r).page = call[r].page
      /\ Told(r).base = call[r].base /\ Told(r).told = told /\ Told(r).asked = asked
  BY <1>1, <1>2, <1>3 DEF Calls
<1>5. QED
  BY <1>1, <1>4 DEF asked, told

\* A webhook refuses a request, and leaves no trace of it, unless it is the mirror.
LEMMA RefusedIInv ==
    ASSUME IInv, NEW r \in Requests, NEW hook \in Hooks, Asks(r, hook),
           policy[hook] = "reject", hook = "git-mirror" => blocking,
           NEW d, d = call[r] \/ (hook = "git-mirror" /\ d = Told(r)),
           Set(r, Refused(d)), UNCHANGED <<rules, blocking, policy, pages>>
    PROVE  IInv'
<1> DEFINE c == Refused(d)
<1>1. /\ CallInv(call[r]) /\ call[r] \in Calls /\ call[r].pc = "chain"
      /\ call[r].in \in Inputs /\ "git-mirror" \notin call[r].asked
      /\ hook = "scope-guard" => call[r].at = 1
  BY AskedAt
<1>2. Chain[call[r].at] = hook
  BY DEF Asks
<1>3. /\ d \in Calls /\ d.in = call[r].in /\ d.at = call[r].at
      /\ "git-mirror" \in d.asked => hook = "git-mirror"
      /\ hook = "scope-guard" => d = call[r]
  BY <1>1, ToldIsCall
<1>4. /\ c \in Calls /\ c.pc = "rejected" /\ c.in = call[r].in /\ c.at = call[r].at
      /\ c.asked = d.asked
  BY <1>3 DEF Refused, Calls
<1>5. hook = "scope-guard" => d.asked = {}
  BY <1>1, <1>3 DEF CallInv, BeginsClean
<1> HIDE DEF c
<1>6. Traceless(c)
  BY <1>2, <1>3, <1>4, <1>5 DEF Traceless
<1>7. CallInv(c)
  BY <1>1, <1>4, <1>6 DEF CallInv, BeginsClean, Admitted, ToldLast
<1>8. Set(r, c)
  BY DEF c
<1>9. QED
  BY <1>7, <1>8, StaysInChain

LEMMA SkipIInv ==
    ASSUME IInv, NEW r \in Requests, Skip(r)
    PROVE  IInv'
<1>1. PICK hook \in Hooks : Asks(r, hook) /\ ~Waits(hook, call[r].in.op)
  BY DEF Skip
<1>2. QED
  BY <1>1, PassedIInv DEF Skip

LEMMA GuardIInv ==
    ASSUME IInv, NEW r \in Requests, Guard(r) \/ GuardFails(r)
    PROVE  IInv'
<1>1. /\ Asks(r, "scope-guard") /\ "scope-guard" \in Hooks
      /\ UNCHANGED <<rules, blocking, policy, pages>>
  BY DEF Guard, GuardFails, Hooks
<1>2. policy["scope-guard"] = "reject"
  BY DEF IInv, TypeOK, Policies
<1>3. CASE Set(r, Refused(call[r]))
  BY <1>1, <1>2, <1>3, RefusedIInv
<1>4. CASE rules # Broken /\ evaluate(call[r].in) /\ Set(r, Answered(r, "scope-guard"))
  <2>1. CallInv(Answered(r, "scope-guard"))
    BY <1>1, <1>4, GoesOn
  <2>2. QED
    BY <1>1, <1>4, <2>1, StaysInChain
<1>5. QED
  BY <1>2, <1>3, <1>4 DEF Guard, GuardFails, Failed

LEMMA EnrichFailsIInv ==
    ASSUME IInv, NEW r \in Requests, EnrichFails(r)
    PROVE  IInv'
<1>1. /\ Asks(r, "contributors") /\ "contributors" \in Hooks
      /\ UNCHANGED <<rules, blocking, policy, pages>>
  BY DEF EnrichFails, Hooks
<1>2. CASE policy["contributors"] = "reject" /\ Set(r, Refused(call[r]))
  BY <1>1, <1>2, RefusedIInv
<1>3. CASE Set(r, Passed(call[r]))
  BY <1>1, <1>3, PassedIInv
<1>4. QED
  BY <1>2, <1>3 DEF EnrichFails, Failed

\* contributors comes before the mirror.
LEMMA EnrichIInv ==
    ASSUME IInv, NEW r \in Requests, Enrich(r)
    PROVE  IInv'
<1>1. Asks(r, "contributors") /\ UNCHANGED <<rules, blocking, policy, pages>>
  BY DEF Enrich
<1>2. CASE Set(r, Passed(call[r]))
  <2>1. CallInv(Passed(call[r]))
    BY <1>1, GoesOn DEF Hooks
  <2>2. QED
    BY <1>1, <1>2, <2>1, StaysInChain
<1>3. CASE /\ call[r].in.client # None
           /\ Set(r, [Answered(r, "contributors") EXCEPT !.page = enrich(@, call[r].in)])
  <2> DEFINE a == Answered(r, "contributors")
             c == [a EXCEPT !.page = enrich(@, call[r].in)]
  <2>1. CallInv(a) /\ a \in Calls
    BY <1>1, GoesOn DEF Hooks, CallInv
  <2>2. call[r].in \in Input /\ call[r].pc = "chain" /\ call[r] \in Calls
        /\ "git-mirror" \notin call[r].asked
    BY <1>1, AskedAt
  <2>3. /\ a.pc = "chain" /\ a.in = call[r].in /\ a.at = call[r].at + 1 /\ a.page = call[r].page
        /\ a.page \in Contributors /\ "git-mirror" \notin a.asked
    BY <2>2 DEF Answered, Passed, Calls
  <2>4. enrich(a.page, call[r].in) \in Contributors
    BY <1>3, <2>2, <2>3, EnrichIsContributors
  <2> HIDE DEF a
  <2>5. c \in Calls
    BY <2>1, <2>4 DEF Calls
  <2>6. c.pc = a.pc /\ c.in = a.in /\ c.at = a.at /\ c.asked = a.asked /\ c.told = a.told
    BY <2>1 DEF Calls
  <2> HIDE DEF c
  <2>7. CallInv(c)
    BY <2>1, <2>3, <2>5, <2>6 DEF CallInv, BeginsClean, Admitted, Traceless, ToldLast
  <2>8. Set(r, c)
    BY <1>3 DEF c, a
  <2>9. QED
    BY <1>1, <2>7, <2>8, StaysInChain
<1>4. QED
  BY <1>2, <1>3 DEF Enrich

\* After the mirror a request is past the chain.
LEMMA ToldPasses ==
    ASSUME IInv, NEW r \in Requests, Asks(r, "git-mirror")
    PROVE  CallInv(Passed(Told(r)))
<1> DEFINE t == Told(r)
           c == Passed(t)
<1>1. /\ CallInv(call[r]) /\ call[r] \in Calls /\ call[r].pc = "chain" /\ call[r].in \in Inputs
      /\ call[r].at = Len(Chain) /\ call[r].at \in {2, 3}
  BY AskedAt
<1>2. /\ t \in Calls /\ t.pc = "chain" /\ t.in = call[r].in /\ t.at = call[r].at
      /\ t.page = call[r].page
      /\ call[r].in.op \in Writes => t.told = call[r].page
  BY <1>1, ToldIsCall
<1>3. t.at + 1 \in 1..4 /\ t.at + 1 > 1
  <2>1. t.at = 2 \/ t.at = 3
    BY <1>1, <1>2
  <2>2. QED
    BY <2>1
<1>4. t.at + 1 = Len(Chain) + 1
  BY <1>1, <1>2, Zenon
<1> HIDE DEF t
<1>5. /\ c \in Calls /\ c.pc = "chain" /\ c.in = call[r].in /\ c.at = t.at + 1
      /\ c.page = call[r].page /\ c.told = t.told
  BY <1>2, <1>3 DEF Passed, Calls
<1> HIDE DEF c
<1>6. Admitted(c)
  <2>1. call[r].at = 2 \/ call[r].at = 3
    BY <1>1
  <2>2. call[r].at > 1
    BY <2>1
  <2>3. QED
    BY <1>1, <1>5, <2>2 DEF CallInv, Admitted
<1>7. c.at > 1 /\ c.at = Len(Chain) + 1
  BY <1>3, <1>4, <1>5, Zenon
<1>8. BeginsClean(c) /\ Traceless(c)
  BY <1>1, <1>5, <1>7 DEF BeginsClean, Traceless
<1>9. ToldLast(c)
  BY <1>2, <1>5, <1>7 DEF ToldLast
<1>10. CallInv(c)
  BY <1>5, <1>6, <1>8, <1>9 DEF CallInv
<1>11. QED
  BY <1>10 DEF c, t

LEMMA MirrorIInv ==
    ASSUME IInv, NEW r \in Requests, Mirror(r) \/ MirrorFails(r)
    PROVE  IInv'
<1>1. /\ Asks(r, "git-mirror") /\ "git-mirror" \in Hooks /\ blocking
      /\ UNCHANGED <<rules, blocking, policy, pages>>
  BY DEF Mirror, MirrorFails, Waits, Hooks
<1>2. CASE Set(r, Passed(Told(r)))
  BY <1>1, <1>2, ToldPasses, StaysInChain
<1>3. CASE Set(r, Passed(call[r]))
  BY <1>1, <1>3, PassedIInv
<1>4. ASSUME NEW d \in {call[r], Told(r)}, policy["git-mirror"] = "reject", Set(r, Refused(d))
      PROVE  IInv'
  BY <1>1, <1>4, RefusedIInv
<1>5. QED
  BY <1>2, <1>3, <1>4 DEF Mirror, MirrorFails, Failed

LEMMA LandsIInv ==
    ASSUME IInv, NEW r \in Requests, Lands(r)
    PROVE  IInv'
<1> DEFINE c == [call[r] EXCEPT !.pc = "landed"]
<1>1. CallInv(call[r]) /\ call[r] \in Calls /\ call[r].pc = "chain" /\ call[r].in \in Inputs
  BY DEF IInv, CallInv, BeginsClean, Lands
<1>2. CallInv(c)
  BY <1>1 DEF CallInv, Calls, BeginsClean, Admitted, Traceless, ToldLast
<1>3. pages' \in [Scopes -> Contributors \cup {None}]
  <2>1. call[r].in.scope \in Scopes /\ call[r].page \in Contributors
    BY <1>1, AdmissionAssumption DEF Input, Calls
  <2>2. QED
    BY <2>1 DEF Lands, Changed, IInv, TypeOK
<1>4. Set(r, c) /\ UNCHANGED <<rules, blocking, policy>>
  BY DEF Lands
<1> HIDE DEF c
<1>5. QED
  BY <1>2, <1>3, <1>4, OneCall

LEMMA NotifyIInv ==
    ASSUME IInv, NEW r \in Requests, Notify(r)
    PROVE  IInv'
<1> DEFINE c == Told(r)
<1>1. CallInv(call[r]) /\ call[r] \in Calls /\ call[r].pc = "landed" /\ call[r].in \in Inputs
  BY DEF IInv, CallInv, BeginsClean, Notify
<1>2. /\ c \in Calls /\ c.pc = "landed" /\ c.in = call[r].in /\ c.page = call[r].page
      /\ call[r].in.op \in Writes => c.told = call[r].page
  BY <1>1, ToldIsCall
<1>3. Set(r, c) /\ UNCHANGED <<rules, blocking, policy, pages>>
  BY DEF Notify
<1> HIDE DEF c
<1>4. CallInv(c)
  BY <1>1, <1>2 DEF CallInv, BeginsClean, Admitted, Traceless, ToldLast
<1>5. QED
  BY <1>3, <1>4, StaysInChain

LEMMA StepIInv == IInv /\ [Next]_vars => IInv'
<1> SUFFICES ASSUME IInv, [Next]_vars PROVE IInv'
  OBVIOUS
<1>1. CASE UNCHANGED vars
  BY <1>1 DEF vars, IInv, TypeOK, CallInv, BeginsClean, Admitted, Traceless, ToldLast, evaluate,
              admitted, Chain
<1>2. ASSUME NEW r \in Requests, Step(r) PROVE IInv'
  BY <1>2, BeginIInv, SkipIInv, GuardIInv, EnrichIInv, EnrichFailsIInv, MirrorIInv, LandsIInv,
     NotifyIInv DEF Step
<1>3. QED
  BY <1>1, <1>2 DEF Next

-----------------------------------------------------------------------------
(* Theorems                                                                *)

\* The inductive invariant holds in every reachable state.
THEOREM Invariance == Spec => []IInv
  BY InitIInv, StepIInv, PTL DEF Spec

\* Every variable keeps its type; contributors always answers a list of entries.
THEOREM TypeCorrect == Spec => []TypeOK
<1>1. IInv => TypeOK
  BY DEF IInv
<1>2. QED
  BY <1>1, Invariance, PTL

\* Whoever scope-guard refuses, or fails to answer, has left no trace; a webhook that
\* may only be ignored refuses nobody; and what is refused is in the mirror only if
\* the mirror refused it.
THEOREM RefusalIsClean == Spec => []RejectedLeavesNoTrace
<1>1. IInv => RejectedLeavesNoTrace
  BY DEF IInv, CallInv, Traceless, RejectedLeavesNoTrace
<1>2. QED
  BY <1>1, Invariance, PTL

\* The mirror gets what lands, whether it blocks or not.
THEOREM MirrorIsTold == Spec => []MirrorGetsWhatLands
<1>1. IInv => MirrorGetsWhatLands
  BY DEF IInv, CallInv, ToldLast, MirrorGetsWhatLands
<1>2. QED
  BY <1>1, Invariance, PTL

\* A change that scope-guard is asked about leaves alone what is neither its scope
\* nor, if it is a move, its destination.
LEMMA ChangedPages ==
    ASSUME TypeOK, NEW in \in Input, NEW page, NEW s \in Scopes, in.op \in Guarded,
           Changed(in, page)[s] # pages[s]
    PROVE  s = in.scope \/ (isMoveOp(in.op) /\ s = in.dest)
<1>1. pages \in [Scopes -> Contributors \cup {None}] /\ in.op # "purge_workspace"
  BY DEF TypeOK, Guarded
<1>2. QED
  BY <1>1 DEF Changed, isMoveOp

LEMMA EvaluateOpens ==
    ASSUME NEW in, evaluate(in)
    PROVE  Opened(in, in.scope) /\ (isMoveOp(in.op) => Opened(in, in.dest))
<1>1. \A scope : admitted(in.user, scope, in.op) => Opened(in, scope)
  BY DEF admitted, Opened
<1>2. QED
  BY <1>1 DEF evaluate

\* What lands is past scope-guard, so it was admitted.
LEMMA LandedWasAdmitted ==
    ASSUME IInv, NEW r \in Requests, Lands(r), rules # None, NEW s \in Scopes,
           pages'[s] # pages[s]
    PROVE  /\ call[r].pc = "chain" /\ call'[r].pc = "landed"
           /\ call[r].in.op \in Guarded => rules # Broken /\ Opened(call[r].in, s)
<1>1. CallInv(call[r]) /\ call[r] \in Calls /\ call[r].pc = "chain" /\ call[r].in \in Input
  BY AdmissionAssumption DEF IInv, CallInv, BeginsClean, Lands
<1>2. call'[r].pc = "landed"
  BY <1>1 DEF Lands, Set, IInv, TypeOK, Calls
<1>3. call[r].at > 1
  <2>1. call[r].at = Len(Chain) + 1 /\ (Len(Chain) = 2 \/ Len(Chain) = 3)
    BY ChainOrder DEF Lands
  <2>2. call[r].at = 2 + 1 \/ call[r].at = 3 + 1
    BY <2>1, Zenon
  <2>3. QED
    BY <2>2
<1>4. ASSUME call[r].in.op \in Guarded
      PROVE  rules # Broken /\ Opened(call[r].in, s)
  <2>1. rules # Broken /\ evaluate(call[r].in)
    BY <1>1, <1>3, <1>4 DEF CallInv, Admitted
  <2>2. s = call[r].in.scope \/ (isMoveOp(call[r].in.op) /\ s = call[r].in.dest)
    BY <1>1, <1>4, ChangedPages DEF IInv, Lands
  <2>3. QED
    BY <2>1, <2>2, EvaluateOpens
<1>5. QED
  BY <1>1, <1>2, <1>4

\* With scope-guard a page comes, changes or goes, by an operation that scope-guard is
\* subscribed to, only if the user has a rule for it in the page's scope, and for a
\* move at both its ends.
THEOREM ChangesAreAdmitted == Spec => LandsWhereAdmitted
<1> DEFINE Admits == rules # None => \A s \in Scopes : pages'[s] # pages[s] => LandsByRule(s, Guarded)
<1>1. ASSUME IInv, [Next]_vars, rules # None, NEW s \in Scopes, pages'[s] # pages[s]
      PROVE  LandsByRule(s, Guarded)
  <2>1. PICK r \in Requests : Lands(r)
    BY <1>1 DEF Next, Step, Begin, Skip, Guard, GuardFails, Enrich, EnrichFails, Mirror,
                MirrorFails, Notify, vars
  <2>2. QED
    BY <1>1, <2>1, LandedWasAdmitted DEF LandsByRule
<1>2. IInv /\ [Next]_vars => [Admits]_vars
  BY <1>1
<1>3. QED
  BY <1>2, Invariance, PTL DEF Spec, LandsWhereAdmitted, Guarded

-----------------------------------------------------------------------------
(* The contributors of a page                                              *)

\* A page is as it was read, or as contributors answered, once.
Enriched(c) ==
    /\ "contributors" \in c.asked =>
          /\ c.pc # "idle" /\ c.in.client # None /\ c.page = enrich(c.base, c.in)
          /\ c.pc = "chain" /\ c.at \in DOMAIN Chain => Chain[c.at] = "git-mirror"
    /\ "contributors" \notin c.asked => c.page = c.base

PageInv == \A r \in Requests : Enriched(call[r])

LEMMA OnePage ==
    ASSUME IInv, PageInv, NEW r \in Requests, NEW c, Enriched(c), Set(r, c), UNCHANGED rules
    PROVE  PageInv'
<1>1. ASSUME NEW q \in Requests PROVE Enriched(call[q])'
  <2>1. Enriched(call'[q])
    BY DEF Set, PageInv, IInv, TypeOK
  <2>2. QED
    BY <2>1 DEF Enriched, Chain
<1>2. QED
  BY <1>1 DEF PageInv

\* After contributors there is only the mirror, and after the mirror nothing.
LEMMA NextInChain ==
    ASSUME NEW at \in DOMAIN Chain, Chain[at] \in {"contributors", "git-mirror"},
           at + 1 \in DOMAIN Chain
    PROVE  Chain[at + 1] = "git-mirror"
<1>1. CASE rules = None
  <2>1. Chain = <<"contributors", "git-mirror">>
    BY <1>1 DEF Chain
  <2>2. QED
    BY <2>1
<1>2. CASE rules # None
  <2>1. Chain = <<"scope-guard", "contributors", "git-mirror">>
    BY <1>2 DEF Chain
  <2>2. QED
    BY <2>1
<1>3. QED
  BY <1>1, <1>2

\* A request that goes on, or ends, with its page as it is.
LEMMA KeepsPage ==
    ASSUME PageInv, NEW r \in Requests, NEW c,
           c.page = call[r].page, c.base = call[r].base, c.in = call[r].in,
           "contributors" \in c.asked <=> "contributors" \in call[r].asked,
           call[r].pc = "idle" => c.pc = "idle", c.pc = "idle" => call[r].pc = "idle",
           c.pc = "chain" => call[r].pc = "chain" /\ call[r].at \in DOMAIN Chain
                             /\ c.at = call[r].at + 1
    PROVE  Enriched(c)
<1>1. Enriched(call[r])
  BY DEF PageInv
<1>2. ASSUME "contributors" \in c.asked, c.pc = "chain", c.at \in DOMAIN Chain
      PROVE  Chain[c.at] = "git-mirror"
  <2>1. Chain[call[r].at] = "git-mirror" /\ call[r].at \in DOMAIN Chain
    BY <1>1, <1>2 DEF Enriched
  <2>2. QED
    BY <1>2, <2>1, NextInChain
<1>3. QED
  BY <1>1, <1>2 DEF Enriched

\* What a webhook other than contributors makes of a request.
Leaves(r, d) ==
    /\ d.page = call[r].page /\ d.base = call[r].base /\ d.in = call[r].in
    /\ d.pc = call[r].pc /\ d.at = call[r].at /\ d \in Calls
    /\ "contributors" \in d.asked <=> "contributors" \in call[r].asked

LEMMA HookPage ==
    ASSUME IInv, PageInv, NEW r \in Requests, NEW hook, Asks(r, hook), NEW d, Leaves(r, d),
           Set(r, Passed(d)) \/ Set(r, Refused(d)), UNCHANGED rules
    PROVE  PageInv'
<1>1. call[r].pc = "chain" /\ call[r].at \in DOMAIN Chain
  BY DEF Asks
<1>2. ASSUME NEW c, c = Passed(d) \/ c = Refused(d), Set(r, c) PROVE PageInv'
  <2>1. /\ c.page = call[r].page /\ c.base = call[r].base /\ c.in = call[r].in
        /\ "contributors" \in c.asked <=> "contributors" \in call[r].asked
        /\ c.pc \in {"chain", "rejected"}
        /\ c.pc = "chain" => c.at = call[r].at + 1
    BY <1>1, <1>2 DEF Passed, Refused, Leaves, Calls
  <2>2. Enriched(c)
    BY <1>1, <2>1, KeepsPage
  <2>3. QED
    BY <1>2, <2>2, OnePage
<1>3. QED
  BY <1>2

LEMMA EnrichPage ==
    ASSUME IInv, PageInv, NEW r \in Requests, Enrich(r)
    PROVE  PageInv'
<1>1. /\ Asks(r, "contributors") /\ call[r] \in Calls /\ call[r].pc = "chain"
      /\ call[r].at \in DOMAIN Chain /\ Chain[call[r].at] = "contributors"
      /\ UNCHANGED <<rules, blocking, policy, pages>>
  BY AskedAt DEF Enrich, Asks
<1>2. "contributors" \notin call[r].asked /\ call[r].page = call[r].base
  BY <1>1 DEF PageInv, Enriched
<1>3. CASE Set(r, Passed(call[r]))
  <2> DEFINE c == Passed(call[r])
  <2>1. Enriched(c)
    BY <1>1, <1>2 DEF Enriched, Passed, Calls
  <2> HIDE DEF c
  <2>2. Set(r, c)
    BY <1>3 DEF c
  <2>3. QED
    BY <1>1, <2>1, <2>2, OnePage
<1>4. CASE /\ call[r].in.client # None
           /\ Set(r, [Answered(r, "contributors") EXCEPT !.page = enrich(@, call[r].in)])
  <2> DEFINE c == [Answered(r, "contributors") EXCEPT !.page = enrich(@, call[r].in)]
  <2>1. /\ c.pc = "chain" /\ c.in = call[r].in /\ c.at = call[r].at + 1
        /\ "contributors" \in c.asked
        /\ c.base = call[r].base /\ c.page = enrich(call[r].base, call[r].in)
    BY <1>1, <1>2 DEF Answered, Passed, Calls
  <2> HIDE DEF c
  <2>2. c.at \in DOMAIN Chain => Chain[c.at] = "git-mirror"
    BY <1>1, <2>1, NextInChain
  <2>3. Enriched(c)
    BY <1>4, <2>1, <2>2 DEF Enriched
  <2>4. Set(r, c)
    BY <1>4 DEF c
  <2>5. QED
    BY <1>1, <2>3, <2>4, OnePage
<1>5. QED
  BY <1>3, <1>4 DEF Enrich

LEMMA StepPage ==
    ASSUME IInv, PageInv, [Next]_vars
    PROVE  PageInv'
<1>1. CASE UNCHANGED vars
  BY <1>1 DEF vars, PageInv, Enriched, Chain
<1>2. ASSUME NEW r \in Requests, Step(r) PROVE PageInv'
  <2>1. call[r] \in Calls /\ CallInv(call[r]) /\ Enriched(call[r]) /\ UNCHANGED rules
    BY <1>2 DEF IInv, CallInv, PageInv, Step, Begin, Skip, Guard, GuardFails, Enrich, EnrichFails,
                Mirror, MirrorFails, Lands, Notify
  <2>2. ASSUME NEW hook, Asks(r, hook) PROVE call[r].pc = "chain" /\ call[r].at \in DOMAIN Chain
    BY <2>2 DEF Asks
  <2>3. ASSUME NEW in \in Inputs, Begin(r, in) PROVE PageInv'
    <3> DEFINE now == IF pages[in.scope] = None THEN <<>> ELSE pages[in.scope]
               c == [call[r] EXCEPT !.pc = "chain", !.in = in, !.base = now, !.page = now]
    <3>1. call[r].asked = {}
      BY <2>1, <2>3 DEF CallInv, BeginsClean, Begin
    <3>2. c.asked = {} /\ c.page = c.base
      BY <2>1, <3>1 DEF Calls
    <3>3. Set(r, c)
      BY <2>3 DEF Begin
    <3> HIDE DEF c
    <3>4. Enriched(c)
      BY <3>2 DEF Enriched
    <3>5. QED
      BY <2>1, <3>3, <3>4, OnePage
  <2>4. ASSUME NEW hook, Asks(r, hook), NEW d, Leaves(r, d),
               Set(r, Passed(d)) \/ Set(r, Refused(d))
        PROVE  PageInv'
    BY <1>2, <2>1, <2>4, HookPage
  <2>5. CASE Skip(r)
    <3>1. Leaves(r, call[r])
      BY <2>1 DEF Leaves
    <3>2. QED
      BY <2>4, <2>5, <3>1 DEF Skip
  <2>6. CASE Guard(r) \/ GuardFails(r) \/ EnrichFails(r)
    <3> DEFINE asked == [call[r] EXCEPT !.asked = @ \cup {"scope-guard"}]
    <3>1. Leaves(r, call[r]) /\ Leaves(r, asked)
      BY <2>1 DEF Leaves, Calls, Hooks
    <3>2. Answered(r, "scope-guard") = Passed(asked)
      BY DEF Answered
    <3> HIDE DEF asked
    <3>3. \E hook : Asks(r, hook)
      BY <2>6 DEF Guard, GuardFails, EnrichFails
    <3>4. \E d \in {call[r], asked} : Set(r, Passed(d)) \/ Set(r, Refused(d))
      BY <2>6, <3>2 DEF Guard, GuardFails, EnrichFails, Failed
    <3>5. QED
      BY <2>4, <3>1, <3>3, <3>4
  <2>9. CASE Mirror(r) \/ MirrorFails(r)
    <3>1. Leaves(r, call[r]) /\ Leaves(r, Told(r))
      BY <2>1, ToldIsCall DEF Leaves
    <3>2. /\ Asks(r, "git-mirror")
          /\ \E d \in {call[r], Told(r)} : Set(r, Passed(d)) \/ Set(r, Refused(d))
      BY <2>9 DEF Mirror, MirrorFails, Failed
    <3>3. QED
      BY <2>4, <3>1, <3>2
  <2>7. CASE Lands(r)
    <3> DEFINE c == [call[r] EXCEPT !.pc = "landed"]
    <3>1. Set(r, c) /\ call[r].pc = "chain"
      BY <2>7 DEF Lands
    <3>2. /\ c.page = call[r].page /\ c.base = call[r].base /\ c.in = call[r].in
          /\ c.asked = call[r].asked /\ c.pc = "landed"
      BY <2>1 DEF Calls
    <3> HIDE DEF c
    <3>3. Enriched(c)
      BY <3>1, <3>2, KeepsPage
    <3>4. QED
      BY <2>1, <3>1, <3>3, OnePage
  <2>8. CASE Notify(r)
    <3> DEFINE c == Told(r)
    <3>1. Set(r, c) /\ call[r].pc = "landed"
      BY <2>8 DEF Notify
    <3>2. /\ c.page = call[r].page /\ c.base = call[r].base /\ c.in = call[r].in
          /\ c.asked = call[r].asked \cup {"git-mirror"} /\ c.pc = "landed"
      BY <2>1, <3>1, ToldIsCall
    <3> HIDE DEF c
    <3>3. Enriched(c)
      BY <3>1, <3>2, KeepsPage
    <3>4. QED
      BY <2>1, <3>1, <3>3, OnePage
  <2>10. QED
    BY <1>2, <2>3, <2>5, <2>6, <2>7, <2>8, <2>9, EnrichPage DEF Step
<1>3. QED
  BY <1>1, <1>2 DEF Next

\* What contributors answers: the entries there were, those of the client counted
\* once more, and one for the client if it had none.
LEMMA EnrichKeeps ==
    ASSUME NEW list \in Contributors, NEW in \in Input, in.client # None, NEW p,
           p = enrich(list, in)
    PROVE  /\ \A i \in DOMAIN list :
                /\ i \in DOMAIN p
                /\ list[i] = Odd => p[i] = Odd
                /\ list[i] # Odd =>
                      /\ p[i].client = list[i].client
                      /\ p[i].user = list[i].user
                         \/ (list[i].user = Missing /\ p[i].user \in Users)
                      /\ p[i].writes = list[i].writes + IF list[i].client = in.client THEN 1 ELSE 0
           /\ \A c \in Clients : \A i, j \in EntriesOf(p, c) : i # j => {i, j} \subseteq DOMAIN list
           /\ EntriesOf(p, in.client) # {}
<1> DEFINE mine == Mine(list, in.client)
<1>1. /\ DOMAIN list = 1..Len(list) /\ Len(list) \in Nat
      /\ \A i \in DOMAIN list : list[i] \in Entry \cup {Odd}
      /\ in.client \in Clients /\ in.user \in Users \cup {Anonymous}
  BY DEF Contributors, Input
<1>2. \A i \in DOMAIN list : list[i] # Odd => list[i].writes \in Nat /\ list[i] \in Entry
  BY <1>1 DEF Entry
<1>3. CASE mine = {}
  <2>1. p = Append(list, First(in))
    BY <1>3 DEF enrich
  <2>2. First(in) \in Entry /\ First(in) # Odd /\ First(in).client = in.client
    BY FirstIsEntry, AdmissionAssumption DEF First
  <2>3. /\ DOMAIN p = 1..(Len(list) + 1) /\ p[Len(list) + 1] = First(in)
        /\ \A i \in DOMAIN list : p[i] = list[i]
    BY <1>1, <2>1 DEF Contributors
  <2>4. \A i \in DOMAIN p : i \in DOMAIN list \/ i = Len(list) + 1
    BY <1>1, <2>3
  <2>5. \A i \in DOMAIN list : list[i] # Odd => list[i].client # in.client
    BY <1>3 DEF Mine
  <2>6. EntriesOf(p, in.client) = {Len(list) + 1}
    BY <1>1, <2>2, <2>3, <2>4, <2>5 DEF EntriesOf
  <2>7. \A c \in Clients \ {in.client} : EntriesOf(p, c) \subseteq DOMAIN list
    BY <2>2, <2>3, <2>4 DEF EntriesOf
  <2>8. ASSUME NEW i \in DOMAIN list
        PROVE  /\ i \in DOMAIN p /\ p[i] = list[i]
               /\ list[i] # Odd => list[i].writes = list[i].writes + 0
    BY <1>1, <1>2, <2>3
  <2>9. QED
    BY <2>5, <2>6, <2>7, <2>8
<1>4. CASE mine # {}
  <2>1. p = [i \in DOMAIN list |-> IF i \in mine THEN Seen(list[i], in.user) ELSE list[i]]
    BY <1>4 DEF enrich
  <2>2. ASSUME NEW i \in mine
        PROVE  /\ i \in DOMAIN list /\ list[i] # Odd /\ list[i].client = in.client
               /\ p[i] # Odd /\ p[i].client = in.client
               /\ p[i].user = list[i].user \/ (list[i].user = Missing /\ p[i].user \in Users)
               /\ p[i].writes = list[i].writes + 1
    <3>1. i \in DOMAIN list /\ list[i] \in Entry /\ list[i].client = in.client /\ list[i] # Odd
      BY <1>2, <2>2 DEF Mine
    <3>2. p[i] = Seen(list[i], in.user) /\ Seen(list[i], in.user) \in Entry
      BY <1>1, <2>1, <2>2, <3>1, SeenIsEntry
    <3>3. /\ p[i].client = list[i].client /\ p[i].writes = list[i].writes + 1
          /\ p[i].user = IF list[i].user = Missing /\ in.user # Anonymous THEN in.user ELSE list[i].user
      BY <3>1, <3>2 DEF Seen, Entry
    <3>4. QED
      BY <1>1, <3>1, <3>2, <3>3, AdmissionAssumption
  <2>3. DOMAIN p = DOMAIN list /\ \A i \in DOMAIN list \ mine : p[i] = list[i]
    BY <2>1
  <2>4. \A i \in DOMAIN list \ mine : list[i] = Odd \/ list[i].client # in.client
    BY DEF Mine
  <2>5. PICK i \in mine : TRUE
    BY <1>4
  <2>6. i \in EntriesOf(p, in.client)
    BY <2>2, <2>3 DEF EntriesOf
  <2>7. \A c : EntriesOf(p, c) \subseteq DOMAIN list
    BY <2>3 DEF EntriesOf
  <2> HIDE DEF mine
  <2>8. ASSUME NEW k \in DOMAIN list
        PROVE  /\ k \in DOMAIN p
               /\ list[k] = Odd => p[k] = Odd
               /\ list[k] # Odd =>
                     /\ p[k].client = list[k].client
                     /\ p[k].user = list[k].user
                        \/ (list[k].user = Missing /\ p[k].user \in Users)
                     /\ p[k].writes = list[k].writes + IF list[k].client = in.client THEN 1 ELSE 0
    BY <1>2, <2>2, <2>3, <2>4
  <2>9. QED
    BY <2>6, <2>7, <2>8
<1>5. QED
  BY <1>3, <1>4

\* A page that lands holds what it was read with, and no client twice that was not
\* there twice; what contributors answered is counted, and nothing else.
THEOREM ContributorsAreKept == Spec => []ContributorsKept
<1>1. Init => PageInv
  <2>1. Idle.asked = {} /\ Idle.page = Idle.base
    BY DEF Idle
  <2>2. Enriched(Idle)
    BY <2>1 DEF Enriched
  <2>3. QED
    BY <2>2 DEF Init, PageInv
<1>2. IInv /\ PageInv => ContributorsKept
  <2> SUFFICES ASSUME IInv, PageInv, NEW r \in Requests, call[r].pc = "landed"
               PROVE  /\ \A i \in DOMAIN call[r].base :
                           LET old == call[r].base[i] new == call[r].page[i] IN
                           /\ i \in DOMAIN call[r].page
                           /\ old = Odd => new = Odd
                           /\ old # Odd =>
                                /\ new.client = old.client
                                /\ new.user = old.user
                                   \/ (old.user = Missing /\ new.user \in Users)
                                /\ new.writes = old.writes + IF old.client = call[r].in.client
                                                                /\ "contributors" \in call[r].asked
                                                             THEN 1 ELSE 0
                      /\ \A c \in Clients : \A i, j \in EntriesOf(call[r].page, c) :
                           i # j => {i, j} \subseteq DOMAIN call[r].base
                      /\ "contributors" \in call[r].asked =>
                            EntriesOf(call[r].page, call[r].in.client) # {}
    BY DEF ContributorsKept
  <2>1. /\ call[r] \in Calls /\ call[r].in \in Input /\ call[r].base \in Contributors
        /\ Enriched(call[r])
    BY AdmissionAssumption DEF IInv, CallInv, BeginsClean, Calls, PageInv
  <2>2. CASE "contributors" \in call[r].asked
    <3>1. call[r].in.client # None /\ call[r].page = enrich(call[r].base, call[r].in)
      BY <2>1, <2>2 DEF Enriched
    <3>2. QED
      BY <2>1, <2>2, <3>1, EnrichKeeps
  <2>3. CASE "contributors" \notin call[r].asked
    <3>1. call[r].page = call[r].base
      BY <2>1, <2>3 DEF Enriched
    <3>2. \A i \in DOMAIN call[r].base : call[r].base[i] # Odd => call[r].base[i].writes \in Nat
      BY <2>1 DEF Contributors, Entry
    <3>3. QED
      BY <2>3, <3>1, <3>2 DEF EntriesOf
  <2>4. QED
    BY <2>2, <2>3
<1>3. QED
  BY <1>1, <1>2, StepPage, Invariance, PTL DEF Spec

=============================================================================

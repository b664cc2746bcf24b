----------------------------- MODULE MCAdmission -----------------------------
(* An instance of Admission for TLC: two scopes and two clients.            *)
EXTENDS Admission, TLC

CONSTANTS ann, bob, a, b, ide, cli

Shared == {{a, b}}

Symmetric == Permutations(Requests)

\* ann owns a, and everything of everybody may be consolidated in b, where bob may
\* move projects to but not from.
Staff == {[user |-> ann, scopes |-> {a}, ops |-> {}],
          [user |-> ann, scopes |-> {b}, ops |-> {"move_project"}],
          [user |-> bob, scopes |-> {b}, ops |-> {}],
          [user |-> Star, scopes |-> {b}, ops |-> {"consolidate"}]}
MCRuleSets == {Staff, {}, Broken, None}

E(client, user) == [client |-> client, user |-> user, writes |-> 1]
MCSeeds == {None, <<Odd, E(cli, Missing)>>}

By(op, user, client, scope, dest, size) ==
    [op |-> op, user |-> user, client |-> client, scope |-> scope, dest |-> dest, size |-> size]

MCInputs ==
    {By("write_page", u, c, a, None, "small") : u \in {ann, Anonymous}, c \in {ide, cli, None}}
    \cup {By("consolidate", Anonymous, c, b, None, "small") : c \in {ide, None}}
    \cup {By("write_page", ann, ide, a, None, size) : size \in {"large", "huge"}}
    \cup {By(op, u, None, a, None, "small") : op \in {"delete", "purge_project"}, u \in {ann, bob}}
    \cup {By("move_project", u, None, a, d, "small") : u \in {ann, bob}, d \in {b, None}}
    \cup {By("move_project", ann, None, b, a, "small"), By("move_project", bob, None, b, a, "small"),
          By("move_session", bob, None, a, b, "small"),
          By("purge_workspace", bob, None, b, None, "small")}

=============================================================================

----------------------------- MODULE MCFrontDoor -----------------------------
(* An instance of FrontDoor for TLC: one or two tokens of every kind.       *)
EXTENDS FrontDoor, TLC

CONSTANTS john, kate, claimed, console

T(kind, who, live, roles) ==
    [kind |-> kind, who |-> who, name |-> who, azp |-> None, app |-> None,
     live |-> live, aud |-> TRUE, roles |-> roles, subject |-> TRUE]

Hook == T("hook", kate, TRUE, {})
Key(live, roles) == T("amk", kate, live, roles)
Native == T("aim", kate, TRUE, {})
Cli == T("other", kate, TRUE, {})
Junk == T("other", kate, FALSE, {})
JWT(live, roles) == T("jwt", john, live, roles)

Some == {Hook, Native, Cli, Junk,
         Key(FALSE, {"admin"}), Key(TRUE, {"read"}), Key(TRUE, {"write"}), Key(TRUE, {"admin"}),
         [Key(TRUE, {"admin"}) EXCEPT !.subject = FALSE],
         JWT(FALSE, {"read"}), JWT(TRUE, {}), JWT(TRUE, {"read"}), JWT(TRUE, {"read", "write"}),
         JWT(TRUE, {"read", "admin"}), [JWT(TRUE, {"read"}) EXCEPT !.subject = FALSE],
         [JWT(TRUE, {"read", "admin"}) EXCEPT !.aud = FALSE],
         [JWT(TRUE, {"read"}) EXCEPT !.name = None, !.azp = console],
         [Key(TRUE, {"write"}) EXCEPT !.name = john]}

\* Two fields: another scheme beside a token, two tokens, a token and an empty one.
Pairs == {<<Basic, Key(TRUE, {"admin"})>>, <<Junk, Key(TRUE, {"admin"})>>,
          <<Empty, JWT(TRUE, {"read", "admin"})>>, <<Native, Basic>>, <<Basic, Basic>>}
MCAuths == {<<>>, <<Basic>>, <<Empty>>} \cup {<<t>> : t \in Some} \cup Pairs

MCRequests ==
    [to : {"engine"}, route : Routes, auth : MCAuths, cookie : {"none", "set"},
     claimed : {None, claimed}]
    \cup {r \in [to : {"keys"}, op : Ops, auth : MCAuths, cookie : {"none", "empty", "set"},
                 csrf : {"none", "wrong", "right"}] :
            /\ r.cookie # "set" => r.csrf = "right"
            /\ r.auth \in {<<t>> : t \in Some} \cup Pairs => r.cookie = "set" /\ r.csrf = "right"}

MCConfigs ==
    {c \in [oidc : BOOLEAN, keys : BOOLEAN, hook : BOOLEAN, upstream : BOOLEAN, aud : BOOLEAN,
            passthrough : BOOLEAN, internal : BOOLEAN, proxy : {TRUE}, admins : {{}, {john}}] :
        /\ Boots(c)
        /\ c.aud => c.oidc
        /\ c.hook = c.upstream
        /\ c.internal = c.keys
        /\ c.admins = {} <=> c.passthrough}

=============================================================================

SPECIFICATION Spec
CONSTANTS
    Requests = {r1, r2}
    Inputs <- MCInputs
    Seeds <- MCSeeds
    RuleSets <- MCRuleSets
    Scopes = {a, b}
    Workspaces <- Shared
    Users = {ann, bob}
    Clients = {ide, cli}
    ann = ann
    bob = bob
    a = a
    b = b
    ide = ide
    cli = cli
    Anonymous = anonymous
    Star = star
    Broken = broken
    Null = null
    Missing = missing
    Odd = odd
    None = none
SYMMETRY Symmetric
INVARIANTS TypeOK RejectedLeavesNoTrace MirrorGetsWhatLands ContributorsKept
PROPERTIES LandsWhereAdmitted
CHECK_DEADLOCK FALSE

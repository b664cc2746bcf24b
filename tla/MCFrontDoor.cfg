SPECIFICATION FairSpec
CONSTANTS
    Configs <- MCConfigs
    Requests <- MCRequests
    People = {john, kate}
    Names = {john, kate, claimed, hookUser}
    Apps = {console}
    console = console
    john = john
    kate = kate
    claimed = claimed
    HookUser = hookUser
    Proxy = proxy
    Basic = basic
    Empty = empty
    None = none
INVARIANTS TypeOK ProxyIsEarned ActorIsTheCredentials OwnCredentialsSurvive
           PerformedByAnIssuer NobodyMeansNobody
PROPERTIES EveryRequestIsAnswered
CHECK_DEADLOCK FALSE

SPECIFICATION Spec
CONSTANTS
    Configs <- MCConfigs
    Requests <- MCRequests
    People = {john, kate}
    Names = {john, kate, claimed, hookUser}
    Apps = {console}
    console = console
    john = john
    kate = kate
    claimed = claimed
    HookUser = hookUser
    Proxy = proxy
    Basic = basic
    Empty = empty
    None = none
INVARIANTS ChangesNeedWriteRole
CHECK_DEADLOCK FALSE

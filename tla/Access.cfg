SPECIFICATION AccessSpec
CONSTANTS
    Tenants = {demo}
    Demo = demo
    Users = {u1}
    TwoFactorUsers = {}
    AccessLife = 1
    ResetLife = 2
    RefreshLife = 3
    MaxTime = 5
    MaxSessions = 2
    MaxResets = 3
INVARIANTS
    SessionsFollowPassword
    SessionsEnd
    OneChangePerToken

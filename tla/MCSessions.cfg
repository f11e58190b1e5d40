\* Two callers, two users, two pairs of tokens.
CONSTANTS
    u1 = u1
    u2 = u2
    c1 = c1
    None = None
    Caller = {r1, r2}
    Jti = {j1, j2, j3, j4}
    User = {u1, u2}
    Company = {c1}
    RoleOf <- MCRoleOf
    Required <- MCRequired
    StaffOf <- MCStaffOf
    AccessExpiration = 1
    RefreshExpiration = 2
    MaxTime = 2
SYMMETRY Symmetry
SPECIFICATION Spec
CHECK_DEADLOCK FALSE
INVARIANTS
    TypeOK
    LogoutIsFinal
    OnlyLogoutRefuses
    GrantedByLogin

\* Two sign-ups and a login of one email, another email, one GET /users/me.
CONSTANTS
    s1 = s1
    s2 = s2
    s3 = s3
    l1 = l1
    p1 = p1
    p2 = p2
    mine = mine
    other = other
    None = None
    Signup = {s1, s2, s3}
    Login = {l1}
    Me = {m1}
    Email = {mine, other}
    Password = {p1, p2}
    EmailOf <- MCEmailOf
    PasswordOf <- MCPasswordOf
SPECIFICATION Spec
CHECK_DEADLOCK FALSE
INVARIANTS
    TypeOK
    LateAreRefused
    TokenIsOwn
    OwnerGetsIn

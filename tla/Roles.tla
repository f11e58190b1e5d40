------------------------------- MODULE Roles --------------------------------
(***************************************************************************)
(* What a route can ask of the role in a token: a permission, which the    *)
(* permissions of the role must cover (opt/guardian/rbac.go), or one of    *)
(* some roles (RequireRole, and the guards of opt/middlewares/auth.go).    *)
(***************************************************************************)
\* A permission "resource:action" is a pair; PermAll is the text "*".
PermAll == <<"*">>
Actions == {"read", "create", "update", "delete", "write", "*"}
Resources == {"members", "plans", "subscriptions", "dashboard", "verification",
              "staff", "classes", "instructors", "schedules", "products", "pos",
              "cash_register", "reservations"}
Permission == (Resources \X Actions) \cup {PermAll}

rolePermissions ==
    [owner |-> {PermAll},
     admin |->
        ({"members", "plans", "subscriptions", "verification", "schedules", "products"} \X {"*"})
        \cup ({"staff", "classes", "instructors", "reservations"}
                 \X {"read", "create", "update"})
        \cup ({"pos"} \X {"read", "create"})
        \cup ({"cash_register"} \X {"read", "write"})
        \cup {<<"dashboard", "read">>},
     staff |->
        ({"verification"} \X {"*"})
        \cup ({"members"} \X {"read", "create", "update"})
        \cup ({"reservations", "pos"} \X {"read", "create"})
        \cup ({"plans", "subscriptions", "dashboard", "classes", "instructors",
               "schedules", "products", "cash_register"} \X {"read"})]

\* "*" covers everything, "resource:*" every action on the resource.
matchPermission(has, required) ==
    \/ has = PermAll
    \/ has = required
    \/ required # PermAll /\ has = <<required[1], "*">>

\* Plausible slip: an unknown role is not looked up but let through.
HasPermissionUnknown(role, required) ==
    role \in DOMAIN rolePermissions =>
        \E has \in rolePermissions[role] : matchPermission(has, required)

HasPermission(role, required) ==
    /\ role \in DOMAIN rolePermissions
    /\ \E has \in rolePermissions[role] : matchPermission(has, required)

RequireGod(role) == role = "god"

RequireAdminOrGod(role) == role \in {"admin", "god"}

RequireGodOrOwner(role) == role \in {"god", "owner"}

RequireRole(role, allowedRoles) == role \in allowedRoles

RoleGuards == {<<"god">>, <<"admin or god">>, <<"god or owner">>, <<"role">>}
Guard == Permission \cup RoleGuards

\* Whether the guard of a route lets a role in.
LetsIn(guard, role) ==
    \/ guard \in Permission /\ HasPermission(role, guard)
    \/ guard = <<"god">> /\ RequireGod(role)
    \/ guard = <<"admin or god">> /\ RequireAdminOrGod(role)
    \/ guard = <<"god or owner">> /\ RequireGodOrOwner(role)
    \/ guard = <<"role">> /\ RequireRole(role, {"owner", "admin", "staff"})
=============================================================================

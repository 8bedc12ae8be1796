SPECIFICATION Spec
CONSTANTS
    Members = {m1, m2}
    Processes = {p1, p2}
    Kinds = {"roles", "status"}
    RoleChanges = {"super_admin"}
    StatusChanges = {"suspended"}
    None = None
INVARIANTS SuperAdminRemains
CHECK_DEADLOCK FALSE

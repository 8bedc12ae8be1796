\* Two members put the count at its boundary. Roles are given and taken, a status is only
\* taken: a reactivation makes a super_admin as a promotion does.
SPECIFICATION FairSpec
CONSTANTS
    Members = {m1, m2}
    Processes = {p1, p2}
    Kinds = {"roles", "status", "create", "approve"}
    RoleChanges = {"member", "super_admin"}
    StatusChanges = {"suspended"}
    None = None
INVARIANTS GuardedRemains SuperAdminInv
PROPERTIES RequestsEnd
CHECK_DEADLOCK FALSE

--------------------------- MODULE AdminWeb_proofs ---------------------------
(***************************************************************************)
(* Proofs about the administrators' half of the system.                    *)
(***************************************************************************)
EXTENDS MCAdminWeb, FiniteSetTheorems, TLAPS

-----------------------------------------------------------------------------
(* The parts of the whole *)

\* Each behaviour of the whole is one of each part.
LEMMA PartsBehave ==
    Spec => /\ EventPages!Spec /\ ListPages!Spec /\ MemberPages!Spec
            /\ Toggles!Spec /\ PushButtons!Spec
<1>1. Init => /\ EventPages!Init /\ ListPages!Init /\ MemberPages!Init
              /\ Toggles!Init /\ PushButtons!Init
  BY DEF Init
<1>2. [Next]_vars => /\ [EventPages!Next]_EventPages!eventVars /\ [ListPages!Next]_ListPages!listVars
                     /\ [MemberPages!Next]_MemberPages!memberVars /\ [Toggles!Next]_Toggles!heroVars
                     /\ [PushButtons!Next]_PushButtons!pushVars
  BY DEF Next, vars, eventVars, listVars, memberVars, heroVars, pushVars, EventPages!eventVars,
     ListPages!listVars, MemberPages!memberVars, Toggles!heroVars, PushButtons!pushVars
<1> QED
  BY <1>1, <1>2, PTL DEF Spec, EventPages!Spec, ListPages!Spec, MemberPages!Spec,
     Toggles!Spec, PushButtons!Spec

-----------------------------------------------------------------------------
(* Roles *)

LEMMA NormalizedTwice ==
    ASSUME MemberPages!MembersAssumption, NEW R \in SUBSET MemberPages!AllRoles
    PROVE  /\ MemberPages!normalizeRoles(R) \in SUBSET MemberPages!AllRoles
           /\ MemberPages!normalizeRoles(MemberPages!normalizeRoles(R)) = MemberPages!normalizeRoles(R)
BY DEF MemberPages!MembersAssumption, MemberPages!normalizeRoles, MemberPages!AllRoles

\* Whatever box is clicked, the draft that results respects the hierarchy.
LEMMA HierarchyApplied ==
    ASSUME MemberPages!MembersAssumption, NEW R \in SUBSET MemberPages!AllRoles,
           NEW role \in MemberPages!AllRoles, NEW checked \in BOOLEAN
    PROVE  /\ MemberPages!applyRoleHierarchy(R, role, checked) \in SUBSET MemberPages!AllRoles
           /\ MemberPages!normalizeRoles(MemberPages!applyRoleHierarchy(R, role, checked))
              = MemberPages!applyRoleHierarchy(R, role, checked)
<1> DEFINE next == IF checked THEN R \cup {role} ELSE R \ {role}
           arg  == IF role = "admin" /\ ~checked THEN next \ Perms
                   ELSE IF role = "super_admin" /\ checked THEN MemberPages!AllRoles ELSE next
<1>1. arg \in SUBSET MemberPages!AllRoles
  OBVIOUS
<1>2. MemberPages!applyRoleHierarchy(R, role, checked) = MemberPages!normalizeRoles(arg)
  BY DEF MemberPages!applyRoleHierarchy
<1> QED
  BY <1>1, <1>2, NormalizedTwice

(* Every set of roles that is on its way to the server, or may be sent next, respects
   the hierarchy. *)
Normal(R) == MemberPages!normalizeRoles(R) = R

RolesInv ==
    /\ Normal(member.roles) /\ Normal(query.data.roles) /\ Normal(desk.draft)
    /\ ops.roles.status # "idle" => Normal(ops.roles.roles)

(* The form of the member page differs from the copy in the edited fields only. *)
FormInv ==
    /\ desk.editing => desk.page = "detail" /\ desk.seeded
    /\ query.data # MemberPages!NoMember => desk.seeded
    /\ desk.page = "detail" /\ desk.seeded
         => \A f \in Fields \ desk.edited : desk.form[f] = query.data.fields[f]
    /\ ops.profile.status = "sent" => DOMAIN ops.profile.diff \subseteq ops.profile.edited

MembersInv == MemberPages!TypeOK /\ RolesInv /\ FormInv

LEMMA MembersInit == ASSUME MemberPages!MembersAssumption, MemberPages!Init PROVE MembersInv
<1> USE DEF MemberPages!MembersAssumption, MemberPages!Init, MemberPages!NoMember, MemberPages!Mounted, MemberPages!Idle
<1>1. MemberPages!TypeOK
  BY MemberPages!MembersAssumption DEF MemberPages!TypeOK, MemberPages!People, MemberPages!Values, MemberPages!AllRoles, MemberPages!RoleOps, MemberPages!ProfileOps, MemberPages!Queries, MemberPages!Desks,
     MemberPages!Creations, MemberPages!Budgets
<1>2. RolesInv
  <2>1. (member.roles = {} \/ member.roles = {"admin"}) /\ query.data.roles = {} /\ desk.draft = {}
        /\ ops.roles.status = "idle"
    OBVIOUS
  <2> QED BY <2>1, MemberPages!MembersAssumption DEF RolesInv, Normal, MemberPages!normalizeRoles, MemberPages!AllRoles
<1>3. FormInv
  BY DEF FormInv
<1> QED BY <1>1, <1>2, <1>3 DEF MembersInv

LEMMA MountType ==
    ASSUME MemberPages!MembersAssumption, NEW page \in {"list", "detail"}
    PROVE  MemberPages!Mounted(page) \in MemberPages!Desks
BY DEF MemberPages!Mounted, MemberPages!Desks, MemberPages!Values, MemberPages!MembersAssumption

LEMMA SeedType ==
    ASSUME NEW d \in MemberPages!Desks, NEW old, NEW row \in MemberPages!People
    PROVE  MemberPages!Seeded(d, old, row) \in MemberPages!Desks
BY DEF MemberPages!Seeded, MemberPages!Desks, MemberPages!People

LEMMA MembersTypeStep ==
    ASSUME MemberPages!MembersAssumption, MemberPages!TypeOK, MemberPages!Next
    PROVE  MemberPages!TypeOK'
<1> USE MemberPages!MembersAssumption DEF MemberPages!MembersAssumption, MemberPages!TypeOK
<1>1. CASE MemberPages!Refetch
  <2>1. query' \in MemberPages!Queries
    BY <1>1 DEF MemberPages!Refetch, MemberPages!Queries
  <2> QED
    BY <1>1, <2>1 DEF MemberPages!Refetch
<1>2. CASE MemberPages!Fetched
  <2>1. query' \in MemberPages!Queries
    BY <1>2 DEF MemberPages!Fetched, MemberPages!Queries
  <2>2. desk' \in MemberPages!Desks
    <3>1. desk' = MemberPages!Seeded(desk, query.data, member)
      BY <1>2 DEF MemberPages!Fetched, MemberPages!Copy
    <3> QED
      BY <3>1, SeedType
  <2> QED
    BY <1>2, <2>1, <2>2 DEF MemberPages!Fetched
<1>3. CASE MemberPages!FetchFailed
  <2>1. query' \in MemberPages!Queries
    BY <1>3 DEF MemberPages!FetchFailed, MemberPages!Queries
  <2>2. desk' \in MemberPages!Desks
    <3>1. query.data.fields \in [Fields -> MemberPages!Values]
      BY DEF MemberPages!Queries, MemberPages!People
    <3>2. PICK form \in [Fields -> MemberPages!Values] :
             desk' = [desk EXCEPT !.editing = FALSE, !.edited = {}, !.form = form]
      BY <1>3, <3>1 DEF MemberPages!FetchFailed, MemberPages!Copy, MemberPages!Desks
    <3> QED
      BY <3>2 DEF MemberPages!Desks
  <2> QED
    BY <1>3, <2>1, <2>2 DEF MemberPages!FetchFailed
<1>4. CASE MemberPages!Reopen
  <2>1. desk' \in MemberPages!Desks
    <3>1. desk' = MemberPages!Seeded(MemberPages!Mounted(desk.page), MemberPages!NoMember, query.data)
      BY <1>4 DEF MemberPages!Reopen, MemberPages!Copy
    <3>2. desk.page \in {"list", "detail"} /\ query.data \in MemberPages!People
      BY DEF MemberPages!Desks, MemberPages!Queries
    <3> QED
      BY <3>1, <3>2, SeedType, MountType
  <2>2. creation' \in MemberPages!Creations
    BY <1>4 DEF MemberPages!Reopen, MemberPages!Creations
  <2> QED
    BY <1>4, <2>1, <2>2 DEF MemberPages!Reopen
<1>5. ASSUME NEW r \in MemberPages!AllRoles, MemberPages!ToggleRole(r) PROVE MemberPages!TypeOK'
  <2>1. desk' \in MemberPages!Desks
    <3>1. desk.draft \in SUBSET MemberPages!AllRoles
      BY DEF MemberPages!Desks
    <3>2. MemberPages!applyRoleHierarchy(MemberPages!normalizeRoles(desk.draft), r, r \notin desk.draft)
            \in SUBSET MemberPages!AllRoles
      BY <3>1, NormalizedTwice, HierarchyApplied
    <3> QED
      BY <1>5, <3>2 DEF MemberPages!ToggleRole, MemberPages!Desks
  <2> QED
    BY <1>5, <2>1 DEF MemberPages!ToggleRole
<1>6. CASE MemberPages!SaveRoles
  <2>1. ops'.roles \in MemberPages!RoleOps
    BY <1>6 DEF MemberPages!SaveRoles, MemberPages!RoleOps, MemberPages!Desks
  <2>2. budget' \in MemberPages!Budgets
    BY <1>6 DEF MemberPages!SaveRoles, MemberPages!Budgets
  <2> QED
    BY <1>6, <2>1, <2>2 DEF MemberPages!SaveRoles
<1>7. CASE MemberPages!RolesServed
  <2>1. member' \in MemberPages!People /\ ops'.roles \in MemberPages!RoleOps
    BY <1>7 DEF MemberPages!RolesServed, MemberPages!RoleOps, MemberPages!People, MemberPages!Idle
  <2> QED
    BY <1>7, <2>1 DEF MemberPages!RolesServed
<1>8. CASE MemberPages!RolesAnswered
  <2>1. desk' \in MemberPages!Desks
    BY <1>8 DEF MemberPages!RolesAnswered, MemberPages!Desks, MemberPages!RoleOps, MemberPages!Idle
  <2>2. query' \in MemberPages!Queries
    BY <1>8 DEF MemberPages!RolesAnswered, MemberPages!Queries
  <2>3. ops'.roles \in MemberPages!RoleOps
    BY <1>8 DEF MemberPages!RolesAnswered, MemberPages!RoleOps
  <2> QED
    BY <1>8, <2>1, <2>2, <2>3 DEF MemberPages!RolesAnswered
<1>9. CASE MemberPages!RolesFailed
  <2>1. ops'.roles \in MemberPages!RoleOps
    BY <1>9 DEF MemberPages!RolesFailed, MemberPages!RoleOps
  <2> QED
    BY <1>9, <2>1 DEF MemberPages!RolesFailed
<1>10. CASE MemberPages!ToggleEditing
  <2>1. desk' \in MemberPages!Desks
    BY <1>10 DEF MemberPages!ToggleEditing, MemberPages!Desks
  <2> QED
    BY <1>10, <2>1 DEF MemberPages!ToggleEditing
<1>11. CASE MemberPages!SaveProfile
  <2>1. ops'.profile \in MemberPages!ProfileOps
    BY <1>11 DEF MemberPages!SaveProfile, MemberPages!ProfileOps, MemberPages!Desks, MemberPages!Diffs, MemberPages!buildProfileDiff
  <2>2. budget' \in MemberPages!Budgets
    BY <1>11 DEF MemberPages!SaveProfile, MemberPages!Budgets
  <2> QED
    BY <1>11, <2>1, <2>2 DEF MemberPages!SaveProfile
<1>12. CASE MemberPages!ProfileServed
  <2>1. member' \in MemberPages!People
    BY <1>12 DEF MemberPages!ProfileServed, MemberPages!People, MemberPages!ProfileOps, MemberPages!Idle, MemberPages!Diffs
  <2>2. ops'.profile \in MemberPages!ProfileOps
    BY <1>12 DEF MemberPages!ProfileServed, MemberPages!ProfileOps
  <2> QED
    BY <1>12, <2>1, <2>2 DEF MemberPages!ProfileServed
<1>13. CASE MemberPages!ProfileAnswered
  <2>1. desk' \in MemberPages!Desks
    BY <1>13 DEF MemberPages!ProfileAnswered, MemberPages!Desks
  <2>2. query' \in MemberPages!Queries
    BY <1>13 DEF MemberPages!ProfileAnswered, MemberPages!Queries
  <2>3. ops'.profile \in MemberPages!ProfileOps
    BY <1>13 DEF MemberPages!ProfileAnswered, MemberPages!ProfileOps
  <2> QED
    BY <1>13, <2>1, <2>2, <2>3 DEF MemberPages!ProfileAnswered
<1>14. CASE MemberPages!ProfileFailed
  <2>1. ops'.profile \in MemberPages!ProfileOps
    BY <1>14 DEF MemberPages!ProfileFailed, MemberPages!ProfileOps
  <2> QED
    BY <1>14, <2>1 DEF MemberPages!ProfileFailed
<1>15. ASSUME NEW f \in Fields, MemberPages!EditField(f) PROVE MemberPages!TypeOK'
  <2>0. 0 \in MemberPages!Values
        /\ (budget.values < MaxValues => budget.values + 1 \in MemberPages!Values)
    BY DEF MemberPages!Values, MemberPages!Budgets
  <2>1. PICK v \in MemberPages!Values : desk' = [desk EXCEPT !.form[f] = v, !.edited = @ \cup {f}]
    BY <1>15, <2>0 DEF MemberPages!EditField
  <2>3. desk' \in MemberPages!Desks
    BY <2>1 DEF MemberPages!Desks
  <2>2. budget' \in MemberPages!Budgets
    BY <1>15 DEF MemberPages!EditField, MemberPages!Budgets
  <2> QED
    BY <1>15, <2>3, <2>2 DEF MemberPages!EditField
<1>16. CASE MemberPages!SubmitCreation
  <2>1. creation' \in MemberPages!Creations
    BY <1>16 DEF MemberPages!SubmitCreation, MemberPages!Creations
  <2>2. budget' \in MemberPages!Budgets
    BY <1>16 DEF MemberPages!SubmitCreation, MemberPages!Budgets
  <2> QED
    BY <1>16, <2>1, <2>2 DEF MemberPages!SubmitCreation
<1>17. CASE MemberPages!CreationAnswered
  <2>1. query' \in MemberPages!Queries
    BY <1>17 DEF MemberPages!CreationAnswered, MemberPages!Queries
  <2>3. \/ creation' = [status |-> "idle", card |-> TRUE]
        \/ creation' = [creation EXCEPT !.status = "idle"]
    BY <1>17 DEF MemberPages!CreationAnswered
  <2>2. creation' \in MemberPages!Creations
    <3>1. CASE creation' = [status |-> "idle", card |-> TRUE]
      BY <3>1 DEF MemberPages!Creations
    <3>2. CASE creation' = [creation EXCEPT !.status = "idle"]
      BY <3>2 DEF MemberPages!Creations
    <3> QED
      BY <2>3, <3>1, <3>2
  <2> QED
    BY <1>17, <2>1, <2>2 DEF MemberPages!CreationAnswered
<1>18. CASE MemberPages!OtherWrites
  <2>1. member' \in MemberPages!People
    BY <1>18 DEF MemberPages!OtherWrites, MemberPages!People, MemberPages!Values, MemberPages!AllRoles, MemberPages!Budgets
  <2>2. \/ budget' = [budget EXCEPT !.others = @ - 1]
        \/ budget' = [budget EXCEPT !.others = @ - 1, !.values = @ + 1] /\ budget.values < MaxValues
    BY <1>18 DEF MemberPages!OtherWrites
  <2>4. budget.others > 0
    BY <1>18 DEF MemberPages!OtherWrites
  <2>3. budget' \in MemberPages!Budgets
    <3>1. CASE budget' = [budget EXCEPT !.others = budget.others - 1]
      BY <3>1, <2>4 DEF MemberPages!Budgets
    <3>2. CASE budget.values < MaxValues
               /\ budget' = [budget EXCEPT !.others = budget.others - 1, !.values = budget.values + 1]
      <4>1. budget' = [values |-> budget.values + 1, ops |-> budget.ops, others |-> budget.others - 1]
        BY <3>2 DEF MemberPages!Budgets
      <4>2. budget.values + 1 \in 1..MaxValues /\ budget.others - 1 \in 0..MaxOthers
        BY <3>2, <2>4 DEF MemberPages!Budgets
      <4> QED
        BY <4>1, <4>2 DEF MemberPages!Budgets
    <3> QED
      BY <2>2, <3>1, <3>2
  <2> QED
    BY <1>18, <2>1, <2>3 DEF MemberPages!OtherWrites
<1> QED
  BY <1>1, <1>2, <1>3, <1>4, <1>5, <1>6, <1>7, <1>8, <1>9, <1>10, <1>11, <1>12, <1>13, <1>14, <1>15, <1>16, <1>17, <1>18 DEF MemberPages!Next

\* Roles come from the server, from a box that was clicked, or from another
\* administrator: the drafts carry them around unchanged.
LEMMA RolesStep ==
    ASSUME MemberPages!MembersAssumption, MemberPages!TypeOK, RolesInv, MemberPages!Next
    PROVE  RolesInv'
<1> USE DEF RolesInv
<1>1. /\ member.roles \in SUBSET MemberPages!AllRoles /\ query.data.roles \in SUBSET MemberPages!AllRoles
      /\ desk.draft \in SUBSET MemberPages!AllRoles
  BY DEF MemberPages!TypeOK, MemberPages!People, MemberPages!Queries, MemberPages!Desks
<1>2. ASSUME UNCHANGED <<member.roles, query.data.roles, desk.draft, ops.roles>>
      PROVE  RolesInv'
  BY <1>2 DEF Normal
<1>3. CASE MemberPages!Fetched
  <2>1. query'.data = member /\ UNCHANGED <<member, ops>>
    BY <1>3 DEF MemberPages!Fetched, MemberPages!TypeOK, MemberPages!Queries
  <2>2. desk'.draft = desk.draft \/ desk'.draft = member.roles
    BY <1>3 DEF MemberPages!Fetched, MemberPages!Seeded, MemberPages!TypeOK, MemberPages!Desks
  <2> QED
    BY <2>1, <2>2 DEF Normal
<1>4. CASE MemberPages!Reopen
  <2>1. UNCHANGED <<member, query, ops>>
    BY <1>4 DEF MemberPages!Reopen
  <2>2. desk'.draft = {} \/ desk'.draft = query.data.roles
    BY <1>4 DEF MemberPages!Reopen, MemberPages!Copy, MemberPages!Seeded, MemberPages!Mounted
  <2>3. Normal({})
    BY DEF Normal, MemberPages!normalizeRoles
  <2> QED
    BY <2>1, <2>2, <2>3 DEF Normal
<1>5. ASSUME NEW r \in MemberPages!AllRoles, MemberPages!ToggleRole(r)
      PROVE  RolesInv'
  <2>1. UNCHANGED <<member, query, ops>>
    BY <1>5 DEF MemberPages!ToggleRole
  <2>2. desk'.draft = MemberPages!applyRoleHierarchy(MemberPages!normalizeRoles(desk.draft), r, r \notin desk.draft)
    BY <1>5 DEF MemberPages!ToggleRole, MemberPages!TypeOK, MemberPages!Desks
  <2>3. Normal(desk'.draft)
    BY <1>1, <2>2, NormalizedTwice, HierarchyApplied DEF Normal
  <2> QED
    BY <2>1, <2>3 DEF Normal
<1>6. CASE MemberPages!SaveRoles
  <2>1. UNCHANGED <<member, query, desk>> /\ ops'.roles.roles = desk.draft
    BY <1>6 DEF MemberPages!SaveRoles, MemberPages!TypeOK
  <2> QED
    BY <2>1 DEF Normal
<1>7. CASE MemberPages!RolesServed
  <2>1. member'.roles = ops.roles.roles /\ ops'.roles.roles = ops.roles.roles /\ UNCHANGED <<query, desk>>
    BY <1>7 DEF MemberPages!RolesServed, MemberPages!TypeOK, MemberPages!People
  <2>2. ops.roles.status # "idle"
    BY <1>7 DEF MemberPages!RolesServed
  <2> QED
    BY <2>1, <2>2 DEF Normal
<1>8. CASE MemberPages!RolesAnswered
  <2>1. /\ desk'.draft = ops.roles.roles /\ query'.data = query.data /\ ops'.roles.status = "idle"
        /\ UNCHANGED member
    BY <1>8 DEF MemberPages!RolesAnswered, MemberPages!TypeOK, MemberPages!Desks, MemberPages!Queries, MemberPages!Idle
  <2>2. ops.roles.status # "idle"
    BY <1>8 DEF MemberPages!RolesAnswered
  <2> QED
    BY <2>1, <2>2 DEF Normal
<1>9. CASE MemberPages!RolesFailed
  <2>1. ops'.roles.status = "idle" /\ UNCHANGED <<member, query, desk>>
    BY <1>9 DEF MemberPages!RolesFailed, MemberPages!TypeOK, MemberPages!Idle
  <2> QED
    BY <2>1 DEF Normal
<1>10. CASE MemberPages!OtherWrites
  <2>1. member'.roles \in {member.roles, {}, {"admin"}} /\ UNCHANGED <<query, desk, ops>>
    BY <1>10 DEF MemberPages!OtherWrites, MemberPages!TypeOK, MemberPages!People
  <2>2. Normal({}) /\ Normal({"admin"})
    BY DEF Normal, MemberPages!normalizeRoles, MemberPages!MembersAssumption
  <2> QED
    BY <2>1, <2>2 DEF Normal
<1>11. CASE MemberPages!Refetch \/ MemberPages!FetchFailed \/ MemberPages!ToggleEditing \/ MemberPages!SaveProfile \/ MemberPages!ProfileServed
            \/ MemberPages!ProfileAnswered \/ MemberPages!ProfileFailed \/ (\E f \in Fields : MemberPages!EditField(f))
            \/ MemberPages!SubmitCreation \/ MemberPages!CreationAnswered
  BY <1>2, <1>11 DEF MemberPages!Refetch, MemberPages!FetchFailed, MemberPages!ToggleEditing, MemberPages!SaveProfile, MemberPages!ProfileServed,
     MemberPages!ProfileAnswered, MemberPages!ProfileFailed, MemberPages!EditField, MemberPages!SubmitCreation, MemberPages!CreationAnswered,
     MemberPages!TypeOK, MemberPages!People, MemberPages!Desks, MemberPages!Queries
<1> QED
  BY <1>3, <1>4, <1>5, <1>6, <1>7, <1>8, <1>9, <1>10, <1>11 DEF MemberPages!Next

LEMMA FormStep ==
    ASSUME MemberPages!MembersAssumption, MemberPages!TypeOK, FormInv, MemberPages!Next
    PROVE  FormInv'
<1> USE DEF FormInv
<1>1. ASSUME UNCHANGED <<query.data, desk, ops.profile>>
      PROVE  FormInv'
  BY <1>1
<1>2. CASE MemberPages!Fetched
  <2>1. query'.data = member /\ UNCHANGED ops
    BY <1>2 DEF MemberPages!Fetched, MemberPages!TypeOK, MemberPages!Queries
  <2>2. CASE desk' = desk /\ (member = query.data \/ (desk.page = "list" /\ desk.seeded))
    BY <2>1, <2>2
  <2>3. CASE desk' = [desk EXCEPT !.seeded = TRUE, !.draft = member.roles, !.form = member.fields, !.edited = {}]
    <3>1. desk'.seeded /\ desk'.form = member.fields /\ UNCHANGED <<desk.page, desk.editing>>
      BY <2>3 DEF MemberPages!TypeOK, MemberPages!Desks
    <3> QED
      BY <2>1, <3>1
  <2> QED
    BY <1>2, <2>2, <2>3 DEF MemberPages!Fetched, MemberPages!Seeded, MemberPages!Copy
<1>3. CASE MemberPages!FetchFailed
  <2>1. /\ ~desk'.editing /\ desk'.edited = {} /\ UNCHANGED <<desk.page, desk.seeded>>
        /\ desk.seeded => desk'.form = query.data.fields
        /\ query'.data = query.data /\ UNCHANGED ops
    BY <1>3 DEF MemberPages!FetchFailed, MemberPages!TypeOK, MemberPages!Desks, MemberPages!Queries, MemberPages!Copy
  <2> QED
    BY <2>1
<1>4. CASE MemberPages!Reopen
  <2>1. query.data # MemberPages!NoMember /\ UNCHANGED <<query, ops>>
    BY <1>4 DEF MemberPages!Reopen, MemberPages!Loaded, MemberPages!Copy
  <2>2. desk' = [MemberPages!Mounted(desk.page) EXCEPT !.seeded = TRUE, !.draft = query.data.roles,
                   !.form = query.data.fields, !.edited = {}]
    BY <1>4, <2>1 DEF MemberPages!Reopen, MemberPages!Seeded, MemberPages!Copy, MemberPages!Mounted
  <2>3. desk'.seeded /\ ~desk'.editing /\ desk'.form = query.data.fields
    BY <2>2 DEF MemberPages!Mounted
  <2> QED
    BY <2>1, <2>3
<1>5. CASE MemberPages!ToggleEditing
  <2>1. /\ query.data # MemberPages!NoMember /\ desk.page = "detail" /\ UNCHANGED <<query, ops>>
        /\ UNCHANGED <<desk.page, desk.seeded, desk.form, desk.edited>>
    BY <1>5 DEF MemberPages!ToggleEditing, MemberPages!Loaded, MemberPages!Copy, MemberPages!TypeOK, MemberPages!Desks
  <2> QED
    BY <2>1
<1>6. ASSUME NEW f \in Fields, MemberPages!EditField(f)
      PROVE  FormInv'
  <2>1. /\ UNCHANGED <<query, ops, desk.page, desk.seeded, desk.editing>>
        /\ desk'.edited = desk.edited \cup {f}
        /\ \A g \in Fields \ {f} : desk'.form[g] = desk.form[g]
    BY <1>6 DEF MemberPages!EditField, MemberPages!TypeOK, MemberPages!Desks
  <2> QED
    BY <2>1
<1>7. CASE MemberPages!SaveProfile
  <2>1. ops'.profile.diff = MemberPages!buildProfileDiff(desk.form, query.data) /\ ops'.profile.edited = desk.edited
    BY <1>7 DEF MemberPages!SaveProfile, MemberPages!Copy, MemberPages!TypeOK
  <2>2. \A f \in Fields \ desk.edited : desk.form[f] = query.data.fields[f]
    BY <1>7 DEF MemberPages!SaveProfile
  <2>3. DOMAIN ops'.profile.diff \subseteq ops'.profile.edited
    BY <2>1, <2>2 DEF MemberPages!buildProfileDiff
  <2>4. UNCHANGED <<query, desk>>
    BY <1>7 DEF MemberPages!SaveProfile
  <2> QED
    BY <2>3, <2>4
<1>8. CASE MemberPages!ProfileServed \/ MemberPages!ProfileFailed
  <2>1. ops'.profile.status # "sent" /\ UNCHANGED <<query, desk>>
    BY <1>8 DEF MemberPages!ProfileServed, MemberPages!ProfileFailed, MemberPages!TypeOK, MemberPages!Idle
  <2> QED
    BY <2>1
<1>9. CASE MemberPages!ProfileAnswered
  <2>1. /\ ops'.profile.status # "sent" /\ query'.data = query.data /\ ~desk'.editing
        /\ UNCHANGED <<desk.page, desk.seeded, desk.form, desk.edited>>
    BY <1>9 DEF MemberPages!ProfileAnswered, MemberPages!TypeOK, MemberPages!Idle, MemberPages!Queries, MemberPages!Desks
  <2> QED
    BY <2>1
<1>10. CASE (\E r \in MemberPages!AllRoles : MemberPages!ToggleRole(r)) \/ MemberPages!RolesAnswered
  <2>1. /\ query'.data = query.data /\ ops'.profile = ops.profile
        /\ UNCHANGED <<desk.page, desk.seeded, desk.editing, desk.form, desk.edited>>
    BY <1>10 DEF MemberPages!ToggleRole, MemberPages!RolesAnswered, MemberPages!TypeOK, MemberPages!Queries, MemberPages!Desks
  <2> QED
    BY <2>1
<1>11. CASE MemberPages!Refetch \/ MemberPages!SaveRoles \/ MemberPages!RolesServed \/ MemberPages!RolesFailed
            \/ MemberPages!SubmitCreation \/ MemberPages!CreationAnswered \/ MemberPages!OtherWrites
  BY <1>1, <1>11 DEF MemberPages!Refetch, MemberPages!SaveRoles, MemberPages!RolesServed, MemberPages!RolesFailed,
     MemberPages!SubmitCreation, MemberPages!CreationAnswered, MemberPages!OtherWrites, MemberPages!TypeOK, MemberPages!Queries
<1> QED
  BY <1>2, <1>3, <1>4, <1>5, <1>6, <1>7, <1>8, <1>9, <1>10, <1>11 DEF MemberPages!Next

\* The inductive invariant of the member pages.
THEOREM MembersInvariant == MemberPages!Spec => []MembersInv
<1>0. MemberPages!MembersAssumption
  BY AdminAssumption
<1>1. MemberPages!Init => MembersInv
  BY <1>0, MembersInit
<1>2. MembersInv /\ [MemberPages!Next]_MemberPages!memberVars => MembersInv'
  <2>1. ASSUME MembersInv, MemberPages!Next PROVE MembersInv'
    BY <1>0, <2>1, MembersTypeStep, RolesStep, FormStep DEF MembersInv
  <2>2. ASSUME MembersInv, UNCHANGED MemberPages!memberVars PROVE MembersInv'
    BY <2>2 DEF MembersInv, RolesInv, FormInv, Normal, MemberPages!TypeOK, MemberPages!memberVars
  <2> QED
    BY <2>1, <2>2
<1> QED
  BY <1>1, <1>2, PTL DEF MemberPages!Spec

\* However boxes are clicked, in drafts however old and whatever another administrator
\* writes, the roles at the server respect the hierarchy.
THEOREM RolesFollowHierarchyHolds == Spec => []RolesFollowHierarchy
<1>1. MembersInv => RolesFollowHierarchy
  BY DEF MembersInv, RolesInv, Normal, RolesFollowHierarchy, MemberPages!RolesFollowHierarchy
<1> QED
  BY <1>1, PartsBehave, MembersInvariant, PTL

\* Saving a member's profile changes only what was edited in the form.
THEOREM OnlyEditedFieldsWrittenHolds == Spec => OnlyEditedFieldsWritten
<1> DEFINE Written == \A f \in Fields :
             MemberPages!ProfileServed /\ member'.fields[f] # member.fields[f] => f \in ops.profile.edited
<1>1. MembersInv /\ [MemberPages!Next]_MemberPages!memberVars => [Written]_MemberPages!memberVars
  <2> SUFFICES ASSUME MembersInv, NEW f \in Fields, MemberPages!ProfileServed,
                      member'.fields[f] # member.fields[f]
               PROVE  f \in ops.profile.edited
    OBVIOUS
  <2>1. ops.profile.status = "sent" /\ f \in DOMAIN ops.profile.diff
    BY DEF MemberPages!ProfileServed, MembersInv, MemberPages!TypeOK, MemberPages!People
  <2> QED
    BY <2>1 DEF MembersInv, FormInv
<1> QED
  BY <1>1, PartsBehave, MembersInvariant, PTL
     DEF MemberPages!Spec, OnlyEditedFieldsWritten, MemberPages!OnlyEditedFieldsWritten

-----------------------------------------------------------------------------
(* Lists *)

\* An instance has its own name for the library's operators.
LEMMA ListsLibrary ==
    ASSUME NEW S
    PROVE  /\ ListPages!IsFiniteSet(S) = IsFiniteSet(S)
           /\ ListPages!Cardinality(S) = Cardinality(S)
BY DEF ListPages!IsFiniteSet, IsFiniteSet, ListPages!Cardinality, Cardinality

LEMMA KeyType == ASSUME ListPages!TypeOK PROVE ListPages!Key \in ListPages!Keys
BY DEF ListPages!TypeOK, ListPages!Looks, ListPages!Key, ListPages!Keys

\* What the server answers has only rows that are there.
LEMMA AnswerType ==
    ASSUME ListPages!ListsAssumption, ListPages!TypeOK, NEW key \in ListPages!Keys
    PROVE  ListPages!Answer(key) \in ListPages!Answers /\ ListPages!Answer(key).rows \subseteq rows
<1>1. ListPages!Found(key[2]) \subseteq rows
  BY DEF ListPages!Found
<1>2. ListPages!PageOf(ListPages!Found(key[2]), key[1]) \subseteq rows
  BY <1>1 DEF ListPages!PageOf
<1>3. rows \subseteq Rows /\ IsFiniteSet(Rows)
  BY ListsLibrary DEF ListPages!TypeOK, ListPages!ListsAssumption
<1>4. IsFiniteSet(ListPages!Found(key[2])) /\ Cardinality(ListPages!Found(key[2])) \leq Cardinality(Rows)
  <2>1. ListPages!Found(key[2]) \in SUBSET Rows
    BY <1>1, <1>3
  <2> QED
    BY <1>3, <2>1, FS_Subset
<1>5. Cardinality(ListPages!Found(key[2])) \in Nat /\ Cardinality(Rows) \in Nat
  BY <1>3, <1>4, FS_CardinalityType
<1>6. Cardinality(ListPages!Found(key[2])) \in 0..Cardinality(Rows)
  BY <1>4, <1>5
<1>7. /\ ListPages!Answer(key).rows = ListPages!PageOf(ListPages!Found(key[2]), key[1])
      /\ ListPages!Answer(key).total = Cardinality(ListPages!Found(key[2]))
      /\ ListPages!Answer(key) = [rows |-> ListPages!Answer(key).rows, total |-> ListPages!Answer(key).total]
  BY ListsLibrary DEF ListPages!Answer
<1>8. ListPages!Answer(key).rows \in SUBSET Rows
        /\ ListPages!Answer(key).total \in {-1} \cup 0..Cardinality(Rows)
  BY <1>2, <1>3, <1>6, <1>7
<1> QED
  BY <1>2, <1>7, <1>8, ListsLibrary DEF ListPages!Answers

\* The pager never passes the last page that the rows could fill.
LEMMA NextPageType ==
    ASSUME NEW N \in Nat, NEW size \in Nat \ {0}, NEW p \in Nat, (p + 1) * size < N
    PROVE  p + 1 \in 0..((N + size - 1) \div size)
<1> DEFINE last == (N + size - 1) \div size
<1>1. last \in Nat /\ N + size - 1 < (last + 1) * size
  OBVIOUS
<1>2. (p + 1) * size < (last + 1) * size
  <2>1. (p + 1) * size \in Nat /\ (last + 1) * size \in Nat
    BY <1>1
  <2> QED
    BY <1>1, <2>1
<1>3. p + 1 < last + 1
  BY <1>1, <1>2
<1> QED
  BY <1>1, <1>3

\* A deletion under way names a row, gone once it was served, and the dialog that sent
\* it is open unless it was closed from the page.
DialogInv ==
    /\ deletion.status # "idle" => deletion.row \in Rows
    /\ deletion.status = "served" => deletion.row \notin rows
    /\ deletion.status # "idle" => deletion.escaped \/ look.target = deletion.row

\* Neither what a query shows as fresh nor what it will show names a deleted row.
GhostInv ==
    \A k \in ListPages!Keys :
        /\ queries[k].fresh /\ queries[k].data.rows \cap ledger.gone # {} => k \in ledger.raced
        /\ \A a \in queries[k].asked : a.rows \cap ledger.gone # {} => k \in ledger.raced

ListsInv == ListPages!TypeOK /\ DialogInv /\ GhostInv

LEMMA ListsInit == ASSUME ListPages!ListsAssumption, ListPages!Init PROVE ListsInv
<1> USE DEF ListPages!Init
<1>1. Cardinality(Rows) \in Nat /\ PageSize \in Nat \ {0}
  BY ListsLibrary, FS_CardinalityType DEF ListPages!ListsAssumption
<1>2. 0 \in ListPages!Pages
  <2>1. (Cardinality(Rows) + PageSize - 1) \div PageSize \in Nat
    BY <1>1
  <2> QED
    BY <2>1, ListsLibrary DEF ListPages!Pages
<1>3. ListPages!NewQuery \in ListPages!Queries
  BY DEF ListPages!NewQuery, ListPages!Unloaded, ListPages!Queries, ListPages!Answers
<1>4. look \in ListPages!Looks
  BY <1>2 DEF ListPages!Looks, ListPages!Kinds, ListPages!Filters
<1>5. deletion \in ListPages!Deletions
  BY DEF ListPages!Deletions
<1>6. ledger \in ListPages!Ledgers
  BY DEF ListPages!Ledgers, ListPages!ListsAssumption
<1>7. ListPages!TypeOK
  BY <1>3, <1>4, <1>5, <1>6 DEF ListPages!TypeOK
<1>8. DialogInv
  BY DEF DialogInv
<1>9. GhostInv
  BY DEF GhostInv, ListPages!NewQuery
<1> QED
  BY <1>7, <1>8, <1>9 DEF ListsInv

LEMMA PagerType ==
    ASSUME ListPages!ListsAssumption, ListPages!TypeOK, ListPages!PrevPage \/ ListPages!NextPage \/ ListPages!SetFilter
    PROVE  look' \in ListPages!Looks
<1> DEFINE N == Cardinality(Rows)
           last == (N + PageSize - 1) \div PageSize
<1>1. N \in Nat /\ PageSize \in Nat \ {0}
  BY ListsLibrary, FS_CardinalityType DEF ListPages!ListsAssumption
<1>2. last \in Nat /\ ListPages!Pages = 0..last
  <2>1. last \in Nat
    BY <1>1
  <2> QED
    BY <2>1, ListsLibrary DEF ListPages!Pages
<1>3. look.page \in 0..last
  BY <1>2 DEF ListPages!TypeOK, ListPages!Looks
<1>4. CASE ListPages!PrevPage
  <2>1. look.page - 1 \in 0..last
    BY <1>2, <1>3, <1>4 DEF ListPages!PrevPage, ListPages!PrevEnabled
  <2> QED
    BY <1>2, <1>4, <2>1 DEF ListPages!PrevPage, ListPages!TypeOK, ListPages!Looks
<1>5. CASE ListPages!NextPage
  <2>1. ListPages!Shown.data.total \in {-1} \cup 0..N
    BY KeyType, ListsLibrary DEF ListPages!TypeOK, ListPages!Queries, ListPages!Answers, ListPages!Shown
  <2>2. (look.page + 1) * PageSize < ListPages!Shown.data.total
    BY <1>5 DEF ListPages!NextPage, ListPages!NextEnabled
  <2>3. look.page \in Nat /\ (look.page + 1) * PageSize \in Nat
    BY <1>1, <1>2, <1>3
  <2>4. (look.page + 1) * PageSize < N
    BY <1>1, <2>1, <2>2, <2>3
  <2>5. look.page + 1 \in 0..last
    BY <1>1, <2>3, <2>4, NextPageType
  <2> QED
    BY <1>2, <1>5, <2>5 DEF ListPages!NextPage, ListPages!TypeOK, ListPages!Looks
<1>6. CASE ListPages!SetFilter
  <2>1. PICK f \in ListPages!Filters : look' = [look EXCEPT !.filter = f, !.page = 0]
    BY <1>6 DEF ListPages!SetFilter
  <2>2. look' = [kind |-> look.kind, page |-> 0, filter |-> f, target |-> look.target]
    BY <2>1 DEF ListPages!TypeOK, ListPages!Looks
  <2> QED
    BY <1>2, <2>2 DEF ListPages!TypeOK, ListPages!Looks
<1> QED
  BY <1>4, <1>5, <1>6

LEMMA ListsTypeStep ==
    ASSUME ListPages!ListsAssumption, ListPages!TypeOK, DialogInv, ListPages!Next
    PROVE  ListPages!TypeOK'
<1> USE DEF ListPages!TypeOK
<1>1. CASE ListPages!Fetch
  <2>1. {ListPages!Answer(ListPages!Key)} \in SUBSET ListPages!Answers
    BY KeyType, AnswerType
  <2>2. queries' \in [ListPages!Keys -> ListPages!Queries]
    BY <1>1, <2>1, KeyType DEF ListPages!Fetch, ListPages!Queries
  <2>3. ledger' = [fetches |-> ledger.fetches + 1, deletes |-> ledger.deletes,
                   gone |-> ledger.gone, raced |-> ledger.raced \ {ListPages!Key}]
    BY <1>1 DEF ListPages!Fetch, ListPages!Ledgers
  <2>4. ledger.fetches + 1 \in 0..MaxFetches
    BY <1>1 DEF ListPages!Fetch, ListPages!Ledgers, ListPages!ListsAssumption
  <2>5. ledger' \in ListPages!Ledgers /\ ledger'.gone = ledger.gone
    BY <2>3, <2>4 DEF ListPages!Ledgers
  <2> QED
    BY <1>1, <2>2, <2>5 DEF ListPages!Fetch
<1>2. ASSUME NEW k \in ListPages!Keys, ListPages!FetchAnswered(k) \/ ListPages!FetchFailed(k) \/ ListPages!GoStale(k)
      PROVE  ListPages!TypeOK'
  <2>1. CASE ListPages!FetchAnswered(k)
    <3>1. PICK a \in queries[k].asked :
             queries' = [queries EXCEPT ![k] = [data |-> a, fresh |-> TRUE, asked |-> {}]]
      BY <2>1 DEF ListPages!FetchAnswered
    <3>2. a \in ListPages!Answers
      BY DEF ListPages!Queries
    <3>3. [data |-> a, fresh |-> TRUE, asked |-> {}] \in ListPages!Queries
      BY <3>2 DEF ListPages!Queries
    <3>4. queries' \in [ListPages!Keys -> ListPages!Queries]
      BY <3>1, <3>3
    <3> QED
      BY <2>1, <3>4 DEF ListPages!FetchAnswered
  <2>2. CASE ListPages!FetchFailed(k)
    <3>1. queries' \in [ListPages!Keys -> ListPages!Queries]
      BY <2>2 DEF ListPages!FetchFailed, ListPages!Queries
    <3> QED
      BY <2>2, <3>1 DEF ListPages!FetchFailed
  <2>3. CASE ListPages!GoStale(k)
    <3>1. queries' \in [ListPages!Keys -> ListPages!Queries]
      BY <2>3 DEF ListPages!GoStale, ListPages!Queries
    <3> QED
      BY <2>3, <3>1 DEF ListPages!GoStale
  <2> QED
    BY <1>2, <2>1, <2>2, <2>3
<1>3. CASE ListPages!PrevPage \/ ListPages!NextPage \/ ListPages!SetFilter
  BY <1>3, PagerType DEF ListPages!PrevPage, ListPages!NextPage, ListPages!SetFilter
<1>4. CASE ListPages!AskDelete
  <2>1. ListPages!Shown.data.rows \subseteq Rows
    BY KeyType DEF ListPages!Shown, ListPages!Queries, ListPages!Answers
  <2>2. look' \in ListPages!Looks
    BY <1>4, <2>1 DEF ListPages!AskDelete, ListPages!Looks
  <2> QED
    BY <1>4, <2>2 DEF ListPages!AskDelete
<1>5. CASE ListPages!Confirm
  <2>1. deletion' \in ListPages!Deletions
    BY <1>5 DEF ListPages!Confirm, ListPages!Deletions, ListPages!Looks
  <2>2. ledger' \in ListPages!Ledgers /\ ledger'.gone = ledger.gone
    BY <1>5 DEF ListPages!Confirm, ListPages!Ledgers, ListPages!ListsAssumption
  <2> QED
    BY <1>5, <2>1, <2>2 DEF ListPages!Confirm
<1>6. CASE ListPages!Cancel
  <2>1. look' \in ListPages!Looks
    BY <1>6 DEF ListPages!Cancel, ListPages!Looks
  <2>2. deletion' \in ListPages!Deletions
    BY <1>6 DEF ListPages!Cancel, ListPages!Deletions, ListPages!Pending
  <2> QED
    BY <1>6, <2>1, <2>2 DEF ListPages!Cancel
<1>7. CASE ListPages!DeleteServed
  <2>1. deletion' \in ListPages!Deletions
    BY <1>7 DEF ListPages!DeleteServed, ListPages!Deletions
  <2> QED
    BY <1>7, <2>1 DEF ListPages!DeleteServed
<1>8. CASE ListPages!DeleteAnswered
  <2>1. look' \in ListPages!Looks /\ deletion' \in ListPages!Deletions
    BY <1>8 DEF ListPages!DeleteAnswered, ListPages!Looks, ListPages!Deletions
  <2>2. deletion.row \in Rows \ rows
    BY <1>8 DEF ListPages!DeleteAnswered, DialogInv
  <2>3. \A k \in ListPages!Keys :
           [queries[k] EXCEPT !.fresh = FALSE,
                              !.asked = IF k # ListPages!Key \/ ListPages!Continues(queries, k) THEN @
                                        ELSE {ListPages!Answer(k)}] \in ListPages!Queries
    BY AnswerType DEF ListPages!Queries
  <2>4. queries' \in [ListPages!Keys -> ListPages!Queries]
    BY <1>8, <2>3 DEF ListPages!DeleteAnswered, ListPages!Invalidated
  <2>5. {k \in ListPages!Keys : ListPages!Continues(queries, k)} \cup (ledger.raced \ {ListPages!Key})
            \in SUBSET ListPages!Keys
    BY DEF ListPages!Ledgers
  <2>6. ledger' \in ListPages!Ledgers /\ ledger'.gone = ledger.gone \cup {deletion.row}
    BY <1>8, <2>2, <2>5 DEF ListPages!DeleteAnswered, ListPages!Ledgers
  <2> QED
    BY <1>8, <2>1, <2>2, <2>4, <2>6 DEF ListPages!DeleteAnswered
<1>9. CASE ListPages!DeleteError
  <2>1. look' \in ListPages!Looks /\ deletion' \in ListPages!Deletions
    BY <1>9 DEF ListPages!DeleteError, ListPages!Looks, ListPages!Deletions
  <2> QED
    BY <1>9, <2>1 DEF ListPages!DeleteError
<1>10. CASE ListPages!OtherDeletes
  <2>1. ledger' \in ListPages!Ledgers /\ ledger'.gone = ledger.gone
    BY <1>10 DEF ListPages!OtherDeletes, ListPages!Ledgers, ListPages!ListsAssumption
  <2> QED
    BY <1>10, <2>1 DEF ListPages!OtherDeletes
<1> QED
  BY <1>1, <1>2, <1>3, <1>4, <1>5, <1>6, <1>7, <1>8, <1>9, <1>10 DEF ListPages!Next

LEMMA DialogStep ==
    ASSUME ListPages!ListsAssumption, ListPages!TypeOK, DialogInv, ListPages!Next
    PROVE  DialogInv'
<1> USE DEF DialogInv, ListPages!TypeOK
<1>1. ASSUME UNCHANGED <<deletion, look.target>>, rows' \subseteq rows
      PROVE  DialogInv'
  BY <1>1
<1>2. CASE ListPages!Fetch \/ (\E k \in ListPages!Keys : ListPages!FetchAnswered(k) \/ ListPages!FetchFailed(k) \/ ListPages!GoStale(k))
           \/ ListPages!PrevPage \/ ListPages!NextPage \/ ListPages!SetFilter \/ ListPages!OtherDeletes
  BY <1>1, <1>2 DEF ListPages!Fetch, ListPages!FetchAnswered, ListPages!FetchFailed, ListPages!GoStale, ListPages!PrevPage, ListPages!NextPage,
     ListPages!SetFilter, ListPages!OtherDeletes, ListPages!Looks
<1>3. CASE ListPages!AskDelete
  BY <1>3 DEF ListPages!AskDelete, ListPages!ListsAssumption
<1>4. CASE ListPages!Confirm
  BY <1>4 DEF ListPages!Confirm, ListPages!Looks
<1>5. CASE ListPages!Cancel
  BY <1>5 DEF ListPages!Cancel, ListPages!Pending, ListPages!Deletions
<1>6. CASE ListPages!DeleteServed
  BY <1>6 DEF ListPages!DeleteServed, ListPages!Deletions
<1>7. CASE ListPages!DeleteAnswered \/ ListPages!DeleteError
  BY <1>7 DEF ListPages!DeleteAnswered, ListPages!DeleteError
<1> QED
  BY <1>2, <1>3, <1>4, <1>5, <1>6, <1>7 DEF ListPages!Next

LEMMA GhostStep ==
    ASSUME ListPages!ListsAssumption, ListPages!TypeOK, DialogInv, GhostInv, ListPages!Next
    PROVE  GhostInv'
<1> USE DEF GhostInv
<1>1. CASE ListPages!Fetch
  <2>1. ListPages!Answer(ListPages!Key).rows \cap ledger.gone = {}
    BY KeyType, AnswerType DEF ListPages!TypeOK
  <2>2. ledger'.gone = ledger.gone /\ ledger'.raced = ledger.raced \ {ListPages!Key}
    BY <1>1 DEF ListPages!Fetch, ListPages!TypeOK, ListPages!Ledgers
  <2>3. ~queries[ListPages!Key].fresh
    BY <1>1 DEF ListPages!Fetch, ListPages!Shown
  <2>4. /\ queries'[ListPages!Key].fresh = queries[ListPages!Key].fresh /\ queries'[ListPages!Key].asked = {ListPages!Answer(ListPages!Key)}
        /\ \A k \in ListPages!Keys \ {ListPages!Key} : queries'[k] = queries[k]
    BY <1>1, KeyType DEF ListPages!Fetch, ListPages!TypeOK, ListPages!Queries
  <2> QED
    BY <2>1, <2>2, <2>3, <2>4
<1>2. ASSUME NEW k \in ListPages!Keys, ListPages!FetchAnswered(k) \/ ListPages!FetchFailed(k) \/ ListPages!GoStale(k)
      PROVE  GhostInv'
  <2>1. UNCHANGED ledger /\ \A j \in ListPages!Keys \ {k} : queries'[j] = queries[j]
    BY <1>2 DEF ListPages!FetchAnswered, ListPages!FetchFailed, ListPages!GoStale, ListPages!TypeOK
  <2>2. CASE ListPages!FetchAnswered(k)
    <3>1. queries'[k].asked = {} /\ queries'[k].data \in queries[k].asked
      BY <2>2 DEF ListPages!FetchAnswered, ListPages!TypeOK
    <3> QED
      BY <2>1, <3>1
  <2>3. CASE ListPages!FetchFailed(k) \/ ListPages!GoStale(k)
    <3>1. /\ queries'[k].asked = {} \/ queries'[k].asked = queries[k].asked
          /\ queries'[k].data = queries[k].data
          /\ queries'[k].fresh => queries[k].fresh
      BY <2>3 DEF ListPages!FetchFailed, ListPages!GoStale, ListPages!TypeOK, ListPages!Queries
    <3> QED
      BY <2>1, <3>1
  <2> QED
    BY <1>2, <2>2, <2>3
<1>3. CASE ListPages!DeleteAnswered
  <2>1. deletion.row \notin rows
    BY <1>3 DEF ListPages!DeleteAnswered, DialogInv
  <2>2. ledger'.gone = ledger.gone \cup {deletion.row}
        /\ ledger'.raced = {k \in ListPages!Keys : ListPages!Continues(queries, k)}
                              \cup (ledger.raced \ {ListPages!Key})
    BY <1>3 DEF ListPages!DeleteAnswered, ListPages!TypeOK, ListPages!Ledgers
  <2>3. ListPages!Answer(ListPages!Key).rows \cap ledger'.gone = {}
    BY <2>1, <2>2, KeyType, AnswerType DEF ListPages!TypeOK
  <2>4. \A k \in ListPages!Keys :
           /\ ~queries'[k].fresh
           /\ queries'[k].asked = IF k # ListPages!Key \/ ListPages!Continues(queries, k) THEN queries[k].asked
                                  ELSE {ListPages!Answer(k)}
    BY <1>3 DEF ListPages!DeleteAnswered, ListPages!Invalidated, ListPages!TypeOK, ListPages!Queries
  \* A fetch that goes on is noted, whatever it brings.
  <2>5. \A k \in ListPages!Keys : queries[k].asked # {} => k = ListPages!Key \/ k \in ledger'.raced
    BY <2>2 DEF ListPages!Continues
  <2>6. \A k \in ListPages!Keys : ListPages!Continues(queries, k) => k \in ledger'.raced
    BY <2>2
  <2> QED
    BY <2>3, <2>4, <2>5, <2>6
<1>4. ASSUME UNCHANGED <<queries, ledger.gone, ledger.raced>>
      PROVE  GhostInv'
  BY <1>4
<1>5. CASE ListPages!PrevPage \/ ListPages!NextPage \/ ListPages!SetFilter \/ ListPages!AskDelete \/ ListPages!Confirm \/ ListPages!Cancel
           \/ ListPages!DeleteServed \/ ListPages!DeleteError \/ ListPages!OtherDeletes
  BY <1>4, <1>5 DEF ListPages!PrevPage, ListPages!NextPage, ListPages!SetFilter, ListPages!AskDelete, ListPages!Confirm, ListPages!Cancel,
     ListPages!DeleteServed, ListPages!DeleteError, ListPages!OtherDeletes, ListPages!TypeOK, ListPages!Ledgers
<1> QED
  BY <1>1, <1>2, <1>3, <1>5 DEF ListPages!Next

\* The inductive invariant of the lists.
THEOREM ListsInvariant == ListPages!Spec => []ListsInv
<1>0. ListPages!ListsAssumption
  BY AdminAssumption
<1>1. ListPages!Init => ListsInv
  BY <1>0, ListsInit
<1>2. ListsInv /\ [ListPages!Next]_ListPages!listVars => ListsInv'
  <2>1. ASSUME ListsInv, ListPages!Next PROVE ListsInv'
    BY <1>0, <2>1, ListsTypeStep, DialogStep, GhostStep DEF ListsInv
  <2>2. ASSUME ListsInv, UNCHANGED ListPages!listVars PROVE ListsInv'
    BY <2>2 DEF ListsInv, DialogInv, GhostInv, ListPages!TypeOK, ListPages!listVars
  <2> QED
    BY <2>1, <2>2
<1> QED
  BY <1>1, <1>2, PTL DEF ListPages!Spec

\* No cached page of a list passes for fresh with a row that is known to be deleted, unless
\* it was being fetched, unseen or for the first time, when the deletion was acknowledged.
THEOREM NoFreshGhostHolds == Spec => []NoFreshGhost
<1>1. ListsInv => NoFreshGhost
  BY DEF ListsInv, GhostInv, NoFreshGhost, ListPages!NoFreshGhost
<1> QED
  BY <1>1, PartsBehave, ListsInvariant, PTL

\* The answer to a deletion closes the dialog of its own row only, unless that dialog was
\* closed before the answer came.
THEOREM AnswerClosesItsDialogHolds == Spec => AnswerClosesItsDialog
<1> DEFINE Own == look.target # NoRow /\ look'.target # look.target
                    => ListPages!Cancel \/ deletion.row = look.target \/ deletion.escaped
<1>1. ListsInv /\ [ListPages!Next]_ListPages!listVars => [Own]_ListPages!listVars
  <2> SUFFICES ASSUME ListsInv, ListPages!Next, look.target # NoRow, look'.target # look.target
               PROVE  ListPages!Cancel \/ deletion.row = look.target \/ deletion.escaped
    OBVIOUS
  <2>1. ListPages!Cancel \/ ListPages!DeleteAnswered \/ ListPages!DeleteError
    BY DEF ListPages!Next, ListPages!Fetch, ListPages!FetchAnswered, ListPages!FetchFailed, ListPages!GoStale, ListPages!PrevPage, ListPages!NextPage, ListPages!SetFilter,
       ListPages!AskDelete, ListPages!Confirm, ListPages!DeleteServed, ListPages!OtherDeletes
  <2> QED
    BY <2>1 DEF ListsInv, DialogInv, ListPages!DeleteAnswered, ListPages!DeleteError
<1> QED
  BY <1>1, PartsBehave, ListsInvariant, PTL DEF ListPages!Spec, AnswerClosesItsDialog, ListPages!AnswerClosesItsDialog

-----------------------------------------------------------------------------
(* The form of an event *)

\* What is on its way has a time; a form that was left alone shows the copy it was
\* seeded from, and the event itself if nothing was written since its last answer.
Left(form) == ~form.titleTouched

UpToDate(sh) ==
    /\ sh.seen \leq tally.writes
    /\ sh.kind # "edit" => sh.seen = 0
    /\ Left(sh.form) /\ event.alive /\ sh.seen = tally.writes => sh.form.title = event.title

SeedInv ==
    /\ UpToDate(sheet)
    /\ sheet.kind = "edit" /\ Left(sheet.form) /\ detail.data.alive
         => sheet.form.title = detail.data.title
    /\ \A s \in saves : UpToDate(s.sheet) /\ s.sheet.form.clock \in Int

EditorInv == EventPages!TypeOK /\ SeedInv

LEMMA EventSeedType ==
    ASSUME NEW r \in EventPages!EventRows
    PROVE  EventPages!Seed(r) \in EventPages!Forms /\ EventPages!Seed(r).title = r.title /\ Left(EventPages!Seed(r))
<1>1. r.title \in 0..MaxTitles /\ r.starts \in Int
  BY DEF EventPages!EventRows
<1>2. EventPages!Seed(r) = [title |-> r.title, clock |-> r.starts, titleTouched |-> FALSE, clockTouched |-> FALSE]
  BY DEF EventPages!Seed, EventPages!toLocalInput
<1>3. EventPages!Seed(r) \in EventPages!Forms
  BY <1>1, <1>2 DEF EventPages!Forms
<1>4. EventPages!Seed(r).title = r.title /\ EventPages!Seed(r).titleTouched = FALSE
  BY <1>2
<1> QED
  BY <1>3, <1>4 DEF Left

LEMMA BlankType == ASSUME EventPages!ClockAssumption PROVE EventPages!Blank \in EventPages!Forms /\ EventPages!Closed \in EventPages!Sheets /\ EventPages!NoCopy \in EventPages!EventRows
BY DEF EventPages!Blank, EventPages!Forms, EventPages!Closed, EventPages!Sheets, EventPages!NoCopy, EventPages!EventRows, EventPages!ClockAssumption

LEMMA EditorInit == ASSUME EventPages!ClockAssumption, EventPages!Init PROVE EditorInv
<1> USE DEF EventPages!Init, EventPages!ClockAssumption
<1>1. event \in EventPages!EventRows
  <2>1. [title |-> 1, starts |-> Start, alive |-> TRUE] \in EventPages!EventRows
    BY DEF EventPages!EventRows
  <2> QED
    BY <2>1, BlankType
<1>2. detail \in EventPages!Details /\ removal \in EventPages!Removals /\ tally \in EventPages!Tallies
  BY BlankType DEF EventPages!Details, EventPages!Removals, EventPages!Tallies, EventPages!NoRemoval
<1>3. EventPages!TypeOK
  BY <1>1, <1>2, BlankType DEF EventPages!TypeOK
<1>4. SeedInv
  BY DEF SeedInv, UpToDate, EventPages!Closed
<1> QED
  BY <1>3, <1>4 DEF EditorInv

LEMMA EditorTypeStep ==
    ASSUME EventPages!ClockAssumption, EventPages!TypeOK, SeedInv, EventPages!Next
    PROVE  EventPages!TypeOK'
<1> USE BlankType DEF EventPages!TypeOK
<1>0. EventPages!Closed \in EventPages!Sheets /\ [EventPages!Closed EXCEPT !.kind = "new"] \in EventPages!Sheets /\ [EventPages!Closed EXCEPT !.kind = "error"] \in EventPages!Sheets
  BY DEF EventPages!Closed, EventPages!Sheets
<1>1. CASE EventPages!OpenNew
  <2>1. tally' \in EventPages!Tallies
    BY <1>1 DEF EventPages!OpenNew, EventPages!Tallies, EventPages!ClockAssumption
  <2> QED
    BY <1>0, <1>1, <2>1 DEF EventPages!OpenNew
<1>2. CASE EventPages!OpenEdit
  <2>1. tally' \in EventPages!Tallies
    BY <1>2 DEF EventPages!OpenEdit, EventPages!Tallies, EventPages!ClockAssumption
  <2>2. detail.data \in EventPages!EventRows
    BY DEF EventPages!Details
  <2>3. (IF detail.data.alive THEN EventPages!Seed(detail.data) ELSE EventPages!Blank) \in EventPages!Forms
    BY <2>2, EventSeedType
  <2>4. sheet' \in EventPages!Sheets
    BY <1>2, <2>3 DEF EventPages!OpenEdit, EventPages!Sheets
  <2>5. detail' \in EventPages!Details
    BY <1>2 DEF EventPages!OpenEdit, EventPages!Details
  <2> QED
    BY <1>2, <2>1, <2>4, <2>5 DEF EventPages!OpenEdit
<1>3. CASE EventPages!GoStale
  <2>1. detail' \in EventPages!Details
    BY <1>3 DEF EventPages!GoStale, EventPages!Details
  <2> QED
    BY <1>3, <2>1 DEF EventPages!GoStale
<1>4. CASE EventPages!Fetched
  <2>1. detail' \in EventPages!Details
    BY <1>4 DEF EventPages!Fetched, EventPages!Details
  <2>2. EventPages!Reseeded(detail.data, event, sheet.form) \in EventPages!Forms
    BY EventSeedType DEF EventPages!Reseeded, EventPages!Sheets
  <2>3. sheet' \in EventPages!Sheets
    <3>1. tally.writes \in Nat
      BY DEF EventPages!Tallies
    <3> QED
      BY <1>4, <2>2, <3>1 DEF EventPages!Fetched, EventPages!Sheets
  <2> QED
    BY <1>4, <2>1, <2>3 DEF EventPages!Fetched
<1>5. CASE EventPages!FetchFailed
  <2>1. detail' \in EventPages!Details
    BY <1>5 DEF EventPages!FetchFailed, EventPages!Details
  <2>2. removal' \in EventPages!Removals
    BY <1>5 DEF EventPages!FetchFailed, EventPages!Removals
  <2> QED
    BY <1>0, <1>5, <2>1, <2>2 DEF EventPages!FetchFailed
<1>6. CASE EventPages!TypeTitle
  <2>1. tally' \in EventPages!Tallies /\ tally.titles + 1 \in 0..MaxTitles
    BY <1>6 DEF EventPages!TypeTitle, EventPages!Tallies, EventPages!ClockAssumption
  <2>2. [sheet.form EXCEPT !.title = tally.titles + 1, !.titleTouched = TRUE] \in EventPages!Forms
    BY <2>1 DEF EventPages!Forms, EventPages!Sheets
  <2>3. sheet' \in EventPages!Sheets
    BY <1>6, <2>2 DEF EventPages!TypeTitle, EventPages!Sheets
  <2> QED
    BY <1>6, <2>1, <2>3 DEF EventPages!TypeTitle
<1>7. CASE EventPages!TypeClock
  <2>1. PICK c \in Clocks : sheet' = [sheet EXCEPT !.form.clock = c, !.form.clockTouched = TRUE]
    BY <1>7 DEF EventPages!TypeClock
  <2>2. [sheet.form EXCEPT !.clock = c, !.clockTouched = TRUE] \in EventPages!Forms
    BY DEF EventPages!Forms, EventPages!Sheets, EventPages!ClockAssumption
  <2>3. sheet' \in EventPages!Sheets
    BY <2>1, <2>2 DEF EventPages!Sheets
  <2> QED
    BY <1>7, <2>3 DEF EventPages!TypeClock
<1>8. CASE EventPages!Save
  <2>1. [status |-> "sent", sheet |-> sheet, visit |-> tally.visits] \in EventPages!Saves
    BY DEF EventPages!Saves, EventPages!Tallies
  <2> QED
    BY <1>8, <2>1 DEF EventPages!Save
<1>9. ASSUME NEW s \in saves, EventPages!SaveServed(s)
      PROVE  EventPages!TypeOK'
  <2>1. s.sheet.form.title \in 0..MaxTitles
    BY DEF EventPages!Saves, EventPages!Sheets, EventPages!Forms
  <2>2. EventPages!fromLocalInput(s.sheet.form.clock) \in Int
    BY DEF SeedInv, EventPages!fromLocalInput, EventPages!ClockAssumption
  <2>3. event' \in EventPages!EventRows
    BY <1>9, <2>1, <2>2 DEF EventPages!SaveServed, EventPages!EventRows
  <2>4. [s EXCEPT !.status = "stored"] \in EventPages!Saves
    BY DEF EventPages!Saves
  <2>5. tally' \in EventPages!Tallies
    BY <1>9 DEF EventPages!SaveServed, EventPages!Tallies
  <2> QED
    BY <1>9, <2>3, <2>4, <2>5 DEF EventPages!SaveServed
<1>10. ASSUME NEW s \in saves, EventPages!SaveFailed(s) \/ EventPages!SaveAnswered(s)
       PROVE  EventPages!TypeOK'
  <2>1. removal' \in EventPages!Removals
    BY <1>10 DEF EventPages!SaveFailed, EventPages!SaveAnswered, EventPages!Removals
  <2> QED
    BY <1>10, <2>1 DEF EventPages!SaveFailed, EventPages!SaveAnswered
<1>11. CASE EventPages!Leave \/ EventPages!OpenDialog \/ EventPages!CancelDelete \/ EventPages!DeleteFailed
  <2>1. removal' \in EventPages!Removals
    BY <1>11 DEF EventPages!Leave, EventPages!OpenDialog, EventPages!CancelDelete, EventPages!DeleteFailed, EventPages!Removals
  <2> QED
    BY <1>11, <2>1 DEF EventPages!Leave, EventPages!OpenDialog, EventPages!CancelDelete, EventPages!DeleteFailed
<1>12. CASE EventPages!ConfirmDelete
  <2>1. removal' \in EventPages!Removals
    BY <1>12 DEF EventPages!ConfirmDelete, EventPages!Removals, EventPages!Tallies
  <2> QED
    BY <1>12, <2>1 DEF EventPages!ConfirmDelete
<1>13. CASE EventPages!DeleteServed
  <2>1. removal' \in EventPages!Removals
    BY <1>13 DEF EventPages!DeleteServed, EventPages!Removals
  <2>2. event' \in EventPages!EventRows
    BY <1>13 DEF EventPages!DeleteServed, EventPages!EventRows
  <2> QED
    BY <1>13, <2>1, <2>2 DEF EventPages!DeleteServed
<1>13a. CASE EventPages!DeleteAnswered
  <2>1. removal' \in EventPages!Removals
    BY <1>13a DEF EventPages!DeleteAnswered, EventPages!NoRemoval, EventPages!Removals, EventPages!ClockAssumption
  <2> QED
    BY <1>13a, <2>1 DEF EventPages!DeleteAnswered
<1>14. CASE EventPages!OtherWrites
  <2>1. tally' = [titles |-> tally.titles + 1, visits |-> tally.visits, writes |-> tally.writes + 1]
    BY <1>14 DEF EventPages!OtherWrites, EventPages!Tallies
  <2>2. tally.titles + 1 \in 1..MaxTitles /\ tally.writes + 1 \in Nat \ {0}
    BY <1>14 DEF EventPages!OtherWrites, EventPages!Tallies, EventPages!ClockAssumption
  <2>3. tally' \in EventPages!Tallies
    BY <2>1, <2>2 DEF EventPages!Tallies
  <2>4. event' \in EventPages!EventRows
    BY <1>14, <2>2 DEF EventPages!OtherWrites, EventPages!EventRows
  <2> QED
    BY <1>14, <2>3, <2>4 DEF EventPages!OtherWrites
<1> QED
  BY <1>1, <1>2, <1>3, <1>4, <1>5, <1>6, <1>7, <1>8, <1>9, <1>10, <1>11, <1>12, <1>13, <1>13a, <1>14 DEF EventPages!Next

LEMMA SeedStep ==
    ASSUME EventPages!ClockAssumption, EventPages!TypeOK, SeedInv, EventPages!Next
    PROVE  SeedInv'
<1> USE DEF SeedInv
<1>0. /\ tally.writes \in Nat \ {0} /\ sheet.seen \in Nat /\ \A s \in saves : s.sheet.seen \in Nat
      /\ EventPages!Closed.kind = "none" /\ EventPages!Closed.seen = 0
  BY DEF EventPages!TypeOK, EventPages!Tallies, EventPages!Sheets, EventPages!Saves, EventPages!Closed
\* A sheet stays up to date while nothing is written, also when the event goes.
<1>1. ASSUME NEW sh, UpToDate(sh), tally'.writes = tally.writes,
             event' = event \/ ~event'.alive
      PROVE  UpToDate(sh)'
  BY <1>1 DEF UpToDate
\* A write leaves every sheet behind.
<1>2. ASSUME NEW sh, UpToDate(sh), sh.seen \in Nat, tally'.writes = tally.writes + 1
      PROVE  UpToDate(sh)'
  BY <1>0, <1>2 DEF UpToDate
<1>3. ASSUME sheet' = EventPages!Closed \/ sheet' = [EventPages!Closed EXCEPT !.kind = "new"] \/ sheet' = [EventPages!Closed EXCEPT !.kind = "error"],
             tally'.writes = tally.writes
      PROVE  UpToDate(sheet)' /\ sheet'.kind # "edit"
  BY <1>0, <1>3 DEF UpToDate, EventPages!Closed
<1>4. CASE EventPages!OpenNew
  <2>1. tally'.writes = tally.writes /\ UNCHANGED <<event, detail, saves>>
    BY <1>4 DEF EventPages!OpenNew, EventPages!TypeOK, EventPages!Tallies
  <2> QED
    BY <1>1, <1>3, <1>4, <2>1 DEF EventPages!OpenNew
<1>5. CASE EventPages!OpenEdit
  <2>1. tally'.writes = tally.writes /\ UNCHANGED <<event, saves>> /\ detail'.data = detail.data
    BY <1>5 DEF EventPages!OpenEdit, EventPages!TypeOK, EventPages!Tallies, EventPages!Details
  <2>2. /\ sheet'.kind = "edit" /\ sheet'.seen = 0
        /\ detail.data.alive => sheet'.form.title = detail.data.title
    BY <1>5, EventSeedType DEF EventPages!OpenEdit, EventPages!TypeOK, EventPages!Details
  <2>3. UpToDate(sheet)'
    BY <1>0, <2>1, <2>2 DEF UpToDate
  <2> QED
    BY <1>1, <2>1, <2>2, <2>3
<1>6. CASE EventPages!Fetched
  <2>1. UNCHANGED <<event, tally, saves>> /\ detail'.data = event /\ event.alive
    BY <1>6 DEF EventPages!Fetched
  <2>2. CASE sheet.kind # "edit"
    BY <1>1, <1>6, <2>1, <2>2 DEF EventPages!Fetched
  <2>3. CASE sheet.kind = "edit"
    <3>1. /\ sheet'.kind = "edit" /\ sheet'.seen = tally.writes
          /\ sheet'.form = EventPages!Reseeded(detail.data, event, sheet.form)
      BY <1>6, <2>3 DEF EventPages!Fetched, EventPages!TypeOK, EventPages!Sheets
    <3>2. Left(sheet.form)' => sheet'.form.title = event.title
      BY <2>1, <2>3, <3>1, EventSeedType DEF EventPages!Reseeded, EventPages!TypeOK
    <3>3. UpToDate(sheet)'
      BY <1>0, <2>1, <3>1, <3>2 DEF UpToDate
    <3> QED
      BY <1>1, <2>1, <3>2, <3>3
  <2> QED
    BY <2>2, <2>3
<1>7. CASE EventPages!FetchFailed
  <2>1. UNCHANGED <<event, tally, saves>> /\ detail'.data = detail.data
    BY <1>7 DEF EventPages!FetchFailed, EventPages!TypeOK, EventPages!Details
  <2> QED
    BY <1>1, <1>3, <1>7, <2>1 DEF EventPages!FetchFailed
<1>8. CASE EventPages!TypeTitle
  <2>1. UNCHANGED <<event, saves, detail>> /\ tally'.writes = tally.writes
    BY <1>8 DEF EventPages!TypeTitle, EventPages!TypeOK, EventPages!Tallies
  <2>2. sheet'.form.titleTouched /\ UNCHANGED <<sheet.kind, sheet.seen>>
    BY <1>8 DEF EventPages!TypeTitle, EventPages!TypeOK, EventPages!Sheets, EventPages!Forms
  <2>3. UpToDate(sheet)'
    BY <2>1, <2>2 DEF UpToDate, Left
  <2> QED
    BY <1>1, <2>1, <2>2, <2>3 DEF Left
<1>9. CASE EventPages!TypeClock
  <2>0. UNCHANGED <<event, saves, detail, tally>>
    BY <1>9 DEF EventPages!TypeClock
  <2>a. PICK c \in Clocks : sheet' = [sheet EXCEPT !.form.clock = c, !.form.clockTouched = TRUE]
    BY <1>9 DEF EventPages!TypeClock
  <2>b. sheet.form = [title |-> sheet.form.title, clock |-> sheet.form.clock,
                      titleTouched |-> sheet.form.titleTouched, clockTouched |-> sheet.form.clockTouched]
    BY DEF EventPages!TypeOK, EventPages!Sheets, EventPages!Forms
  <2>c. sheet = [kind |-> sheet.kind, seen |-> sheet.seen, form |-> sheet.form]
    BY DEF EventPages!TypeOK, EventPages!Sheets
  <2>d. sheet'.form = [sheet.form EXCEPT !.clock = c, !.clockTouched = TRUE]
        /\ sheet'.kind = sheet.kind /\ sheet'.seen = sheet.seen
    BY <2>a, <2>c
  <2>1. UNCHANGED <<event, saves, detail, tally, sheet.kind, sheet.seen, sheet.form.title, sheet.form.titleTouched>>
    BY <2>0, <2>b, <2>d
  <2>2. UpToDate(sheet)'
    BY <2>1 DEF UpToDate, Left
  <2> QED
    BY <1>1, <2>1, <2>2 DEF Left
<1>10. CASE EventPages!Save
  <2>1. /\ UNCHANGED <<event, detail, sheet, tally>>
        /\ \A s \in saves' : s \in saves \/ s.sheet = sheet
    BY <1>10 DEF EventPages!Save
  <2>2. sheet.form.clock \in Int
    BY <1>10 DEF EventPages!Save, EventPages!canSubmit, EventPages!isFormDisabled, EventPages!TypeOK, EventPages!Sheets, EventPages!Forms
  <2> QED
    BY <1>1, <2>1, <2>2
<1>11. ASSUME NEW s \in saves, EventPages!SaveServed(s)
       PROVE  SeedInv'
  <2>1. /\ UNCHANGED <<detail, sheet>> /\ tally'.writes = tally.writes + 1
        /\ \A t \in saves' : \E u \in saves : t.sheet = u.sheet
    BY <1>11 DEF EventPages!SaveServed, EventPages!TypeOK, EventPages!Tallies, EventPages!Saves
  <2> QED
    BY <1>0, <1>2, <2>1
<1>12. ASSUME NEW s \in saves, EventPages!SaveFailed(s) \/ EventPages!SaveAnswered(s)
       PROVE  SeedInv'
  <2>1. UNCHANGED <<event, detail, tally>> /\ saves' \subseteq saves
    BY <1>12 DEF EventPages!SaveFailed, EventPages!SaveAnswered
  <2>2. sheet' = sheet \/ sheet' = EventPages!Closed
    BY <1>12 DEF EventPages!SaveFailed, EventPages!SaveAnswered
  <2> QED
    BY <1>1, <1>3, <2>1, <2>2
<1>13. CASE EventPages!Leave \/ EventPages!DeleteAnswered
  BY <1>1, <1>3, <1>13 DEF EventPages!Leave, EventPages!DeleteAnswered
<1>14. CASE EventPages!OpenDialog \/ EventPages!ConfirmDelete \/ EventPages!CancelDelete \/ EventPages!DeleteFailed
  BY <1>1, <1>14 DEF EventPages!OpenDialog, EventPages!ConfirmDelete, EventPages!CancelDelete, EventPages!DeleteFailed
<1>15. CASE EventPages!GoStale
  <2>1. UNCHANGED <<event, sheet, saves, tally>> /\ detail'.data = detail.data
    BY <1>15 DEF EventPages!GoStale, EventPages!TypeOK, EventPages!Details
  <2> QED
    BY <1>1, <2>1
<1>16. CASE EventPages!DeleteServed
  BY <1>1, <1>16 DEF EventPages!DeleteServed, EventPages!NoCopy
<1>17. CASE EventPages!OtherWrites
  <2>1. UNCHANGED <<detail, sheet, saves>> /\ tally'.writes = tally.writes + 1
    BY <1>17 DEF EventPages!OtherWrites, EventPages!TypeOK, EventPages!Tallies
  <2> QED
    BY <1>0, <1>2, <2>1
<1> QED
  BY <1>4, <1>5, <1>6, <1>7, <1>8, <1>9, <1>10, <1>11, <1>12, <1>13, <1>14, <1>15, <1>16, <1>17 DEF EventPages!Next

\* The inductive invariant of the event form.
THEOREM EditorInvariant == EventPages!Spec => []EditorInv
<1>0. EventPages!ClockAssumption
  BY AdminAssumption
<1>1. EventPages!Init => EditorInv
  BY <1>0, EditorInit
<1>2. EditorInv /\ [EventPages!Next]_EventPages!eventVars => EditorInv'
  <2>1. ASSUME EditorInv, EventPages!Next PROVE EditorInv'
    BY <1>0, <2>1, EditorTypeStep, SeedStep DEF EditorInv
  <2>2. ASSUME EditorInv, UNCHANGED EventPages!eventVars PROVE EditorInv'
    BY <2>2 DEF EditorInv, SeedInv, UpToDate, EventPages!TypeOK, EventPages!eventVars
  <2> QED
    BY <2>1, <2>2
<1> QED
  BY <1>1, <1>2, PTL DEF EventPages!Spec

\* A save puts back an older title only from a form that was stale when it was sent.
THEOREM RevertNeedsAStaleSeedHolds == Spec => RevertNeedsAStaleSeed
<1> DEFINE Kept == \A s \in saves :
             EventPages!SaveServed(s) /\ ~s.sheet.form.titleTouched /\ s.sheet.seen = tally.writes
             => event'.title = event.title
<1>1. EditorInv /\ [EventPages!Next]_EventPages!eventVars => [Kept]_EventPages!eventVars
  <2> SUFFICES ASSUME EditorInv, NEW s \in saves, EventPages!SaveServed(s), ~s.sheet.form.titleTouched,
                      s.sheet.seen = tally.writes
               PROVE  event'.title = event.title
    OBVIOUS
  <2>1. event'.title = s.sheet.form.title
    BY DEF EventPages!SaveServed
  <2>2. event.alive
    BY DEF EventPages!SaveServed, EditorInv, SeedInv, UpToDate, EventPages!TypeOK, EventPages!Tallies
  <2> QED
    BY <2>1, <2>2 DEF EditorInv, SeedInv, UpToDate, Left
<1> QED
  BY <1>1, PartsBehave, EditorInvariant, PTL DEF EventPages!Spec, RevertNeedsAStaleSeed, EventPages!RevertNeedsAStaleSeed

-----------------------------------------------------------------------------
(* The banner toggles *)

\* What an answer holds: the banners of its targets, each under its number.
LEMMA FoundType ==
    ASSUME Toggles!TogglesAssumption, Toggles!TypeOK, NEW k
    PROVE  /\ Toggles!Found(k) \in SUBSET Toggles!Items
           /\ \A x \in Toggles!Found(k) : x.id \in Toggles!Existing /\ x.target = banners[x.id].target
<1>1. \A i \in Toggles!Existing : i \in Toggles!Ids /\ banners[i] \in Toggles!Banners
  BY DEF Toggles!TypeOK, Toggles!Existing, Toggles!NoBanner, Toggles!Gone, Toggles!TogglesAssumption
<1>2. \A i \in Toggles!Existing : /\ Toggles!Item(i) \in Toggles!Items
                                  /\ Toggles!Item(i).id = i /\ Toggles!Item(i).target = banners[i].target
  BY <1>1 DEF Toggles!Item, Toggles!Items, Toggles!Banners, Toggles!Ids, Toggles!TogglesAssumption
<1> QED
  BY <1>2 DEF Toggles!Found

LEMMA LookupType ==
    ASSUME NEW q \in Toggles!Lookups, NEW b \in BOOLEAN, NEW items \in SUBSET Toggles!Items,
           NEW asked \in SUBSET SUBSET Toggles!Items
    PROVE  /\ q.items \in SUBSET Toggles!Items /\ q.loaded \in BOOLEAN /\ q.fresh \in BOOLEAN
           /\ q.asked \in SUBSET SUBSET Toggles!Items
           /\ [q EXCEPT !.asked = asked] \in Toggles!Lookups
           /\ [q EXCEPT !.asked = asked, !.fresh = b] \in Toggles!Lookups
           /\ [q EXCEPT !.items = items, !.loaded = TRUE, !.fresh = TRUE] \in Toggles!Lookups
BY DEF Toggles!Lookups

LEMMA ChangeType ==
    ASSUME Toggles!TogglesAssumption, Toggles!TypeOK, NEW n \in Toggles!UnderWay
    PROVE  /\ n \in 1..MaxChanges
           /\ changes[n] \in Toggles!Sendings \cup Toggles!Receipts
           /\ changes[n].status = "sent" => changes[n] \in Toggles!Sendings
           /\ changes[n].status = "served" => changes[n] \in Toggles!Receipts
           /\ changes[n].status \in {"sent", "served"}
           /\ changes[n].kind \in {"create", "update"}
           /\ changes[n].target \in Targets /\ changes[n].from \in Toggles!Keys
           /\ changes[n].key \in Toggles!Keys \cup {<< >>}
           /\ changes[n].alone \in BOOLEAN /\ changes[n].had \in BOOLEAN
           /\ changes[n].previous \in SUBSET Toggles!Items
BY DEF Toggles!TypeOK, Toggles!UnderWay, Toggles!Sendings, Toggles!Receipts

Notes == [used : 0..MaxChanges, moves : 0..MaxMoves, doubted : SUBSET Toggles!Keys]

LEMMA NotesType ==
    ASSUME Toggles!TogglesAssumption, NEW q \in Notes, NEW D \in SUBSET Toggles!Keys
    PROVE  /\ [q EXCEPT !.doubted = D] \in Notes
           /\ q.moves < MaxMoves => /\ [q EXCEPT !.moves = @ + 1] \in Notes
                                    /\ [q EXCEPT !.doubted = D, !.moves = @ + 1] \in Notes
           /\ q.used < MaxChanges => [q EXCEPT !.used = @ + 1, !.doubted = D] \in Notes
<1>1. /\ q.moves \in 0..MaxMoves /\ q.used \in 0..MaxChanges
      /\ q.moves < MaxMoves => q.moves + 1 \in 0..MaxMoves
      /\ q.used < MaxChanges => q.used + 1 \in 0..MaxChanges
  BY DEF Notes, Toggles!TogglesAssumption
<1> QED
  BY <1>1 DEF Notes

Changes == {Toggles!NoChange} \cup Toggles!Sendings \cup Toggles!Receipts

LEMMA ChangesMoved ==
    ASSUME Toggles!TypeOK, NEW n \in 1..MaxChanges, NEW ids \in Pages, n \in Toggles!Here
    PROVE  [changes[n] EXCEPT !.key = ids] \in Changes /\ [changes[n] EXCEPT !.here = FALSE] \in Changes
<1>1. ids \in Toggles!Keys \cup {<< >>}
  BY DEF Toggles!Keys
<1>2. changes[n] \in Toggles!Sendings =>
        /\ [changes[n] EXCEPT !.key = ids] \in Toggles!Sendings
        /\ [changes[n] EXCEPT !.here = FALSE] \in Toggles!Sendings
  BY <1>1 DEF Toggles!Sendings
<1>3. changes[n] \in Toggles!Receipts =>
        /\ [changes[n] EXCEPT !.key = ids] \in Toggles!Receipts
        /\ [changes[n] EXCEPT !.here = FALSE] \in Toggles!Receipts
  BY <1>1 DEF Toggles!Receipts
<1> QED
  BY <1>2, <1>3 DEF Changes, Toggles!TypeOK, Toggles!Here, Toggles!UnderWay

LEMMA DisturbedType ==
    ASSUME Toggles!TypeOK, NEW t, NEW n \in 1..MaxChanges
    PROVE  Toggles!Disturbed(t)[n] \in Changes
<1>1. changes[n] \in Toggles!Sendings =>
        /\ \A b \in BOOLEAN : [changes[n] EXCEPT !.alone = FALSE, !.sure = b] \in Toggles!Sendings
        /\ (changes[n].sure /\ changes[n].target # t) \in BOOLEAN /\ changes[n].status = "sent"
  BY DEF Toggles!Sendings
<1>2. changes[n] \in Toggles!Receipts =>
        [changes[n] EXCEPT !.alone = FALSE] \in Toggles!Receipts /\ changes[n].status = "served"
  BY DEF Toggles!Receipts
<1> QED
  BY <1>1, <1>2 DEF Changes, Toggles!Disturbed, Toggles!UnderWay, Toggles!TypeOK

LEMMA CreatedType ==
    ASSUME Toggles!TypeOK, NEW i \in Toggles!Ids, NEW t \in Targets, Toggles!Created(i, t)
    PROVE  /\ banners' \in [Toggles!Ids -> Toggles!Banners \cup {Toggles!NoBanner, Toggles!Gone}]
           /\ banners'[i] \in Toggles!Banners
<1>1. [target |-> t, enabled |-> TRUE, pinned |-> FALSE] \in Toggles!Banners
  BY DEF Toggles!Banners
<1> QED
  BY <1>1 DEF Toggles!TypeOK, Toggles!Created

LEMMA ShowsType ==
    ASSUME Toggles!TogglesAssumption, Toggles!TypeOK, NEW kind, NEW ids, Toggles!Shows(kind, ids)
    PROVE  /\ lookups' \in [Toggles!Keys -> Toggles!Lookups]
           /\ notes' \in Notes
           /\ view' = [kind |-> kind, ids |-> ids] /\ banners' = banners
<1> USE DEF Toggles!TypeOK, Toggles!TogglesAssumption
<1>1. lookups' \in [Toggles!Keys -> Toggles!Lookups]
  <2>1. CASE Toggles!Idle(ids) /\ lookups' = Toggles!Asking(ids)
    <3>1. ids \in Toggles!Keys /\ lookups[ids] \in Toggles!Lookups
      BY <2>1 DEF Toggles!Idle
    <3>2. {Toggles!Found(ids)} \in SUBSET SUBSET Toggles!Items
      BY FoundType
    <3>3. [lookups[ids] EXCEPT !.asked = {Toggles!Found(ids)}, !.fresh = FALSE] \in Toggles!Lookups
      BY <3>1, <3>2, LookupType
    <3> QED
      BY <2>1, <3>1, <3>3 DEF Toggles!Asking
  <2>2. CASE UNCHANGED lookups
    BY <2>2
  <2> QED
    BY <2>1, <2>2 DEF Toggles!Shows
<1>2. notes \in Notes /\ notes.doubted \ {ids} \in SUBSET Toggles!Keys
  BY DEF Notes
<1>3. notes' \in Notes
  <2>1. notes.moves < MaxMoves
    BY DEF Toggles!Shows
  <2>2. /\ [notes EXCEPT !.moves = @ + 1] \in Notes
        /\ [notes EXCEPT !.doubted = notes.doubted \ {ids}, !.moves = @ + 1] \in Notes
    BY <1>2, <2>1, NotesType
  <2> QED
    BY <2>2 DEF Toggles!Shows
<1> QED
  BY <1>1, <1>3 DEF Toggles!Shows

LEMMA MutateType ==
    ASSUME Toggles!TogglesAssumption, Toggles!TypeOK, NEW t \in Targets, NEW kind \in {"create", "update"},
           NEW id \in 0..MaxBanners, NEW field \in {"enabled", "pinned"}, NEW on \in BOOLEAN,
           NEW items \in SUBSET Toggles!Items, Toggles!Key \in Toggles!Keys,
           Toggles!Mutate(t, kind, id, field, on, items)
    PROVE  Toggles!TypeOK'
<1> USE DEF Toggles!TypeOK
<1>1. Toggles!Lookup \in Toggles!Lookups
  BY DEF Toggles!Lookup
<1>2. Toggles!Lookup.loaded \in BOOLEAN /\ Toggles!Lookup.items \in SUBSET Toggles!Items
  BY <1>1, LookupType
<1>3. \A k \in Toggles!Keys : /\ Toggles!Put(k, items) \in Toggles!Lookups
                              /\ [lookups[k] EXCEPT !.asked = {}] \in Toggles!Lookups
  BY LookupType DEF Toggles!Put
<1>4. lookups' \in [Toggles!Keys -> Toggles!Lookups]
  BY <1>3 DEF Toggles!Mutate
<1>5. \A a, b \in BOOLEAN :
        [status |-> "sent", kind |-> kind, target |-> t, id |-> id, field |-> field, on |-> on,
         from |-> Toggles!Key, key |-> Toggles!Key, here |-> TRUE, sure |-> a, alone |-> b,
         had |-> Toggles!Lookup.loaded, previous |-> Toggles!Lookup.items] \in Toggles!Sendings
  BY <1>2 DEF Toggles!Sendings
<1>6. changes' \in [1..MaxChanges -> Changes]
  BY <1>5, DisturbedType DEF Toggles!Mutate, Toggles!Disturbed, Changes
<1>7. notes' \in Notes
  <2>1. notes \in Notes /\ notes.doubted \cup Toggles!Stopped \in SUBSET Toggles!Keys /\ notes.used < MaxChanges
    BY DEF Notes, Toggles!Stopped, Toggles!Mutate, Toggles!MayChange
  <2> QED
    BY <2>1, NotesType DEF Toggles!Mutate
<1> QED
  BY <1>4, <1>6, <1>7 DEF Toggles!Mutate, Notes, Changes

LEMMA TogglesTypeStep ==
    ASSUME Toggles!TogglesAssumption, Toggles!TypeOK, Toggles!Next
    PROVE  Toggles!TypeOK'
<1> USE DEF Toggles!TypeOK
<1>0. notes \in Notes /\ changes \in [1..MaxChanges -> Changes]
  BY DEF Notes, Changes
<1>1. \A k \in Toggles!Keys : {Toggles!Found(k)} \in SUBSET SUBSET Toggles!Items
  BY FoundType
<1>2. CASE Toggles!Ask
  <2>1. notes.doubted \ {Toggles!Key} \in SUBSET Toggles!Keys
    OBVIOUS
  <2>2. notes' \in Notes
    BY <1>0, <1>2, <2>1, NotesType DEF Toggles!Ask, Toggles!Trusting
  <2>3. lookups' \in [Toggles!Keys -> Toggles!Lookups]
    BY <1>1, <1>2, LookupType DEF Toggles!Ask, Toggles!Asking, Toggles!Idle
  <2> QED
    BY <1>2, <2>2, <2>3 DEF Toggles!Ask, Notes
<1>3. ASSUME NEW k \in Toggles!Keys, Toggles!Reads(k) PROVE Toggles!TypeOK'
  <2>1. notes.doubted \ {k} \in SUBSET Toggles!Keys
    OBVIOUS
  <2>2. notes' \in Notes
    BY <1>0, <1>3, <2>1, NotesType DEF Toggles!Reads, Toggles!Trusting
  <2>3. lookups' \in [Toggles!Keys -> Toggles!Lookups]
    BY <1>1, <1>3, LookupType DEF Toggles!Reads
  <2> QED
    BY <1>3, <2>2, <2>3 DEF Toggles!Reads, Notes
<1>4. ASSUME NEW k \in Toggles!Keys, Toggles!Answered(k) PROVE Toggles!TypeOK'
  <2>1. \A items \in lookups[k].asked :
          [items |-> items, loaded |-> TRUE, fresh |-> TRUE, asked |-> {}] \in Toggles!Lookups
    BY LookupType DEF Toggles!Lookups
  <2> QED
    BY <1>4, <2>1 DEF Toggles!Answered
<1>5. ASSUME NEW k \in Toggles!Keys, Toggles!AskFailed(k) PROVE Toggles!TypeOK'
  <2>1. notes.doubted \cup ({k} \cap Toggles!Keys) \in SUBSET Toggles!Keys
    OBVIOUS
  <2>2. notes' \in Notes
    BY <1>0, <1>5, <2>1, NotesType DEF Toggles!AskFailed, Toggles!Doubting
  <2>3. lookups' \in [Toggles!Keys -> Toggles!Lookups]
    BY <1>5, LookupType DEF Toggles!AskFailed
  <2> QED
    BY <1>5, <2>2, <2>3 DEF Toggles!AskFailed, Notes
<1>6. ASSUME NEW ids \in Pages, Toggles!Turn(ids) PROVE Toggles!TypeOK'
  <2>1. changes' \in [1..MaxChanges -> Changes]
    BY <1>0, <1>6, ChangesMoved DEF Toggles!Turn
  <2> QED
    BY <1>6, <2>1, ShowsType DEF Toggles!Turn, Notes, Changes
<1>7. ASSUME NEW kind, NEW ids, Toggles!Open(kind, ids)
      PROVE  /\ changes' \in [1..MaxChanges -> Changes] /\ lookups' \in [Toggles!Keys -> Toggles!Lookups]
             /\ notes' \in Notes /\ view' = [kind |-> kind, ids |-> ids] /\ banners' = banners
  <2>1. \A n \in Toggles!Here : [changes[n] EXCEPT !.here = FALSE] \in Changes
    <3>1. \A n \in Toggles!Here : changes[n] \in Toggles!Sendings =>
            [changes[n] EXCEPT !.here = FALSE] \in Toggles!Sendings
      BY DEF Toggles!Sendings
    <3>2. \A n \in Toggles!Here : changes[n] \in Toggles!Receipts =>
            [changes[n] EXCEPT !.here = FALSE] \in Toggles!Receipts
      BY DEF Toggles!Receipts
    <3> QED
      BY <3>1, <3>2 DEF Changes, Toggles!Here, Toggles!UnderWay
  <2>2. changes' \in [1..MaxChanges -> Changes]
    BY <1>0, <1>7, <2>1 DEF Toggles!Open
  <2> QED
    BY <1>7, <2>2, ShowsType DEF Toggles!Open
<1>8. \A t \in Toggles!On(Toggles!Key) : t \in Targets /\ Toggles!Key \in Toggles!Keys
  <2>1. \A f \in Toggles!Forms : Toggles!On(f) \subseteq Targets
    BY DEF Toggles!Forms, Toggles!On, Toggles!TogglesAssumption
  <2>2. \A p \in Pages : Toggles!On(p) \subseteq Targets
    BY DEF Toggles!On, Toggles!TogglesAssumption
  <2>3. Toggles!On(<< >>) = {}
    BY DEF Toggles!On
  <2> QED
    BY <2>1, <2>2, <2>3 DEF Toggles!Key, Toggles!Keys
<1>9. ASSUME NEW t \in Toggles!On(Toggles!Key), Toggles!TurnOn(t) PROVE Toggles!TypeOK'
  <2>1. Toggles!Lookup.items \cup {Toggles!Optimistic(t)} \in SUBSET Toggles!Items
    <3>1. Toggles!Optimistic(t) \in Toggles!Items
      BY <1>8 DEF Toggles!Optimistic, Toggles!Items, Toggles!TogglesAssumption
    <3> QED
      BY <1>8, <3>1, LookupType DEF Toggles!Lookup
  <2>2. 0 \in 0..MaxBanners
    BY DEF Toggles!TogglesAssumption
  <2> QED
    BY <1>8, <1>9, <2>1, <2>2, MutateType DEF Toggles!TurnOn
<1>10. ASSUME NEW t \in Toggles!On(Toggles!Key), NEW x \in Toggles!heroById(t), NEW field \in {"enabled", "pinned"},
              Toggles!Switch(x, field)
       PROVE  Toggles!TypeOK'
  <2>1. Toggles!Lookup.items \in SUBSET Toggles!Items
    BY <1>8, LookupType DEF Toggles!Lookup
  <2>2. x \in Toggles!Items
    BY <2>1 DEF Toggles!heroById, Toggles!Of
  <2> DEFINE on == IF field = "enabled" THEN ~x.enabled ELSE ~x.pinned
  <2>3. on \in BOOLEAN /\ x.target \in Targets /\ x.id \in 0..MaxBanners
    BY <2>2 DEF Toggles!Items
  <2>4. Toggles!Set(x, field, on) \in Toggles!Items
    BY <2>2, <2>3 DEF Toggles!Set, Toggles!Items
  <2>5. (Toggles!Lookup.items \ {x}) \cup {Toggles!Set(x, field, on)} \in SUBSET Toggles!Items
    BY <2>1, <2>4
  <2>6. Toggles!Mutate(x.target, "update", x.id, field, on, (Toggles!Lookup.items \ {x}) \cup {Toggles!Set(x, field, on)})
    BY <1>10 DEF Toggles!Switch
  <2> HIDE DEF on
  <2> QED
    BY <1>8, <2>3, <2>5, <2>6, MutateType
<1>11. ASSUME NEW n \in Toggles!UnderWay, Toggles!Served(n) PROVE Toggles!TypeOK'
  <2>1. PICK i \in Toggles!Ids :
          /\ \/ changes[n].kind = "create" /\ Toggles!Created(i, changes[n].target)
             \/ /\ changes[n].kind = "update" /\ i = changes[n].id /\ i \in Toggles!Existing
                /\ banners' = [banners EXCEPT ![i] = Toggles!Set(@, changes[n].field, changes[n].on)]
          /\ changes' = [changes EXCEPT ![n] = Toggles!Receipt(@, i)]
    BY <1>11 DEF Toggles!Served
  <2>2. changes[n] \in Toggles!Sendings
    BY <1>11, ChangeType DEF Toggles!Served
  <2>3. banners' \in [Toggles!Ids -> Toggles!Banners \cup {Toggles!NoBanner, Toggles!Gone}] /\ banners'[i] \in Toggles!Banners
    <3>1. CASE Toggles!Created(i, changes[n].target)
      BY <2>2, <3>1, CreatedType, ChangeType
    <3>2. CASE /\ i \in Toggles!Existing
               /\ banners' = [banners EXCEPT ![i] = Toggles!Set(@, changes[n].field, changes[n].on)]
      <4>1. banners[i] \in Toggles!Banners
        BY <3>2 DEF Toggles!Existing, Toggles!NoBanner, Toggles!Gone, Toggles!TogglesAssumption
      <4>2. changes[n].on \in BOOLEAN
        BY <2>2 DEF Toggles!Sendings
      <4>3. Toggles!Set(banners[i], changes[n].field, changes[n].on) \in Toggles!Banners
        BY <4>1, <4>2 DEF Toggles!Set, Toggles!Banners
      <4> QED
        BY <3>2, <4>3
    <3> QED
      BY <2>1, <3>1, <3>2
  <2>4. Toggles!Receipt(changes[n], i) \in Toggles!Receipts
    BY <2>2, <2>3 DEF Toggles!Receipt, Toggles!Receipts, Toggles!Sendings
  <2>5. changes' \in [1..MaxChanges -> Changes]
    BY <1>0, <2>1, <2>4 DEF Changes
  <2> QED
    BY <1>11, <2>3, <2>5 DEF Toggles!Served, Changes
<1>12. ASSUME NEW n \in Toggles!UnderWay, Toggles!Succeeded(n) PROVE Toggles!TypeOK'
  <2>1. changes[n] \in Toggles!Receipts /\ changes[n].id \in Toggles!Ids /\ changes[n].row \in Toggles!Banners
    BY <1>12, ChangeType DEF Toggles!Succeeded, Toggles!Receipts
  <2>2. Toggles!AnswerItem(changes[n]) \in Toggles!Items
    BY <2>1 DEF Toggles!AnswerItem, Toggles!Items, Toggles!Banners, Toggles!Ids, Toggles!TogglesAssumption
  <2>3. \A k \in Toggles!Keys : k = changes[n].key => Toggles!Confirmed(changes[n]) \in SUBSET Toggles!Items
    <3> SUFFICES ASSUME NEW k \in Toggles!Keys, k = changes[n].key, NEW x \in lookups[k].items
                 PROVE  (IF Toggles!Replaced(changes[n], x) THEN Toggles!AnswerItem(changes[n]) ELSE x) \in Toggles!Items
      BY DEF Toggles!Confirmed
    <3>1. lookups[k] \in Toggles!Lookups
      OBVIOUS
    <3>2. x \in Toggles!Items
      BY <3>1 DEF Toggles!Lookups
    <3> QED
      BY <2>2, <3>2
  <2>4. \A k \in Toggles!Keys : \A a, b \in BOOLEAN :
          [items |-> IF k = changes[n].key THEN Toggles!Confirmed(changes[n]) ELSE lookups[k].items,
           loaded |-> lookups[k].loaded \/ a, fresh |-> FALSE,
           asked |-> IF b THEN {Toggles!Found(k)} ELSE lookups[k].asked] \in Toggles!Lookups
    BY <1>1, <2>3, LookupType DEF Toggles!Lookups
  <2>5. lookups' \in [Toggles!Keys -> Toggles!Lookups]
    BY <1>12, <2>4 DEF Toggles!Succeeded
  <2>6. notes' \in Notes
    <3>1. \A b : (IF b THEN notes.doubted \ {Toggles!Key} ELSE notes.doubted)
                 \cup {k \in Toggles!Keys : Toggles!GoesOn(changes[n], k)} \in SUBSET Toggles!Keys
      OBVIOUS
    <3> QED
      BY <1>0, <1>12, <3>1, NotesType DEF Toggles!Succeeded
  <2> QED
    BY <1>12, <2>5, <2>6 DEF Toggles!Succeeded, Notes
<1>13. ASSUME NEW n \in Toggles!UnderWay, Toggles!Failed(n) PROVE Toggles!TypeOK'
  <2>1. \A k \in Toggles!Keys : /\ changes[n].previous \in SUBSET Toggles!Items
                                /\ {x \in lookups[k].items : x.target # changes[n].target} \in SUBSET Toggles!Items
    BY ChangeType, LookupType
  <2>2. \A k \in Toggles!Keys : \A items \in SUBSET Toggles!Items : Toggles!Put(k, items) \in Toggles!Lookups
    BY LookupType DEF Toggles!Put
  <2>3. lookups' \in [Toggles!Keys -> Toggles!Lookups]
    BY <1>13, <2>1, <2>2 DEF Toggles!Failed
  <2>4. notes' \in Notes
    <3>1. \A ks : notes.doubted \cup (ks \cap Toggles!Keys) \in SUBSET Toggles!Keys
      OBVIOUS
    <3> QED
      BY <1>0, <1>13, <3>1, NotesType DEF Toggles!Failed, Toggles!Doubting
  <2> QED
    BY <1>13, <2>3, <2>4 DEF Toggles!Failed, Notes
<1>14. ASSUME NEW t, Toggles!Elsewhere(t)
       PROVE  notes' \in Notes /\ changes' \in [1..MaxChanges -> Changes] /\ UNCHANGED <<lookups, view>>
  <2>1. notes.doubted \cup Toggles!KeysOf(t) \in SUBSET Toggles!Keys
    BY DEF Toggles!KeysOf
  <2>2. notes' \in Notes
    BY <1>0, <1>14, <2>1, NotesType DEF Toggles!Elsewhere, Toggles!MayChange
  <2>3. changes' \in [1..MaxChanges -> Changes]
    BY <1>14, DisturbedType DEF Toggles!Elsewhere, Toggles!Disturbed
  <2> QED
    BY <1>14, <2>2, <2>3 DEF Toggles!Elsewhere
<1>15. ASSUME NEW t \in Targets, Toggles!OthersCreate(t) PROVE Toggles!TypeOK'
  BY <1>14, <1>15, CreatedType DEF Toggles!OthersCreate, Notes, Changes
<1>16. ASSUME NEW i \in Toggles!Ids, Toggles!OthersWrite(i) PROVE Toggles!TypeOK'
  <2>1. banners[i] \in Toggles!Banners
    BY <1>16 DEF Toggles!OthersWrite, Toggles!Existing, Toggles!NoBanner, Toggles!Gone, Toggles!TogglesAssumption
  <2>2. \A p \in BOOLEAN : [banners[i] EXCEPT !.enabled = ~@, !.pinned = p] \in Toggles!Banners
    BY <2>1 DEF Toggles!Banners
  <2>3. banners' \in [Toggles!Ids -> Toggles!Banners \cup {Toggles!NoBanner, Toggles!Gone}]
    BY <1>16, <2>2 DEF Toggles!OthersWrite
  <2> QED
    BY <1>14, <1>16, <2>3 DEF Toggles!OthersWrite, Notes, Changes
<1>17. ASSUME NEW ids \in Pages, Toggles!Open("list", ids) PROVE Toggles!TypeOK'
  BY <1>7, <1>17 DEF Notes, Changes
<1>18. ASSUME NEW ids \in Toggles!Forms, Toggles!Open("form", ids) PROVE Toggles!TypeOK'
  BY <1>7, <1>18 DEF Notes, Changes
<1> QED
  BY <1>2, <1>3, <1>4, <1>5, <1>6, <1>17, <1>18, <1>9, <1>10, <1>11, <1>12, <1>13, <1>15, <1>16 DEF Toggles!Next

\* A number once given out stays its banner's, which may be gone.
Numbered(i, t) == i \in Toggles!Ids /\ banners[i] # Toggles!NoBanner /\ banners[i].target \in {"gone", t}
KnownItem(x)   == x.id > 0 => Numbered(x.id, x.target)

\* A change of t may have reached the server, or shows in the lookup of k.
OnServer(t)   == \E n \in Toggles!UnderWay : changes[n].status = "served" /\ changes[n].target = t
Touched(k, t) == \E n \in Toggles!UnderWay :
                   changes[n].target = t /\ (changes[n].status = "served" \/ changes[n].from = k)

\* The items have what the server has of t.
TrueOf(k, t, items) == Toggles!Of(t, items) = Toggles!Of(t, Toggles!Found(k))

\* A lookup that is beyond doubt is true of every target that no change is at work on, and
\* so is what it is about to be answered.
Sound(k) ==
  k \notin notes.doubted => \A t \in Toggles!On(k) :
    /\ ~OnServer(t) => \A s \in lookups[k].asked : TrueOf(k, t, s)
    /\ lookups[k].asked = {} /\ (lookups[k].fresh \/ k = Toggles!Key) /\ ~Touched(k, t)
         => TrueOf(k, t, lookups[k].items)

LookupInv(k) ==
  /\ \A x \in lookups[k].items : KnownItem(x)
  /\ \A s \in lookups[k].asked : \A x \in s : KnownItem(x)
  /\ ~lookups[k].loaded => lookups[k].items = {}
  /\ Sound(k)

\* While a change is alone, nothing it may be rolled back to has become untrue.
Restorable(n) ==
  changes[n].status = "sent" /\ changes[n].alone => \A t \in Toggles!On(changes[n].from) :
    /\ TrueOf(changes[n].from, t, changes[n].previous)
    /\ t # changes[n].target => TrueOf(changes[n].from, t, lookups[changes[n].from].items)
    /\ \A s \in lookups[changes[n].from].asked : TrueOf(changes[n].from, t, s)

\* A change that is sure is the only one of its target, and one that creates is of a target
\* without a banner.
ChangeInv(n) ==
  /\ n <= notes.used
  /\ \A x \in changes[n].previous : KnownItem(x)
  /\ ~changes[n].had => changes[n].previous = {}
  /\ changes[n].target \in Toggles!On(changes[n].from)
  /\ changes[n].alone => Toggles!UnderWay = {n}
  /\ changes[n].status = "sent" /\ changes[n].sure =>
       /\ \A m \in Toggles!UnderWay \ {n} : changes[m].target # changes[n].target
       /\ changes[n].kind = "create" => Toggles!BannersOf(changes[n].target) = {}
  /\ changes[n].status = "sent" /\ changes[n].kind = "update" => Numbered(changes[n].id, changes[n].target)
  /\ changes[n].status = "served" =>
       changes[n].row.target = changes[n].target /\ Numbered(changes[n].id, changes[n].target)

HeroInv ==
  /\ \A k \in Toggles!Keys : LookupInv(k)
  /\ \A n \in Toggles!UnderWay : ChangeInv(n) /\ Restorable(n)

TogglesInv == Toggles!TypeOK /\ HeroInv

LEMMA TogglesInit == ASSUME Toggles!TogglesAssumption, Toggles!Init PROVE TogglesInv
<1> USE DEF Toggles!Init, Toggles!TogglesAssumption
<1>1. \A k \in Toggles!Keys : [items |-> {}, loaded |-> FALSE, fresh |-> FALSE, asked |-> {}] \in Toggles!Lookups
  BY DEF Toggles!Lookups
<1>2. Toggles!TypeOK
  BY <1>1 DEF Toggles!TypeOK
<1>3. Toggles!UnderWay = {} /\ Toggles!Existing = {}
  BY DEF Toggles!UnderWay, Toggles!Existing, Toggles!NoBanner
<1>4. \A k \in Toggles!Keys : LookupInv(k)
  BY <1>3 DEF LookupInv, Sound, TrueOf, Toggles!Of, Toggles!Found
<1> QED
  BY <1>2, <1>3, <1>4 DEF TogglesInv, HeroInv

\* What becomes of a change while others are at work: it may lose its history's promises.
Follows(c, d) ==
  /\ d.status = c.status /\ d.kind = c.kind /\ d.target = c.target /\ d.from = c.from /\ d.id = c.id
  /\ d.had = c.had /\ d.previous = c.previous /\ (d.alone => c.alone)
  /\ c.status = "sent" => (d.sure => c.sure)
  /\ c.status = "served" => d.row = c.row

LEMMA Followed ==
    ASSUME Toggles!TogglesAssumption, Toggles!TypeOK, NEW n \in Toggles!UnderWay, NEW ids, NEW t
    PROVE  /\ Follows(changes[n], changes[n])
           /\ Follows(changes[n], [changes[n] EXCEPT !.key = ids])
           /\ Follows(changes[n], [changes[n] EXCEPT !.here = FALSE])
           /\ Follows(changes[n], Toggles!Disturbed(t)[n])
           /\ ~Toggles!Disturbed(t)[n].alone
           /\ changes[n].status = "sent" /\ Toggles!Disturbed(t)[n].sure => changes[n].target # t
<1>1. n \in 1..MaxChanges /\ (changes[n] \in Toggles!Sendings \/ changes[n] \in Toggles!Receipts)
  BY ChangeType
<1>2. Toggles!Disturbed(t)[n] = IF changes[n].status = "served" THEN [changes[n] EXCEPT !.alone = FALSE]
                                ELSE [changes[n] EXCEPT !.alone = FALSE, !.sure = @ /\ changes[n].target # t]
  BY <1>1 DEF Toggles!Disturbed
<1>3. CASE changes[n] \in Toggles!Sendings
  <2>1. changes[n].sure \in BOOLEAN /\ changes[n].alone \in BOOLEAN /\ changes[n].status = "sent"
    BY <1>3 DEF Toggles!Sendings
  <2> QED
    BY <1>2, <1>3, <2>1 DEF Follows, Toggles!Sendings
<1>4. CASE changes[n] \in Toggles!Receipts
  <2>1. changes[n].alone \in BOOLEAN /\ changes[n].status = "served"
    BY <1>4 DEF Toggles!Receipts
  <2> QED
    BY <1>2, <1>4, <2>1 DEF Follows, Toggles!Receipts
<1> QED
  BY <1>1, <1>3, <1>4

\* No change begins or ends.
Going == \A n \in 1..MaxChanges :
           IF n \in Toggles!UnderWay THEN Follows(changes[n], changes'[n]) ELSE changes'[n] = Toggles!NoChange

LEMMA HandsSame ==
    ASSUME Toggles!TogglesAssumption, Toggles!TypeOK, Going
    PROVE  /\ Toggles!UnderWay' = Toggles!UnderWay
           /\ \A t : OnServer(t)' <=> OnServer(t)
           /\ \A k, t : Touched(k, t)' <=> Touched(k, t)
<1>1. \A n \in 1..MaxChanges : n \in Toggles!UnderWay <=> changes'[n] # Toggles!NoChange
  BY ChangeType DEF Going, Follows, Toggles!NoChange
<1>2. Toggles!UnderWay' = Toggles!UnderWay /\ Toggles!UnderWay \subseteq 1..MaxChanges
  BY <1>1 DEF Toggles!UnderWay
<1>3. \A n \in Toggles!UnderWay : /\ changes'[n].status = changes[n].status /\ changes'[n].target = changes[n].target
                                  /\ changes'[n].from = changes[n].from
  BY <1>2 DEF Going, Follows
<1> QED
  BY <1>2, <1>3 DEF OnServer, Touched

\* A lookup is asked for, read, answered, given up or shown.
Fetched(k) ==
  /\ lookups'[k].items = lookups[k].items \/ lookups'[k].items \in lookups[k].asked
  /\ ~lookups'[k].loaded => ~lookups[k].loaded /\ lookups'[k].items = lookups[k].items
  /\ lookups'[k].asked \subseteq lookups[k].asked \cup {Toggles!Found(k)}
  /\ k \notin notes'.doubted => k \notin notes.doubted \/ lookups'[k].asked = {Toggles!Found(k)}
  /\ k \notin notes'.doubted /\ lookups'[k].asked = {} /\ (lookups'[k].fresh \/ k = Toggles!Key')
       => \/ lookups'[k].items \in lookups[k].asked
          \/ /\ lookups'[k].items = lookups[k].items /\ lookups[k].asked = {}
             /\ lookups[k].fresh \/ k = Toggles!Key

LEMMA FoundKnown ==
    ASSUME Toggles!TogglesAssumption, Toggles!TypeOK, NEW k, NEW x \in Toggles!Found(k)
    PROVE  KnownItem(x)
BY FoundType DEF KnownItem, Numbered, Toggles!Existing, Toggles!NoBanner, Toggles!TogglesAssumption

LEMMA SameBanners ==
    ASSUME banners' = banners
    PROVE  /\ \A k : Toggles!Found(k)' = Toggles!Found(k)
           /\ \A t : Toggles!BannersOf(t)' = Toggles!BannersOf(t)
           /\ \A x : KnownItem(x)' <=> KnownItem(x)
           /\ \A i, t : Numbered(i, t)' <=> Numbered(i, t)
BY DEF Toggles!Found, Toggles!Item, Toggles!BannersOf, Toggles!Existing, KnownItem, Numbered

\* A change that follows its course keeps its promises, if the banners have not changed.
LEMMA ChangeFollows ==
    ASSUME Toggles!TogglesAssumption, Toggles!TypeOK, Going, banners' = banners,
           notes'.used >= notes.used, notes'.used \in Nat, NEW n \in Toggles!UnderWay, ChangeInv(n)
    PROVE  ChangeInv(n)'
<1>1. n \in 1..MaxChanges /\ changes[n].status \in {"sent", "served"} /\ notes.used \in Nat
  BY ChangeType DEF Toggles!TypeOK
<1>2. Follows(changes[n], changes'[n]) /\ \A m \in Toggles!UnderWay : changes'[m].target = changes[m].target
  BY <1>1 DEF Going, Follows, Toggles!UnderWay
<1>3. n <= notes'.used
  BY <1>1 DEF ChangeInv
<1> QED
  BY <1>1, <1>2, <1>3, HandsSame, SameBanners DEF ChangeInv, Follows

LEMMA FetchStep ==
    ASSUME Toggles!TogglesAssumption, TogglesInv, Going, banners' = banners, notes'.used = notes.used,
           \A k \in Toggles!Keys : Fetched(k)
    PROVE  HeroInv'
<1> USE DEF TogglesInv, HeroInv
<1>1. /\ Toggles!UnderWay' = Toggles!UnderWay
      /\ \A t : OnServer(t)' <=> OnServer(t)
      /\ \A k, t : Touched(k, t)' <=> Touched(k, t)
      /\ \A k : Toggles!Found(k)' = Toggles!Found(k)
      /\ \A x : KnownItem(x)' <=> KnownItem(x)
  BY HandsSame, SameBanners
<1>2. ASSUME NEW k \in Toggles!Keys PROVE LookupInv(k)'
  <2>1. LookupInv(k) /\ Fetched(k)
    OBVIOUS
  <2>2. \A x \in lookups'[k].items : KnownItem(x)'
    BY <1>1, <2>1 DEF LookupInv, Fetched
  <2>3. \A s \in lookups'[k].asked : \A x \in s : KnownItem(x)'
    BY <1>1, <2>1, FoundKnown DEF LookupInv, Fetched
  <2>4. ~lookups'[k].loaded => lookups'[k].items = {}
    BY <2>1 DEF LookupInv, Fetched
  <2>5. Sound(k)'
    <3> SUFFICES ASSUME k \notin notes'.doubted, NEW t \in Toggles!On(k)
                 PROVE  /\ ~OnServer(t) => \A s \in lookups'[k].asked :
                             Toggles!Of(t, s) = Toggles!Of(t, Toggles!Found(k))
                        /\ lookups'[k].asked = {} /\ (lookups'[k].fresh \/ k = Toggles!Key') /\ ~Touched(k, t)
                             => Toggles!Of(t, lookups'[k].items) = Toggles!Of(t, Toggles!Found(k))
      BY <1>1 DEF Sound, TrueOf, Toggles!Of
    <3>1. ASSUME k \notin notes.doubted, ~OnServer(t), NEW s \in lookups[k].asked
          PROVE  Toggles!Of(t, s) = Toggles!Of(t, Toggles!Found(k))
      BY <2>1, <3>1 DEF LookupInv, Sound, TrueOf
    <3>2. ~OnServer(t) => \A s \in lookups'[k].asked : Toggles!Of(t, s) = Toggles!Of(t, Toggles!Found(k))
      BY <2>1, <3>1 DEF Fetched
    <3>3. ASSUME lookups'[k].asked = {}, lookups'[k].fresh \/ k = Toggles!Key', ~Touched(k, t)
          PROVE  Toggles!Of(t, lookups'[k].items) = Toggles!Of(t, Toggles!Found(k))
      <4>1. k \notin notes.doubted
        BY <2>1, <3>3 DEF Fetched
      <4>2. ~OnServer(t)
        BY <3>3 DEF OnServer, Touched
      <4>3. CASE lookups'[k].items \in lookups[k].asked
        BY <3>1, <4>1, <4>2, <4>3
      <4>4. CASE /\ lookups'[k].items = lookups[k].items /\ lookups[k].asked = {}
                 /\ lookups[k].fresh \/ k = Toggles!Key
        BY <2>1, <3>3, <4>1, <4>4 DEF LookupInv, Sound, TrueOf
      <4> QED
        BY <2>1, <3>3, <4>3, <4>4 DEF Fetched
    <3> QED
      BY <3>2, <3>3
  <2> QED
    BY <2>2, <2>3, <2>4, <2>5 DEF LookupInv
<1>3. ASSUME NEW n \in Toggles!UnderWay PROVE ChangeInv(n)' /\ Restorable(n)'
  <2>1. n \in 1..MaxChanges /\ changes[n].from \in Toggles!Keys /\ notes.used \in Nat
    BY ChangeType DEF Toggles!TypeOK
  <2>2. ChangeInv(n)'
    BY <2>1, ChangeFollows
  <2>3. Follows(changes[n], changes'[n])
    BY <2>1 DEF Going
  <2>4. Restorable(n)'
    <3> DEFINE k == changes[n].from
    <3> SUFFICES ASSUME changes[n].status = "sent", changes[n].alone, NEW t \in Toggles!On(k)
                 PROVE  /\ Toggles!Of(t, changes[n].previous) = Toggles!Of(t, Toggles!Found(k))
                        /\ t # changes[n].target => Toggles!Of(t, lookups'[k].items) = Toggles!Of(t, Toggles!Found(k))
                        /\ \A s \in lookups'[k].asked : Toggles!Of(t, s) = Toggles!Of(t, Toggles!Found(k))
      BY <1>1, <2>3 DEF Restorable, TrueOf, Follows, Toggles!Of
    <3>1. Fetched(k)
      BY <2>1
    <3>2. /\ Toggles!Of(t, changes[n].previous) = Toggles!Of(t, Toggles!Found(k))
          /\ t # changes[n].target => Toggles!Of(t, lookups[k].items) = Toggles!Of(t, Toggles!Found(k))
          /\ \A s \in lookups[k].asked : Toggles!Of(t, s) = Toggles!Of(t, Toggles!Found(k))
      BY DEF Restorable, TrueOf
    <3> QED
      BY <3>1, <3>2 DEF Fetched
  <2> QED
    BY <2>2, <2>4
<1> QED
  BY <1>1, <1>2, <1>3

\* The actions that fetch.
LEMMA ShowsFetches ==
    ASSUME Toggles!TogglesAssumption, Toggles!TypeOK, NEW kind, NEW ids, Toggles!Shows(kind, ids)
    PROVE  banners' = banners /\ notes'.used = notes.used /\ \A k \in Toggles!Keys : Fetched(k)
<1> USE DEF Toggles!TypeOK
<1>1. banners' = banners /\ Toggles!Key' = ids /\ notes'.used = notes.used
  BY DEF Toggles!Shows, Toggles!Key
<1>2. ASSUME NEW k \in Toggles!Keys PROVE Fetched(k)
  <2>1. CASE /\ Toggles!Idle(ids) /\ lookups' = Toggles!Asking(ids)
             /\ notes' = [notes EXCEPT !.doubted = @ \ {ids}, !.moves = @ + 1]
    <3>1. CASE k = ids
      <4>1. lookups'[k].items = lookups[k].items /\ lookups'[k].loaded = lookups[k].loaded
            /\ lookups'[k].asked = {Toggles!Found(k)}
        BY <2>1, <3>1 DEF Toggles!Asking, Toggles!Lookups
      <4> QED
        BY <4>1 DEF Fetched
    <3>2. CASE k # ids
      <4>1. lookups'[k] = lookups[k] /\ (k \in notes'.doubted <=> k \in notes.doubted)
        BY <2>1, <3>2 DEF Toggles!Asking
      <4> QED
        BY <1>1, <3>2, <4>1 DEF Fetched
    <3> QED
      BY <3>1, <3>2
  <2>2. CASE /\ Toggles!Idle(ids) => lookups[ids].fresh
             /\ notes' = [notes EXCEPT !.moves = @ + 1] /\ UNCHANGED lookups
    <3>1. k = ids /\ lookups[k].asked = {} => lookups[k].fresh
      BY <2>2 DEF Toggles!Idle
    <3>2. notes'.doubted = notes.doubted
      BY <2>2
    <3> QED
      BY <1>1, <2>2, <3>1, <3>2 DEF Fetched
  <2> QED
    BY <2>1, <2>2 DEF Toggles!Shows
<1> QED
  BY <1>1, <1>2

LEMMA FetchActions ==
    ASSUME Toggles!TogglesAssumption, TogglesInv,
           \/ Toggles!Ask
           \/ \E k \in Toggles!Keys : Toggles!Reads(k) \/ Toggles!Answered(k) \/ Toggles!AskFailed(k)
           \/ \E ids : Toggles!Turn(ids)
           \/ \E kind, ids : Toggles!Open(kind, ids)
    PROVE  HeroInv'
<1> USE DEF TogglesInv, Toggles!TypeOK
<1>1. ASSUME changes' = changes PROVE Going
  BY <1>1, Followed DEF Going, Toggles!UnderWay
<1>2. CASE Toggles!Ask
  <2>1. Toggles!Key \in Toggles!Keys /\ notes'.used = notes.used
    BY <1>2 DEF Toggles!Ask, Toggles!Idle, Toggles!Trusting
  <2>2. \A k \in Toggles!Keys : Fetched(k)
    <3>1. \A k \in Toggles!Keys \ {Toggles!Key} : lookups'[k] = lookups[k] /\ (k \in notes'.doubted <=> k \in notes.doubted)
      BY <1>2 DEF Toggles!Ask, Toggles!Asking, Toggles!Trusting
    <3>2. /\ lookups'[Toggles!Key].items = lookups[Toggles!Key].items
          /\ lookups'[Toggles!Key].loaded = lookups[Toggles!Key].loaded
          /\ lookups'[Toggles!Key].asked = {Toggles!Found(Toggles!Key)}
      BY <1>2, <2>1 DEF Toggles!Ask, Toggles!Asking, Toggles!Lookups
    <3>3. Toggles!Key' = Toggles!Key
      BY <1>2 DEF Toggles!Ask, Toggles!Key
    <3> QED
      BY <3>1, <3>2, <3>3 DEF Fetched
  <2> QED
    BY <1>1, <1>2, <2>1, <2>2, FetchStep DEF Toggles!Ask
<1>3. ASSUME NEW q \in Toggles!Keys, Toggles!Reads(q) PROVE HeroInv'
  <2>1. notes'.used = notes.used /\ Toggles!Key' = Toggles!Key
    BY <1>3 DEF Toggles!Reads, Toggles!Trusting, Toggles!Key
  <2>2. \A k \in Toggles!Keys \ {q} : lookups'[k] = lookups[k] /\ (k \in notes'.doubted <=> k \in notes.doubted)
    BY <1>3 DEF Toggles!Reads, Toggles!Trusting
  <2>3. /\ lookups'[q].items = lookups[q].items /\ lookups'[q].loaded = lookups[q].loaded
        /\ lookups'[q].asked = {Toggles!Found(q)}
    BY <1>3 DEF Toggles!Reads, Toggles!Lookups
  <2>4. \A k \in Toggles!Keys : Fetched(k)
    BY <2>1, <2>2, <2>3 DEF Fetched
  <2> QED
    BY <1>1, <1>3, <2>1, <2>4, FetchStep DEF Toggles!Reads
<1>4. ASSUME NEW q \in Toggles!Keys, Toggles!Answered(q) PROVE HeroInv'
  <2>1. notes' = notes /\ Toggles!Key' = Toggles!Key
    BY <1>4 DEF Toggles!Answered, Toggles!Key
  <2>2. \A k \in Toggles!Keys \ {q} : lookups'[k] = lookups[k]
    BY <1>4 DEF Toggles!Answered
  <2>3. lookups'[q].items \in lookups[q].asked /\ lookups'[q].loaded /\ lookups'[q].asked = {}
    BY <1>4 DEF Toggles!Answered
  <2>4. \A k \in Toggles!Keys : Fetched(k)
    BY <2>1, <2>2, <2>3 DEF Fetched
  <2> QED
    BY <1>1, <1>4, <2>1, <2>4, FetchStep DEF Toggles!Answered
<1>5. ASSUME NEW q \in Toggles!Keys, Toggles!AskFailed(q) PROVE HeroInv'
  <2>1. notes'.used = notes.used /\ Toggles!Key' = Toggles!Key
    BY <1>5 DEF Toggles!AskFailed, Toggles!Doubting, Toggles!Key
  <2>2. \A k \in Toggles!Keys \ {q} : lookups'[k] = lookups[k] /\ (k \in notes'.doubted <=> k \in notes.doubted)
    BY <1>5 DEF Toggles!AskFailed, Toggles!Doubting
  <2>3. /\ lookups'[q].items = lookups[q].items /\ lookups'[q].loaded = lookups[q].loaded
        /\ lookups'[q].asked = {} /\ q \in notes'.doubted
    BY <1>5 DEF Toggles!AskFailed, Toggles!Doubting, Toggles!Lookups
  <2>4. \A k \in Toggles!Keys : Fetched(k)
    BY <2>1, <2>2, <2>3 DEF Fetched
  <2> QED
    BY <1>1, <1>5, <2>1, <2>4, FetchStep DEF Toggles!AskFailed
<1>6. ASSUME NEW ids, Toggles!Turn(ids) PROVE HeroInv'
  <2>1. Going
    BY <1>6, Followed DEF Toggles!Turn, Going, Toggles!Here, Toggles!UnderWay
  <2> QED
    BY <1>6, <2>1, ShowsFetches, FetchStep DEF Toggles!Turn
<1>7. ASSUME NEW kind, NEW ids, Toggles!Open(kind, ids) PROVE HeroInv'
  <2>1. Going
    BY <1>7, Followed DEF Toggles!Open, Going, Toggles!Here, Toggles!UnderWay
  <2> QED
    BY <1>7, <2>1, ShowsFetches, FetchStep DEF Toggles!Open
<1> QED
  BY <1>2, <1>3, <1>4, <1>5, <1>6, <1>7

\* The row with number i is written, created or deleted: a banner of t.
Writes(i, t) ==
  /\ \A j \in Toggles!Ids \ {i} : banners'[j] = banners[j]
  /\ banners'[i] # Toggles!NoBanner /\ banners'[i].target \in {"gone", t}
  /\ banners[i] = Toggles!NoBanner \/ banners[i].target = t

LEMMA WriteFacts ==
    ASSUME Toggles!TogglesAssumption, Toggles!TypeOK, NEW i \in Toggles!Ids, NEW t \in Targets, Writes(i, t)
    PROVE  /\ \A u \in Targets \ {t} : Toggles!BannersOf(u)' = Toggles!BannersOf(u)
           /\ \A k : \A u \in Targets \ {t} :
                Toggles!Of(u, Toggles!Found(k)') = Toggles!Of(u, Toggles!Found(k))
           /\ \A x \in Toggles!Items : KnownItem(x) => KnownItem(x)'
           /\ \A j \in Toggles!Ids : \A u : Numbered(j, u) => Numbered(j, u)'
<1>1. "none" \notin Targets /\ "gone" \notin Targets /\ Toggles!Ids = 1..MaxBanners
  BY DEF Toggles!TogglesAssumption, Toggles!Ids
<1>2. \A u \in Targets \ {t} : \A j \in Toggles!Ids : banners'[j].target = u <=> banners[j].target = u
  BY <1>1 DEF Writes, Toggles!NoBanner
<1>3. \A u \in Targets \ {t} : Toggles!BannersOf(u)' = Toggles!BannersOf(u)
  BY <1>2 DEF Toggles!BannersOf, Toggles!Existing
<1>4. ASSUME NEW k, NEW u \in Targets \ {t}
      PROVE  Toggles!Of(u, Toggles!Found(k)') = Toggles!Of(u, Toggles!Found(k))
  <2>1. \A j \in Toggles!BannersOf(u) : Toggles!Item(j)' = Toggles!Item(j) /\ banners'[j] = banners[j]
    BY <1>1, <1>2, <1>4 DEF Toggles!BannersOf, Toggles!Existing, Toggles!Item, Writes, Toggles!NoBanner
  <2>2. Toggles!Of(u, Toggles!Found(k)) = {Toggles!Item(j) : j \in {h \in Toggles!BannersOf(u) : u \in Toggles!On(k)}}
    BY DEF Toggles!Of, Toggles!Found, Toggles!Item, Toggles!BannersOf
  <2>3. Toggles!Of(u, Toggles!Found(k)') = {Toggles!Item(j)' : j \in {h \in Toggles!BannersOf(u)' : u \in Toggles!On(k)}}
    BY DEF Toggles!Of, Toggles!Found, Toggles!Item, Toggles!BannersOf
  <2> QED
    BY <1>3, <2>1, <2>2, <2>3
<1>5. \A j \in Toggles!Ids : \A u : Numbered(j, u) => Numbered(j, u)'
  BY DEF Numbered, Writes
<1>6. \A x \in Toggles!Items : KnownItem(x) => KnownItem(x)'
  <2> SUFFICES ASSUME NEW x \in Toggles!Items, KnownItem(x), x.id > 0 PROVE Numbered(x.id, x.target)'
    BY DEF KnownItem
  <2>1. x.id \in Toggles!Ids
    BY <1>1 DEF Toggles!Items, Toggles!TogglesAssumption
  <2> QED
    BY <1>5, <2>1 DEF KnownItem
<1> QED
  BY <1>3, <1>4, <1>5, <1>6

\* The targets of lookups are targets.
LEMMA OnTargets ==
    ASSUME Toggles!TogglesAssumption, NEW k \in Toggles!Keys
    PROVE  Toggles!On(k) \subseteq Targets
<1>1. \A f \in Toggles!Forms : Toggles!On(f) \subseteq Targets
  BY DEF Toggles!Forms, Toggles!On, Toggles!TogglesAssumption
<1>2. \A p \in Pages : Toggles!On(p) \subseteq Targets
  BY DEF Toggles!On, Toggles!TogglesAssumption
<1> QED
  BY <1>1, <1>2 DEF Toggles!Keys

LEMMA KnownKept ==
    ASSUME Toggles!TogglesAssumption, TogglesInv, NEW k \in Toggles!Keys,
           \A x \in Toggles!Items : KnownItem(x) => KnownItem(x)', lookups' = lookups
    PROVE  /\ \A x \in lookups'[k].items : KnownItem(x)'
           /\ \A s \in lookups'[k].asked : \A x \in s : KnownItem(x)'
           /\ ~lookups'[k].loaded => lookups'[k].items = {}
<1>1. lookups[k].items \in SUBSET Toggles!Items /\ lookups[k].asked \in SUBSET SUBSET Toggles!Items
  BY DEF TogglesInv, Toggles!TypeOK, Toggles!Lookups
<1> QED
  BY <1>1 DEF TogglesInv, HeroInv, LookupInv

LEMMA ElsewhereStep ==
    ASSUME Toggles!TogglesAssumption, TogglesInv, NEW i \in Toggles!Ids, NEW t \in Targets,
           Toggles!Elsewhere(t), Writes(i, t)
    PROVE  HeroInv'
<1> USE DEF TogglesInv, HeroInv
<1>1. Going
  BY Followed DEF Toggles!Elsewhere, Going, Toggles!Disturbed, Toggles!UnderWay, Toggles!TypeOK
<1>2. lookups' = lookups /\ Toggles!Key' = Toggles!Key
  BY DEF Toggles!Elsewhere, Toggles!Key
<1>3. ASSUME NEW k \in Toggles!Keys PROVE LookupInv(k)'
  <2>1. Sound(k)'
    <3> SUFFICES ASSUME k \notin notes'.doubted, NEW u \in Toggles!On(k)
                 PROVE  /\ ~OnServer(u) => \A s \in lookups[k].asked :
                             Toggles!Of(u, s) = Toggles!Of(u, Toggles!Found(k)')
                        /\ lookups[k].asked = {} /\ (lookups[k].fresh \/ k = Toggles!Key) /\ ~Touched(k, u)
                             => Toggles!Of(u, lookups[k].items) = Toggles!Of(u, Toggles!Found(k)')
      BY <1>1, <1>2, HandsSame DEF Sound, TrueOf, Toggles!Of
    <3>1. k \notin notes.doubted /\ u \in Targets \ {t}
      BY OnTargets DEF Toggles!Elsewhere, Toggles!KeysOf, Toggles!TypeOK
    <3> QED
      BY <3>1, WriteFacts DEF LookupInv, Sound, TrueOf
  <2> QED
    BY <1>2, <2>1, KnownKept, WriteFacts DEF LookupInv
<1>4. ASSUME NEW n \in Toggles!UnderWay PROVE ChangeInv(n)' /\ Restorable(n)'
  <2>1. /\ n \in 1..MaxChanges /\ notes.used \in Nat /\ notes'.used \in Nat /\ notes'.used >= notes.used
        /\ changes[n].target \in Targets /\ changes[n].status \in {"sent", "served"}
        /\ changes[n].previous \subseteq Toggles!Items
    BY ChangeType DEF Toggles!TypeOK, Toggles!Elsewhere
  <2>2. /\ Follows(changes[n], changes'[n]) /\ ~changes'[n].alone
        /\ \A m \in Toggles!UnderWay : changes'[m].target = changes[m].target
        /\ changes'[n].status = "sent" /\ changes'[n].sure => changes[n].target # t
    <3>1. changes' = Toggles!Disturbed(t)
      BY DEF Toggles!Elsewhere
    <3> QED
      BY <1>1, <2>1, <3>1, Followed DEF Going, Follows, Toggles!UnderWay
  <2>3. \A j, u : Numbered(j, u) => Numbered(j, u)'
    BY WriteFacts DEF Numbered
  <2>4. ChangeInv(n)'
    <3>1. ChangeInv(n) /\ Toggles!UnderWay' = Toggles!UnderWay
      BY <1>1, HandsSame
    <3>2. \A x \in changes'[n].previous : KnownItem(x)'
      BY <2>1, <2>2, <3>1, WriteFacts DEF ChangeInv, Follows
    <3>3. changes'[n].status = "sent" /\ changes'[n].sure
            => Toggles!BannersOf(changes[n].target)' = Toggles!BannersOf(changes[n].target)
      BY <2>1, <2>2, WriteFacts
    <3> QED
      BY <2>1, <2>2, <2>3, <3>1, <3>2, <3>3 DEF ChangeInv, Follows, Toggles!BannersOf
  <2> QED
    BY <2>2, <2>4 DEF Restorable
<1> QED
  BY <1>1, <1>3, <1>4, HandsSame

LEMMA ServedStep ==
    ASSUME Toggles!TogglesAssumption, TogglesInv, NEW n \in Toggles!UnderWay, Toggles!Served(n)
    PROVE  HeroInv'
<1> USE DEF TogglesInv, HeroInv
<1>0. PICK t \in Targets : t = changes[n].target
  BY ChangeType
<1>1. n \in 1..MaxChanges /\ changes[n].status = "sent" /\ changes[n] \in Toggles!Sendings /\ changes[n].target = t
  BY <1>0, ChangeType DEF Toggles!Served
<1>2. PICK i \in Toggles!Ids :
        /\ \/ changes[n].kind = "create" /\ Toggles!Created(i, t)
           \/ /\ changes[n].kind = "update" /\ i = changes[n].id /\ i \in Toggles!Existing
              /\ banners' = [banners EXCEPT ![i] = Toggles!Set(@, changes[n].field, changes[n].on)]
        /\ changes' = [changes EXCEPT ![n] = Toggles!Receipt(@, i)]
  BY <1>1 DEF Toggles!Served
<1>3. /\ Writes(i, t) /\ banners'[i].target = t
      /\ changes[n].kind = "update" => banners[i].target = t
  <2>1. banners \in [Toggles!Ids -> Toggles!Banners \cup {Toggles!NoBanner, Toggles!Gone}] /\ t # "none" /\ t # "gone"
    BY <1>1 DEF Toggles!TypeOK, Toggles!TogglesAssumption
  <2>2. CASE Toggles!Created(i, t) /\ changes[n].kind = "create"
    BY <2>1, <2>2 DEF Toggles!Created, Writes, Toggles!NoBanner
  <2>3. CASE /\ changes[n].kind = "update" /\ i = changes[n].id /\ i \in Toggles!Existing
             /\ banners' = [banners EXCEPT ![i] = Toggles!Set(@, changes[n].field, changes[n].on)]
    <3>1. ChangeInv(n)
      OBVIOUS
    <3>2. banners[i].target = t /\ banners[i] \in Toggles!Banners
      BY <1>1, <2>1, <2>3, <3>1 DEF ChangeInv, Numbered, Toggles!Existing, Toggles!TogglesAssumption, Toggles!NoBanner, Toggles!Gone
    <3>3. banners'[i].target = t
      BY <2>1, <2>3, <3>2 DEF Toggles!Set, Toggles!Banners
    <3> QED
      BY <2>1, <2>3, <3>2, <3>3 DEF Writes, Toggles!NoBanner
  <2> QED
    BY <1>2, <2>2, <2>3
<1>4. /\ \A m \in Toggles!UnderWay \ {n} : changes'[m] = changes[m]
      /\ changes'[n].status = "served" /\ changes'[n].target = t /\ changes'[n].from = changes[n].from
      /\ changes'[n].previous = changes[n].previous /\ changes'[n].had = changes[n].had
      /\ changes'[n].alone = changes[n].alone /\ changes'[n].id = i /\ changes'[n].row = banners'[i]
      /\ changes'[n] # Toggles!NoChange
  BY <1>1, <1>2 DEF Toggles!Receipt, Toggles!TypeOK, Toggles!UnderWay, Toggles!NoChange
<1>5. Toggles!UnderWay' = Toggles!UnderWay
  BY <1>1, <1>2, <1>4 DEF Toggles!UnderWay, Toggles!TypeOK
<1>6. /\ lookups' = lookups /\ Toggles!Key' = Toggles!Key /\ notes' = notes
      /\ \A u : OnServer(u)' <=> OnServer(u) \/ u = t
      /\ \A k, u : ~Touched(k, u)' => ~Touched(k, u) /\ u # t
  BY <1>1, <1>4, <1>5 DEF Toggles!Served, Toggles!Key, OnServer, Touched
<1>7. /\ \A u \in Targets \ {t} : Toggles!BannersOf(u)' = Toggles!BannersOf(u)
      /\ \A k : \A u \in Targets \ {t} :
           Toggles!Of(u, Toggles!Found(k)') = Toggles!Of(u, Toggles!Found(k))
      /\ \A x \in Toggles!Items : KnownItem(x) => KnownItem(x)'
      /\ \A j \in Toggles!Ids : \A u : Numbered(j, u) => Numbered(j, u)'
  BY <1>1, <1>3, WriteFacts
<1>8. ASSUME NEW k \in Toggles!Keys PROVE LookupInv(k)'
  <2>1. Sound(k)'
    <3> SUFFICES ASSUME k \notin notes.doubted, NEW u \in Toggles!On(k), u # t
                 PROVE  /\ ~OnServer(u) => \A s \in lookups[k].asked :
                             Toggles!Of(u, s) = Toggles!Of(u, Toggles!Found(k)')
                        /\ lookups[k].asked = {} /\ (lookups[k].fresh \/ k = Toggles!Key) /\ ~Touched(k, u)
                             => Toggles!Of(u, lookups[k].items) = Toggles!Of(u, Toggles!Found(k)')
      BY <1>6 DEF Sound, TrueOf, Toggles!Of
    <3>1. u \in Targets \ {t}
      BY OnTargets
    <3> QED
      BY <1>7, <3>1 DEF LookupInv, Sound, TrueOf
  <2> QED
    BY <1>6, <1>7, <2>1, KnownKept DEF LookupInv
<1>9. ASSUME NEW m \in Toggles!UnderWay PROVE ChangeInv(m)' /\ Restorable(m)'
  <2>1. ChangeInv(m) /\ changes[m].previous \subseteq Toggles!Items /\ changes[m].target \in Targets
    BY ChangeType
  <2>2. CASE m = n
    <3>1. Numbered(i, t)'
      BY <1>3 DEF Numbered, Writes
    <3>2. \A x \in changes'[n].previous : KnownItem(x)'
      BY <1>4, <1>7, <2>1, <2>2 DEF ChangeInv
    <3>3. ChangeInv(n)'
      BY <1>1, <1>3, <1>4, <1>5, <1>6, <2>1, <2>2, <3>1, <3>2 DEF ChangeInv
    <3> QED
      BY <1>4, <2>2, <3>3 DEF Restorable
  <2>3. CASE m # n
    <3>1. changes'[m] = changes[m] /\ ~changes[m].alone
      BY <1>4, <2>1, <2>3 DEF ChangeInv
    <3>2. \A x \in changes'[m].previous : KnownItem(x)'
      BY <1>7, <2>1, <3>1 DEF ChangeInv
    <3>3. \A j, u : Numbered(j, u) => Numbered(j, u)'
      BY <1>7 DEF Numbered
    <3>4. \A h \in Toggles!UnderWay : changes'[h].target = changes[h].target
      BY <1>1, <1>4
    <3>5. changes[m].status = "sent" /\ changes[m].sure
            => changes[m].target # t /\ Toggles!BannersOf(changes[m].target)' = Toggles!BannersOf(changes[m].target)
      BY <1>1, <1>7, <2>1, <2>3, <3>1 DEF ChangeInv
    <3>6. ChangeInv(m)'
      BY <1>5, <1>6, <2>1, <3>1, <3>2, <3>3, <3>4, <3>5 DEF ChangeInv, Toggles!BannersOf
    <3> QED
      BY <3>1, <3>6 DEF Restorable
  <2> QED
    BY <2>2, <2>3
<1> QED
  BY <1>5, <1>8, <1>9

\* A change is over.
LEMMA OverStep ==
    ASSUME Toggles!TogglesAssumption, TogglesInv, NEW n \in Toggles!UnderWay, banners' = banners,
           changes' = [changes EXCEPT ![n] = Toggles!NoChange], notes'.used = notes.used
    PROVE  /\ Toggles!UnderWay' = Toggles!UnderWay \ {n}
           /\ \A m \in Toggles!UnderWay' : ChangeInv(m)' /\ Restorable(m)'
           /\ \A t : OnServer(t) => OnServer(t)' \/ (changes[n].status = "served" /\ changes[n].target = t)
           /\ \A k, t : Touched(k, t) => \/ Touched(k, t)'
                                         \/ /\ changes[n].target = t
                                            /\ changes[n].status = "served" \/ changes[n].from = k
<1> USE DEF TogglesInv, HeroInv
<1>1. Toggles!UnderWay' = Toggles!UnderWay \ {n} /\ \A m \in Toggles!UnderWay' : changes'[m] = changes[m]
  BY DEF Toggles!UnderWay, Toggles!TypeOK
<1>2. ASSUME NEW m \in Toggles!UnderWay' PROVE ChangeInv(m)' /\ Restorable(m)'
  <2>1. ChangeInv(m) /\ m # n /\ m \in Toggles!UnderWay
    BY <1>1
  <2>2. ~changes'[m].alone
    BY <1>1, <2>1 DEF ChangeInv
  <2> QED
    BY <1>1, <2>1, <2>2, SameBanners DEF ChangeInv, Restorable
<1> QED
  BY <1>1, <1>2 DEF OnServer, Touched

LEMMA SucceededStep ==
    ASSUME Toggles!TogglesAssumption, TogglesInv, NEW n \in Toggles!UnderWay, Toggles!Succeeded(n)
    PROVE  HeroInv'
<1> USE DEF TogglesInv, HeroInv
<1> DEFINE c == changes[n]
           fetched == Toggles!Key \in Toggles!Keys /\ ~Toggles!GoesOn(c, Toggles!Key)
<1>1. banners' = banners /\ notes'.used = notes.used /\ Toggles!Key' = Toggles!Key
  BY DEF Toggles!Succeeded, Toggles!TypeOK, Toggles!Key
<1>2. \A k \in Toggles!Keys :
        /\ lookups'[k].items = IF k = c.key THEN Toggles!Confirmed(c) ELSE lookups[k].items
        /\ lookups'[k].loaded <=> lookups[k].loaded \/ k = c.key
        /\ ~lookups'[k].fresh
        /\ lookups'[k].asked = IF k = Toggles!Key /\ fetched THEN {Toggles!Found(k)} ELSE lookups[k].asked
        /\ k \notin notes'.doubted => ~Toggles!GoesOn(c, k)
  BY DEF Toggles!Succeeded, Toggles!TypeOK
<1>3. ASSUME NEW k \in Toggles!Keys PROVE LookupInv(k)'
  <2>1. LookupInv(k)
    OBVIOUS
  <2>2. KnownItem(Toggles!AnswerItem(c))
    BY DEF ChangeInv, KnownItem, Toggles!AnswerItem, Toggles!Succeeded
  <2>0. \A x : KnownItem(x)' <=> KnownItem(x)
    BY <1>1, SameBanners
  <2>3. \A x \in lookups'[k].items : KnownItem(x)'
    <3>1. k = c.key => \A x \in Toggles!Confirmed(c) : x = Toggles!AnswerItem(c) \/ x \in lookups[k].items
      BY DEF Toggles!Confirmed
    <3> QED
      BY <1>2, <2>0, <2>1, <2>2, <3>1 DEF LookupInv
  <2>4. \A s \in lookups'[k].asked : \A x \in s : KnownItem(x)'
    <3>1. \A x \in Toggles!Found(k) : KnownItem(x)
      BY FoundKnown
    <3>2. \A s \in lookups'[k].asked : s = Toggles!Found(k) \/ s \in lookups[k].asked
      BY <1>2
    <3> QED
      BY <2>0, <2>1, <3>1, <3>2 DEF LookupInv
  <2>5. ~lookups'[k].loaded => lookups'[k].items = {}
    BY <1>2, <2>1 DEF LookupInv
  <2>6. k \notin notes'.doubted => lookups'[k].asked \subseteq {Toggles!Found(k)}
                                    /\ (k = Toggles!Key => lookups'[k].asked # {})
    BY <1>2 DEF Toggles!GoesOn
  <2>7. Toggles!Found(k)' = Toggles!Found(k)
    BY <1>1, SameBanners
  <2>8. Sound(k)'
    BY <1>1, <1>2, <2>6, <2>7 DEF Sound, TrueOf, Toggles!Of
  <2> QED
    BY <2>3, <2>4, <2>5, <2>8 DEF LookupInv
<1> QED
  BY <1>1, <1>3, OverStep DEF Toggles!Succeeded

LEMMA FailedStep ==
    ASSUME Toggles!TogglesAssumption, TogglesInv, NEW n \in Toggles!UnderWay, Toggles!Failed(n)
    PROVE  HeroInv'
<1> USE DEF TogglesInv, HeroInv
<1> DEFINE c == changes[n]
           items(k) == IF c.had THEN c.previous ELSE {x \in lookups[k].items : x.target # c.target}
<1>1. banners' = banners /\ notes'.used = notes.used /\ Toggles!Key' = Toggles!Key
      /\ changes' = [changes EXCEPT ![n] = Toggles!NoChange]
  BY DEF Toggles!Failed, Toggles!TypeOK, Toggles!Key, Toggles!Doubting
<1>2. \A k \in Toggles!Keys :
        /\ k # c.key => lookups'[k] = lookups[k]
        /\ k = c.key => /\ lookups'[k].items = items(k) /\ lookups'[k].loaded
                        /\ lookups'[k].asked = lookups[k].asked
        /\ k \notin notes'.doubted =>
             /\ k \notin notes.doubted
             /\ k \in {c.from, c.key} => c.alone /\ c.key = c.from
             /\ c.target \in Toggles!On(k) => c.status # "served"
  <2>1. \A k \in Toggles!Keys : lookups[k] \in Toggles!Lookups
    BY DEF Toggles!TypeOK
  <2>2. notes'.doubted = notes.doubted \cup
          (((IF c.alone /\ c.key = c.from THEN {} ELSE {c.from, c.key})
            \cup (IF c.status = "served" THEN Toggles!KeysOf(c.target) ELSE {})) \cap Toggles!Keys)
    BY DEF Toggles!Failed, Toggles!Doubting, Toggles!TypeOK
  <2> QED
    BY <2>1, <2>2 DEF Toggles!Failed, Toggles!Put, Toggles!Lookups, Toggles!KeysOf
<1>3. ChangeInv(n) /\ Restorable(n) /\ c.status \in {"sent", "served"}
  BY ChangeType
<1>4. ASSUME NEW k \in Toggles!Keys PROVE LookupInv(k)'
  <2>1. LookupInv(k)
    OBVIOUS
  <2>0. \A x : KnownItem(x)' <=> KnownItem(x)
    BY <1>1, SameBanners
  <2>2. \A x \in lookups'[k].items : KnownItem(x)'
    <3>1. \A x \in lookups'[k].items : x \in lookups[k].items \/ x \in c.previous
      BY <1>2
    <3> QED
      BY <1>3, <2>0, <2>1, <3>1 DEF LookupInv, ChangeInv
  <2>3. lookups'[k].asked = lookups[k].asked
    BY <1>2
  <2>4. ~lookups'[k].loaded => lookups'[k].items = {}
    BY <1>2, <2>1 DEF LookupInv
  <2>5. Sound(k)'
    <3> SUFFICES ASSUME k \notin notes'.doubted, NEW t \in Toggles!On(k)
                 PROVE  /\ ~OnServer(t)' => \A s \in lookups[k].asked :
                             Toggles!Of(t, s) = Toggles!Of(t, Toggles!Found(k))
                        /\ lookups[k].asked = {} /\ (lookups'[k].fresh \/ k = Toggles!Key) /\ ~Touched(k, t)'
                             => Toggles!Of(t, lookups'[k].items) = Toggles!Of(t, Toggles!Found(k))
      BY <1>1, <2>3, SameBanners DEF Sound, TrueOf, Toggles!Of
    <3>1. ~OnServer(t)' => ~OnServer(t)
      BY <1>1, <1>2, OverStep
    <3>2. ~OnServer(t)' => \A s \in lookups[k].asked : Toggles!Of(t, s) = Toggles!Of(t, Toggles!Found(k))
      BY <1>2, <2>1, <3>1 DEF LookupInv, Sound, TrueOf
    <3>3. CASE k = c.key
      <4>1. c.alone /\ c.key = c.from /\ c.status = "sent"
        BY <1>2, <1>3, <3>3 DEF ChangeInv
      <4>2. /\ Toggles!Of(t, c.previous) = Toggles!Of(t, Toggles!Found(k))
            /\ t # c.target => Toggles!Of(t, lookups[k].items) = Toggles!Of(t, Toggles!Found(k))
        BY <1>3, <3>3, <4>1 DEF Restorable, TrueOf
      <4>3. ~c.had => c.previous = {}
        BY <1>3 DEF ChangeInv
      <4> QED
        BY <1>2, <3>2, <3>3, <4>2, <4>3 DEF Toggles!Of
    <3>4. CASE k # c.key
      <4>1. /\ k \notin notes.doubted /\ k # c.from
            /\ t = c.target => c.status # "served"
        BY <1>2, <3>4
      <4>2. Touched(k, t) => Touched(k, t)'
        BY <1>1, <4>1, OverStep
      <4>3. lookups'[k] = lookups[k]
        BY <1>2, <3>4
      <4> QED
        BY <2>1, <3>2, <4>1, <4>2, <4>3 DEF LookupInv, Sound, TrueOf
    <3> QED
      BY <3>3, <3>4
  <2> QED
    BY <1>1, <2>1, <2>2, <2>3, <2>4, <2>5, SameBanners DEF LookupInv
<1> QED
  BY <1>1, <1>4, OverStep

\* A change of t begins over the lookup on the screen, whose other targets' items stay.
LEMMA MutateStep ==
    ASSUME Toggles!TogglesAssumption, TogglesInv, Toggles!Key \in Toggles!Keys,
           NEW t \in Toggles!On(Toggles!Key), NEW kind, NEW id, NEW field, NEW on, NEW items,
           Toggles!Mutate(t, kind, id, field, on, items),
           \A x \in items : KnownItem(x),
           \A u : u # t => Toggles!Of(u, items) = Toggles!Of(u, lookups[Toggles!Key].items),
           kind = "create" => Toggles!heroById(t) = {},
           kind = "update" => Numbered(id, t)
    PROVE  HeroInv'
<1> USE DEF TogglesInv, HeroInv
<1>0. PICK key \in Toggles!Keys : key = Toggles!Key
  OBVIOUS
<1>1. /\ lookups[key] \in Toggles!Lookups /\ Toggles!Lookup = lookups[key] /\ lookups[key].asked = {}
      /\ t \in Targets /\ t \in Toggles!On(key) /\ LookupInv(key)
  BY <1>0, OnTargets DEF Toggles!Mutate, Toggles!isPending, Toggles!Fetching, Toggles!TypeOK, Toggles!Lookup
<1>2. PICK N \in 1..MaxChanges :
        /\ N = notes.used + 1 /\ N \notin Toggles!UnderWay /\ notes'.used = N /\ notes.used \in Nat
  <2>1. notes.used \in 0..MaxChanges /\ notes.used < MaxChanges /\ notes'.used = notes.used + 1
    BY DEF Toggles!Mutate, Toggles!MayChange, Toggles!TypeOK
  <2> QED
    BY <2>1 DEF ChangeInv, Toggles!TogglesAssumption
<1>3. banners' = banners /\ Toggles!Key' = key
  BY <1>0 DEF Toggles!Mutate, Toggles!Key
<1>4. /\ \A n \in Toggles!UnderWay :
           /\ Follows(changes[n], changes'[n]) /\ ~changes'[n].alone
           /\ changes[n].status = "sent" /\ changes'[n].sure => changes[n].target # t
      /\ \A n \in (1..MaxChanges) \ {N} : n \notin Toggles!UnderWay => changes'[n] = Toggles!NoChange
      /\ changes'[N] = [status |-> "sent", kind |-> kind, target |-> t, id |-> id, field |-> field, on |-> on,
                        from |-> key, key |-> key, here |-> TRUE,
                        sure |-> key \notin notes.doubted /\ t \notin Toggles!Writing,
                        alone |-> key \notin notes.doubted /\ Toggles!UnderWay = {},
                        had |-> lookups[key].loaded, previous |-> lookups[key].items]
  <2>1. /\ \A n \in (1..MaxChanges) \ {N} : changes'[n] = Toggles!Disturbed(t)[n]
        /\ changes'[N] = [status |-> "sent", kind |-> kind, target |-> t, id |-> id, field |-> field, on |-> on,
                        from |-> key, key |-> key, here |-> TRUE,
                        sure |-> key \notin notes.doubted /\ t \notin Toggles!Writing,
                        alone |-> key \notin notes.doubted /\ Toggles!UnderWay = {},
                        had |-> lookups[key].loaded, previous |-> lookups[key].items]
    BY <1>0, <1>1, <1>2 DEF Toggles!Mutate, Toggles!Disturbed
  <2>2. \A n \in (1..MaxChanges) : n \notin Toggles!UnderWay => Toggles!Disturbed(t)[n] = Toggles!NoChange
    BY DEF Toggles!Disturbed, Toggles!UnderWay
  <2>3. \A n \in Toggles!UnderWay : n \in (1..MaxChanges) \ {N}
    BY <1>2 DEF Toggles!UnderWay
  <2> QED
    BY <2>1, <2>2, <2>3, Followed
<1>5. /\ changes'[N].status = "sent" /\ changes'[N].target = t /\ changes'[N].from = key /\ changes'[N].kind = kind
      /\ changes'[N].sure <=> key \notin notes.doubted /\ t \notin Toggles!Writing
      /\ changes'[N].alone <=> key \notin notes.doubted /\ Toggles!UnderWay = {}
      /\ changes'[N].had = lookups[key].loaded /\ changes'[N].previous = lookups[key].items
      /\ changes'[N].id = id /\ changes'[N] # Toggles!NoChange
  <2> DEFINE a == key \notin notes.doubted /\ t \notin Toggles!Writing
             b == key \notin notes.doubted /\ Toggles!UnderWay = {}
  <2>1. changes'[N] = [status |-> "sent", kind |-> kind, target |-> t, id |-> id, field |-> field, on |-> on,
                       from |-> key, key |-> key, here |-> TRUE, sure |-> a, alone |-> b,
                       had |-> lookups[key].loaded, previous |-> lookups[key].items]
    BY <1>4
  <2> HIDE DEF a, b
  <2>2. /\ changes'[N].status = "sent" /\ changes'[N].target = t /\ changes'[N].from = key
        /\ changes'[N].kind = kind /\ changes'[N].id = id /\ changes'[N] # Toggles!NoChange
        /\ changes'[N].had = lookups[key].loaded /\ changes'[N].previous = lookups[key].items
    BY <2>1 DEF Toggles!NoChange
  <2>3. changes'[N].sure = a /\ changes'[N].alone = b
    BY <2>1
  <2> QED
    BY <2>2, <2>3 DEF a, b
<1>6. Toggles!UnderWay' = Toggles!UnderWay \cup {N}
  <2>1. \A n \in Toggles!UnderWay : n \in 1..MaxChanges /\ changes'[n] # Toggles!NoChange
    BY <1>4, ChangeType DEF Follows, Toggles!NoChange
  <2> QED
    BY <1>2, <1>4, <1>5, <2>1 DEF Toggles!UnderWay
<1>7. /\ \A n \in Toggles!UnderWay : n # N /\ changes'[n].status = changes[n].status
                                     /\ changes'[n].target = changes[n].target /\ changes'[n].from = changes[n].from
      /\ \A u : OnServer(u)' <=> OnServer(u)
      /\ \A k, u : Touched(k, u)' <=> Touched(k, u) \/ (k = key /\ u = t)
  <2>1. \A n \in Toggles!UnderWay : n # N /\ changes'[n].status = changes[n].status
                                     /\ changes'[n].target = changes[n].target /\ changes'[n].from = changes[n].from
    BY <1>2, <1>4 DEF Follows
  <2>2. \A u : OnServer(u)' <=> OnServer(u)
    BY <1>5, <1>6, <2>1 DEF OnServer
  <2>3. \A k, u : Touched(k, u)' <=> Touched(k, u) \/ (k = key /\ u = t)
    BY <1>5, <1>6, <2>1 DEF Touched
  <2> QED
    BY <2>1, <2>2, <2>3
<1>8. /\ lookups'[key].items = items /\ lookups'[key].loaded /\ lookups'[key].asked = {}
      /\ \A k \in Toggles!Keys \ {key} :
           /\ lookups'[k].items = lookups[k].items /\ lookups'[k].loaded = lookups[k].loaded
           /\ lookups'[k].fresh = lookups[k].fresh
           /\ lookups'[k].asked = lookups[k].asked \/ (lookups'[k].asked = {} /\ k \in notes'.doubted)
      /\ \A k \in Toggles!Keys : k \notin notes'.doubted => k \notin notes.doubted
  <2>1. lookups' = [k \in Toggles!Keys |->
           IF k = key THEN [lookups[k] EXCEPT !.items = items, !.loaded = TRUE, !.fresh = TRUE]
           ELSE IF k \in Toggles!Stopped THEN [lookups[k] EXCEPT !.asked = {}] ELSE lookups[k]]
    BY <1>0 DEF Toggles!Mutate, Toggles!Put
  <2>2. notes'.doubted = notes.doubted \cup Toggles!Stopped
    BY DEF Toggles!Mutate, Toggles!TypeOK
  <2>3. \A k \in Toggles!Keys : lookups[k] \in Toggles!Lookups
    BY DEF Toggles!TypeOK
  <2> QED
    BY <1>1, <2>1, <2>2, <2>3 DEF Toggles!Lookups
<1>9. /\ \A k : Toggles!Found(k)' = Toggles!Found(k)
      /\ \A u : Toggles!BannersOf(u)' = Toggles!BannersOf(u)
      /\ \A x : KnownItem(x)' <=> KnownItem(x)
      /\ \A i, u : Numbered(i, u)' <=> Numbered(i, u)
  BY <1>3, SameBanners
<1>10. ASSUME key \notin notes.doubted, NEW u \in Toggles!On(key), ~Touched(key, u)
       PROVE  Toggles!Of(u, lookups[key].items) = Toggles!Of(u, Toggles!Found(key))
  BY <1>0, <1>1, <1>10 DEF LookupInv, Sound, TrueOf
<1>11. ASSUME NEW k \in Toggles!Keys PROVE LookupInv(k)'
  <2>1. LookupInv(k)
    OBVIOUS
  <2>2. CASE k = key
    <3>1. Sound(k)'
      <4> SUFFICES ASSUME key \notin notes'.doubted, NEW u \in Toggles!On(key), ~Touched(key, u)'
                   PROVE  Toggles!Of(u, items) = Toggles!Of(u, Toggles!Found(key))
        BY <1>8, <1>9, <2>2 DEF Sound, TrueOf, Toggles!Of
      <4> QED
        BY <1>0, <1>7, <1>8, <1>10
    <3> QED
      BY <1>8, <1>9, <2>2, <3>1 DEF LookupInv
  <2>3. CASE k # key
    <3>1. Sound(k)'
      <4> SUFFICES ASSUME k \notin notes'.doubted, NEW u \in Toggles!On(k)
                   PROVE  /\ ~OnServer(u) => \A s \in lookups'[k].asked :
                               Toggles!Of(u, s) = Toggles!Of(u, Toggles!Found(k))
                          /\ lookups'[k].asked = {} /\ lookups'[k].fresh /\ ~Touched(k, u)
                               => Toggles!Of(u, lookups'[k].items) = Toggles!Of(u, Toggles!Found(k))
        BY <1>3, <1>7, <1>9, <2>3 DEF Sound, TrueOf, Toggles!Of
      <4>1. k \notin notes.doubted /\ lookups'[k].asked = lookups[k].asked /\ lookups'[k].fresh = lookups[k].fresh
            /\ lookups'[k].items = lookups[k].items
        BY <1>8, <2>3
      <4> QED
        BY <2>1, <4>1 DEF LookupInv, Sound, TrueOf
    <3>2. /\ lookups'[k].items = lookups[k].items /\ lookups'[k].loaded = lookups[k].loaded
          /\ lookups'[k].asked \subseteq lookups[k].asked
      BY <1>8, <2>3
    <3> QED
      BY <1>9, <2>1, <3>1, <3>2 DEF LookupInv
  <2> QED
    BY <2>2, <2>3
<1>12. ChangeInv(N)' /\ Restorable(N)'
  <2>1. \A x \in lookups[key].items : KnownItem(x)'
    BY <1>1, <1>9 DEF LookupInv
  <2>2. changes'[N].alone => Toggles!UnderWay' = {N}
    BY <1>5, <1>6
  <2>3. ASSUME changes'[N].sure
        PROVE  /\ \A m \in Toggles!UnderWay' \ {N} : changes'[m].target # t
               /\ kind = "create" => Toggles!BannersOf(t) = {}
    <3>1. \A m \in Toggles!UnderWay : changes[m].target # t
      BY <1>5, <2>3 DEF Toggles!Writing
    <3>2. ASSUME kind = "create" PROVE Toggles!BannersOf(t) = {}
      <4>1. Toggles!Of(t, Toggles!Found(key)) = {}
        <5>1. ~Touched(key, t)
          BY <3>1 DEF Touched
        <5> QED
          BY <1>1, <1>5, <1>10, <2>3, <3>2, <5>1 DEF Toggles!heroById
      <4>2. \A i \in Toggles!BannersOf(t) : Toggles!Item(i) \in Toggles!Of(t, Toggles!Found(key))
        BY <1>1 DEF Toggles!BannersOf, Toggles!Of, Toggles!Found, Toggles!Item
      <4> QED
        BY <4>1, <4>2
    <3> QED
      BY <1>6, <1>7, <3>1, <3>2
  <2>4. ~changes'[N].had => changes'[N].previous = {}
    BY <1>1, <1>5 DEF LookupInv
  <2>5. ChangeInv(N)'
    BY <1>1, <1>2, <1>5, <1>9, <2>1, <2>2, <2>3, <2>4 DEF ChangeInv
  <2>6. Restorable(N)'
    <3> SUFFICES ASSUME changes'[N].alone, NEW u \in Toggles!On(key)
                 PROVE  /\ Toggles!Of(u, lookups[key].items) = Toggles!Of(u, Toggles!Found(key))
                        /\ u # t => Toggles!Of(u, items) = Toggles!Of(u, Toggles!Found(key))
      BY <1>2, <1>5, <1>8, <1>9 DEF Restorable, TrueOf, Toggles!Of
    <3>1. key \notin notes.doubted /\ ~Touched(key, u)
      BY <1>5 DEF Touched
    <3> QED
      BY <1>0, <1>10, <3>1
  <2> QED
    BY <2>5, <2>6
<1>13. ASSUME NEW n \in Toggles!UnderWay PROVE ChangeInv(n)' /\ Restorable(n)'
  <2>1. ChangeInv(n) /\ changes[n].status \in {"sent", "served"} /\ n \in 1..MaxChanges
    BY ChangeType
  <2>2. /\ Follows(changes[n], changes'[n]) /\ ~changes'[n].alone
        /\ changes'[n].status = "sent" /\ changes'[n].sure => changes[n].target # t
    BY <1>4 DEF Follows
  <2>3. changes'[n].status = "sent" /\ changes'[n].sure =>
          \A m \in Toggles!UnderWay' \ {n} : changes'[m].target # changes'[n].target
    <3> SUFFICES ASSUME changes'[n].status = "sent", changes'[n].sure, NEW m \in Toggles!UnderWay' \ {n}
                 PROVE  changes'[m].target # changes'[n].target
      OBVIOUS
    <3>1. changes'[n].target = changes[n].target /\ changes[n].status = "sent" /\ changes[n].sure
      BY <2>2 DEF Follows
    <3>2. CASE m = N
      BY <1>5, <2>2, <3>1, <3>2
    <3>3. CASE m # N
      BY <1>6, <1>7, <2>1, <3>1, <3>3 DEF ChangeInv
    <3> QED
      BY <3>2, <3>3
  <2>4. n <= notes'.used
    BY <1>2, <2>1 DEF ChangeInv
  <2>5. ChangeInv(n)'
    BY <1>9, <2>1, <2>2, <2>3, <2>4 DEF ChangeInv, Follows
  <2> QED
    BY <2>2, <2>5 DEF Restorable
<1> QED
  BY <1>6, <1>11, <1>12, <1>13

LEMMA TogglesStep ==
    ASSUME Toggles!TogglesAssumption, TogglesInv, Toggles!Next
    PROVE  TogglesInv'
<1>1. Toggles!TypeOK'
  BY TogglesTypeStep DEF TogglesInv
<1>2. ASSUME NEW t \in Toggles!On(Toggles!Key), Toggles!TurnOn(t) \/ \E x \in Toggles!heroById(t) :
               \E field \in {"enabled", "pinned"} : Toggles!Switch(x, field)
      PROVE  HeroInv'
  <2>1. Toggles!Key \in Toggles!Keys
    <3>1. Toggles!On(<< >>) = {}
      BY DEF Toggles!On
    <3> QED
      BY <3>1 DEF Toggles!Key, Toggles!Keys, TogglesInv, Toggles!TypeOK
  <2>2. Toggles!Lookup = lookups[Toggles!Key] /\ Toggles!Lookup.items \in SUBSET Toggles!Items /\ LookupInv(Toggles!Key)
    BY <2>1 DEF TogglesInv, HeroInv, Toggles!TypeOK, Toggles!Lookups, Toggles!Lookup
  <2>3. CASE Toggles!TurnOn(t)
    <3> DEFINE items == Toggles!Lookup.items \cup {Toggles!Optimistic(t)}
    <3>1. \A x \in items : KnownItem(x)
      BY <2>2 DEF LookupInv, KnownItem, Toggles!Optimistic
    <3>2. \A u : u # t => Toggles!Of(u, items) = Toggles!Of(u, lookups[Toggles!Key].items)
      BY <2>2 DEF Toggles!Of, Toggles!Optimistic
    <3>3. Toggles!heroById(t) = {} /\ Toggles!Mutate(t, "create", 0, "enabled", TRUE, items)
      BY <2>3 DEF Toggles!TurnOn
    <3> HIDE DEF items
    <3> QED
      BY <2>1, <3>1, <3>2, <3>3, MutateStep
  <2>4. ASSUME NEW x \in Toggles!heroById(t), NEW field \in {"enabled", "pinned"}, Toggles!Switch(x, field)
        PROVE  HeroInv'
    <3> DEFINE on == IF field = "enabled" THEN ~x.enabled ELSE ~x.pinned
               y  == Toggles!Set(x, field, on)
               items == (Toggles!Lookup.items \ {x}) \cup {y}
    <3>1. x \in Toggles!Items /\ x \in Toggles!Lookup.items /\ x.target = t /\ x.id > 0
      BY <2>2, <2>4 DEF Toggles!heroById, Toggles!Of, Toggles!Switch
    <3>2. y.id = x.id /\ y.target = t
      BY <3>1 DEF Toggles!Set, Toggles!Items
    <3>3. Numbered(x.id, t)
      BY <2>2, <3>1 DEF LookupInv, KnownItem
    <3>4. \A z \in items : KnownItem(z)
      BY <2>2, <3>2, <3>3 DEF LookupInv, KnownItem
    <3>5. \A u : u # t => Toggles!Of(u, items) = Toggles!Of(u, lookups[Toggles!Key].items)
      BY <2>2, <3>1, <3>2 DEF Toggles!Of
    <3>6. Toggles!Mutate(t, "update", x.id, field, on, items)
      BY <2>4, <3>1 DEF Toggles!Switch
    <3> HIDE DEF on, y, items
    <3> QED
      BY <2>1, <3>3, <3>4, <3>5, <3>6, MutateStep
  <2> QED
    BY <1>2, <2>3, <2>4
<1>3. ASSUME NEW t \in Targets, Toggles!OthersCreate(t) PROVE HeroInv'
  <2>1. PICK i \in Toggles!Ids : Toggles!Created(i, t)
    BY <1>3 DEF Toggles!OthersCreate
  <2>2. Writes(i, t)
    BY <2>1 DEF Toggles!Created, Writes, Toggles!NoBanner, Toggles!TogglesAssumption, TogglesInv, Toggles!TypeOK
  <2> QED
    BY <1>3, <2>2, ElsewhereStep DEF Toggles!OthersCreate
<1>4. ASSUME NEW i \in Toggles!Ids, Toggles!OthersWrite(i) PROVE HeroInv'
  <2>1. PICK t \in Targets : t = banners[i].target
    BY <1>4 DEF Toggles!OthersWrite, Toggles!Existing
  <2>2. banners \in [Toggles!Ids -> Toggles!Banners \cup {Toggles!NoBanner, Toggles!Gone}] /\ t # "none" /\ t # "gone"
    BY DEF TogglesInv, Toggles!TypeOK, Toggles!TogglesAssumption
  <2>3. banners[i] \in Toggles!Banners
    BY <2>1, <2>2 DEF Toggles!NoBanner, Toggles!Gone
  <2>4. \A p \in BOOLEAN : [banners EXCEPT ![i].enabled = ~@, ![i].pinned = p][i].target = t
    BY <2>1, <2>2, <2>3 DEF Toggles!Banners
  <2>5. Writes(i, t)
    <3>1. CASE \E p \in BOOLEAN : banners' = [banners EXCEPT ![i].enabled = ~@, ![i].pinned = p]
      <4>1. banners'[i].target = t /\ \A j \in Toggles!Ids \ {i} : banners'[j] = banners[j]
        BY <2>2, <2>4, <3>1
      <4> QED
        BY <2>1, <2>2, <4>1 DEF Writes, Toggles!NoBanner
    <3>2. CASE banners' = [banners EXCEPT ![i] = Toggles!Gone]
      BY <2>1, <2>2, <3>2 DEF Writes, Toggles!NoBanner, Toggles!Gone
    <3> QED
      BY <1>4, <3>1, <3>2 DEF Toggles!OthersWrite
  <2> QED
    BY <1>4, <2>1, <2>5, ElsewhereStep DEF Toggles!OthersWrite
<1>5. ASSUME \/ Toggles!Ask
             \/ \E k \in Toggles!Keys : Toggles!Reads(k) \/ Toggles!Answered(k) \/ Toggles!AskFailed(k)
             \/ \E ids : Toggles!Turn(ids)
             \/ \E kind, ids : Toggles!Open(kind, ids)
      PROVE  HeroInv'
  BY <1>5, FetchActions
<1>6. ASSUME NEW n \in Toggles!UnderWay, Toggles!Served(n) \/ Toggles!Succeeded(n) \/ Toggles!Failed(n)
      PROVE  HeroInv'
  BY <1>6, ServedStep, SucceededStep, FailedStep
<1>7. HeroInv'
  BY <1>2, <1>3, <1>4, <1>5, <1>6 DEF Toggles!Next
<1> QED
  BY <1>1, <1>7 DEF TogglesInv

\* The inductive invariant of the banner toggles.
THEOREM TogglesInvariant == Toggles!Spec => []TogglesInv
<1>0. Toggles!TogglesAssumption
  BY AdminAssumption
<1>1. Toggles!Init => TogglesInv
  BY <1>0, TogglesInit
<1>2. TogglesInv /\ [Toggles!Next]_Toggles!heroVars => TogglesInv'
  <2>1. ASSUME TogglesInv, Toggles!Next PROVE TogglesInv'
    BY <1>0, <2>1, TogglesStep
  <2>2. ASSUME TogglesInv, UNCHANGED Toggles!heroVars PROVE TogglesInv'
    <3>1. UNCHANGED <<banners, lookups, view, changes, notes>>
      BY <2>2 DEF Toggles!heroVars
    <3>2. Toggles!TypeOK'
      BY <2>2, <3>1 DEF TogglesInv, Toggles!TypeOK
    <3>3. HeroInv'
      BY <2>2, <3>1 DEF TogglesInv, HeroInv, LookupInv, Sound, ChangeInv, Restorable, TrueOf, OnServer, Touched,
         KnownItem, Numbered, Toggles!Key, Toggles!UnderWay, Toggles!Found, Toggles!Item, Toggles!BannersOf, Toggles!Existing
    <3> QED
      BY <3>2, <3>3 DEF TogglesInv
  <2> QED
    BY <2>1, <2>2
<1> QED
  BY <1>1, <1>2, PTL DEF Toggles!Spec

\* A toggle gives no target a second banner, unless it was switched on over a lookup that may
\* be untrue, or others were writing the target.
THEOREM OneBannerPerTargetHolds == Spec => OneBannerPerTarget
<1>1. TogglesInv /\ [Toggles!Next]_Toggles!heroVars =>
        [\A n \in Toggles!UnderWay :
           changes[n].status = "sent" /\ changes[n].kind = "create" /\ changes[n].sure /\ Toggles!Served(n)
           => Toggles!BannersOf(changes[n].target) = {}]_Toggles!heroVars
  BY DEF TogglesInv, HeroInv, ChangeInv
<1> QED
  BY <1>1, PartsBehave, TogglesInvariant, PTL DEF Toggles!Spec, OneBannerPerTarget, Toggles!OneBannerPerTarget

\* A toggle that can be clicked shows the banners of its target, unless its lookup may be
\* untrue or a change of that target is on its way.
THEOREM ToggleIsTrueHolds == Spec => []ToggleIsTrue
<1>0. Toggles!TogglesAssumption
  BY AdminAssumption
<1>1. TogglesInv => ToggleIsTrue
  <2> SUFFICES ASSUME TogglesInv, ~Toggles!isPending, Toggles!Key \notin notes.doubted,
                      NEW t \in Toggles!On(Toggles!Key) \ Toggles!Writing
               PROVE  Toggles!heroById(t) = Toggles!Of(t, Toggles!Found(Toggles!Key))
    BY DEF ToggleIsTrue, Toggles!ToggleIsTrue
  <2>1. Toggles!Key \in Toggles!Keys
    <3>1. Toggles!On(<< >>) = {}
      BY DEF Toggles!On
    <3> QED
      BY <3>1 DEF Toggles!Key, Toggles!Keys, TogglesInv, Toggles!TypeOK
  <2>2. Sound(Toggles!Key) /\ lookups[Toggles!Key].asked = {} /\ ~Touched(Toggles!Key, t)
    BY <2>1 DEF TogglesInv, HeroInv, LookupInv, Toggles!isPending, Toggles!Fetching, Toggles!Lookup, Touched, Toggles!Writing
  <2> QED
    BY <2>2 DEF Sound, TrueOf, Toggles!heroById, Toggles!Lookup
<1> QED
  BY <1>1, PartsBehave, TogglesInvariant, PTL

-----------------------------------------------------------------------------
(* The push buttons *)

\* The row of an endpoint is its member's, or the endpoint is dead.
Holds(e, m) == e \in browser.dead \/ store[e] = m

\* The calls whose answer comes to somebody on the page.
Live == {r \in requests : r.from \in PushButtons!Sources \cup {"closed"}}

(* An answer that nobody waits for is dropped; only dead endpoints are deleted; a
   save that was served holds; a button has one call at a time; nobody waits once the
   member is logged out. *)
RequestsInv ==
  /\ \A r \in requests :
       /\ r.from \in {"sync", "unloaded"} => r.stage = "sent"
       /\ r.kind = "delete" => r.endpoint \in browser.dead
       /\ r.kind = "save" /\ r.stage = "served" => Holds(r.endpoint, r.by)
       /\ r.from \in PushButtons!Sources => buttons[r.from].awaits # "nothing"
       /\ session = Nobody => r.from = "unloaded"
  /\ \A r, q \in requests : r.from \in PushButtons!Sources /\ q.from = r.from => r = q
  /\ session = Nobody => \A c \in PushButtons!Sources : buttons[c].hook = "unmounted"

(* Unless attempts crossed, one is under way at most, the browser already has the
   subscription it is about, nothing is reported before its answer, and what was
   reported holds. *)
ReportInv ==
  ~said.unsure =>
    /\ \A r, q \in Live : r = q
    /\ \A r \in Live : /\ said.word = "nothing"
                       /\ r.kind = "save" => browser.sub = r.endpoint
                       /\ r.kind = "delete" => browser.sub = PushButtons!NoSub
    /\ said.word = "on" =>
         /\ said.to \in Owners /\ said.endpoint \in PushButtons!Issued
         /\ browser.sub = said.endpoint /\ Holds(said.endpoint, said.to)
    /\ said.word = "off" => browser.sub = PushButtons!NoSub

PushInv == PushButtons!TypeOK /\ RequestsInv /\ ReportInv

\* Whatever the server, the broadcast and the push service do, a row stays its member's
\* until the endpoint dies.
LEMMA HoldsStep ==
    ASSUME PushButtons!PushAssumption, PushButtons!TypeOK, RequestsInv, PushButtons!Next,
           NEW e \in PushButtons!Issued, NEW m \in Owners, Holds(e, m)
    PROVE  Holds(e, m)'
<1>1. CASE \E r \in requests : PushButtons!Serve(r)
  <2>1. PICK r \in requests : PushButtons!Serve(r)
    BY <1>1
  <2>2. r \in PushButtons!Requests /\ UNCHANGED browser
    BY <2>1 DEF PushButtons!TypeOK, PushButtons!Serve
  <2>3. CASE e \in browser.dead \/ e # r.endpoint \/ ~PushButtons!Permitted(r)
    BY <2>1, <2>2, <2>3 DEF PushButtons!Serve, PushButtons!TypeOK, Holds
  <2>4. CASE e \notin browser.dead /\ e = r.endpoint /\ PushButtons!Permitted(r)
    <3>1. r.by = m
      BY <2>4 DEF PushButtons!Permitted, PushButtons!PushAssumption, Holds
    <3>2. r.kind = "save"
      BY <2>2, <2>4 DEF RequestsInv, PushButtons!Requests
    <3> QED
      BY <2>1, <2>2, <2>4, <3>1, <3>2 DEF PushButtons!Serve, PushButtons!TypeOK, Holds
  <2> QED
    BY <2>3, <2>4
<1>2. CASE PushButtons!RemoveGone
  BY <1>2 DEF PushButtons!RemoveGone, PushButtons!TypeOK, Holds
<1>3. CASE \E c \in PushButtons!Sources : PushButtons!TurnOn(c) \/ PushButtons!TurnOff(c)
  BY <1>3 DEF PushButtons!TurnOn, PushButtons!TurnOff, PushButtons!Unsubscribed, PushButtons!TypeOK,
     PushButtons!Browsers, Holds
<1>4. CASE PushButtons!Expire
  BY <1>4 DEF PushButtons!Expire, PushButtons!TypeOK, PushButtons!Browsers, Holds
<1>5. CASE UNCHANGED <<store, browser>>
  BY <1>5 DEF Holds
<1> QED
  BY <1>1, <1>2, <1>3, <1>4, <1>5 DEF PushButtons!Next, PushButtons!LogIn, PushButtons!LogOut, PushButtons!OpenDrawer,
     PushButtons!Sync, PushButtons!TurnOffUnheard, PushButtons!Answered, PushButtons!RequestFails,
     PushButtons!SendBroadcast, PushButtons!CallEndpoint, PushButtons!LogResults, PushButtons!BroadcastFails

LEMMA DeadStay ==
    ASSUME PushButtons!TypeOK, PushButtons!Next
    PROVE  browser.dead \subseteq browser'.dead
BY DEF PushButtons!TypeOK, PushButtons!Browsers, PushButtons!Next, PushButtons!LogIn, PushButtons!LogOut,
   PushButtons!OpenDrawer, PushButtons!Sync, PushButtons!TurnOn, PushButtons!TurnOff, PushButtons!Unsubscribed,
   PushButtons!TurnOffUnheard, PushButtons!Answered, PushButtons!Serve, PushButtons!RequestFails,
   PushButtons!SendBroadcast, PushButtons!CallEndpoint, PushButtons!LogResults, PushButtons!RemoveGone,
   PushButtons!BroadcastFails, PushButtons!Expire

\* Nobody's answer is under way when a button that waits for none starts uncrossed.
LEMMA Uncrossed ==
    ASSUME PushButtons!TypeOK, RequestsInv, NEW c \in PushButtons!Sources,
           buttons[c].awaits = "nothing", ~PushButtons!Crossed(c)
    PROVE  Live = {}
BY DEF PushButtons!Crossed, RequestsInv, Live

LEMMA PushInit == ASSUME PushButtons!PushAssumption, PushButtons!Init PROVE PushInv
<1> USE DEF PushButtons!Init, PushButtons!PushAssumption
<1>1. buttons \in [PushButtons!Sources -> PushButtons!Buttons]
  <2>1. PushButtons!Unmounted \in PushButtons!Buttons
    BY DEF PushButtons!Unmounted, PushButtons!Buttons
  <2> QED
    BY <2>1
<1>2. browser \in PushButtons!Browsers
  BY DEF PushButtons!Browsers
<1>3. broadcast \in PushButtons!Broadcasts /\ broadcast.gone \subseteq browser.dead
  BY DEF PushButtons!Broadcasts
<1>4. said \in PushButtons!Reports
  BY DEF PushButtons!Reports
<1>5. PushButtons!TypeOK
  BY <1>1, <1>2, <1>3, <1>4 DEF PushButtons!TypeOK
<1>6. RequestsInv
  BY DEF RequestsInv, PushButtons!Unmounted
<1>7. ReportInv
  BY DEF ReportInv, Live
<1> QED
  BY <1>5, <1>6, <1>7 DEF PushInv

\* A member is logged in where there is a button.
LEMMA ButtonNeedsMember ==
    ASSUME PushButtons!TypeOK, RequestsInv, NEW c \in PushButtons!Sources, buttons[c].hook # "unmounted"
    PROVE  session \in Owners
BY DEF PushButtons!TypeOK, RequestsInv

LEMMA RequestType ==
    ASSUME NEW kind \in {"save", "delete"}, NEW e \in PushButtons!Issued,
           NEW from \in PushButtons!Sources \cup {"sync"}, session \in Owners
    PROVE  /\ PushButtons!Request(kind, e, from) \in PushButtons!Requests
           /\ PushButtons!Request(kind, e, from).kind = kind /\ PushButtons!Request(kind, e, from).endpoint = e
           /\ PushButtons!Request(kind, e, from).from = from /\ PushButtons!Request(kind, e, from).stage = "sent"
BY DEF PushButtons!Request, PushButtons!Requests

LEMMA AttemptType ==
    ASSUME PushButtons!TypeOK, PushButtons!PushAssumption, NEW c \in PushButtons!Sources, PushButtons!MayAttempt(c)
    PROVE  /\ PushButtons!Attempting(c) \in PushButtons!Reports
           /\ PushButtons!Attempting(c).word = "nothing" /\ PushButtons!Attempting(c).unsure = PushButtons!Crossed(c)
<1>1. PushButtons!Crossed(c) \in BOOLEAN
  BY DEF PushButtons!Crossed
<1>2. said.attempts + 1 \in 0..MaxAttempts
  BY DEF PushButtons!MayAttempt, PushButtons!TypeOK, PushButtons!Reports, PushButtons!PushAssumption
<1>3. ASSUME NEW p \in PushButtons!Reports, NEW u \in BOOLEAN, NEW a \in 0..MaxAttempts,
             NEW q, q = [p EXCEPT !.word = "nothing", !.unsure = u, !.attempts = a]
      PROVE  q \in PushButtons!Reports /\ q.word = "nothing" /\ q.unsure = u
  BY <1>3 DEF PushButtons!Reports
<1>4. PushButtons!Attempting(c) = [said EXCEPT !.word = "nothing", !.unsure = PushButtons!Crossed(c), !.attempts = said.attempts + 1]
  BY DEF PushButtons!Attempting
<1> QED
  BY <1>1, <1>2, <1>3, <1>4 DEF PushButtons!TypeOK

LEMMA PushTypeStep ==
    ASSUME PushButtons!PushAssumption, PushButtons!TypeOK, RequestsInv, PushButtons!Next
    PROVE  PushButtons!TypeOK'
<1> USE DEF PushButtons!TypeOK
<1>0. PushButtons!Unmounted \in PushButtons!Buttons /\ PushButtons!Mounted \in PushButtons!Buttons
  BY DEF PushButtons!Unmounted, PushButtons!Mounted, PushButtons!Buttons
<1>1. ASSUME NEW m \in Owners, PushButtons!LogIn(m) PROVE PushButtons!TypeOK'
  <2>1. said' \in PushButtons!Reports
    BY <1>1 DEF PushButtons!LogIn, PushButtons!Reports, PushButtons!PushAssumption
  <2>2. buttons' \in [PushButtons!Sources -> PushButtons!Buttons]
    BY <1>0, <1>1 DEF PushButtons!LogIn
  <2> QED
    BY <1>1, <2>1, <2>2 DEF PushButtons!LogIn
<1>2. CASE PushButtons!LogOut
  <2>1. buttons' \in [PushButtons!Sources -> PushButtons!Buttons]
    BY <1>0, <1>2 DEF PushButtons!LogOut
  <2>2. \A r \in requests : [r EXCEPT !.from = "unloaded"] \in PushButtons!Requests
    BY DEF PushButtons!Requests
  <2>3. requests' \subseteq PushButtons!Requests
    BY <1>2, <2>2 DEF PushButtons!LogOut, PushButtons!Heard
  <2> QED
    BY <1>2, <2>1, <2>3 DEF PushButtons!LogOut
<1>3. CASE PushButtons!OpenDrawer
  <2>1. \A r \in requests : [r EXCEPT !.from = IF @ = "drawer" THEN "closed" ELSE @] \in PushButtons!Requests
    BY DEF PushButtons!Requests
  <2>2. requests' \subseteq PushButtons!Requests
    BY <1>3, <2>1 DEF PushButtons!OpenDrawer
  <2>3. buttons' \in [PushButtons!Sources -> PushButtons!Buttons]
    BY <1>0, <1>3 DEF PushButtons!OpenDrawer
  <2> QED
    BY <1>3, <2>2, <2>3 DEF PushButtons!OpenDrawer
<1>4. ASSUME NEW c \in PushButtons!Sources, PushButtons!Sync(c) PROVE PushButtons!TypeOK'
  <2>1. [buttons[c] EXCEPT !.hook = "done", !.subscribed = browser.sub # PushButtons!NoSub] \in PushButtons!Buttons
    BY DEF PushButtons!Buttons
  <2>2. buttons' = [buttons EXCEPT ![c] = [buttons[c] EXCEPT !.hook = "done", !.subscribed = browser.sub # PushButtons!NoSub]]
    BY <1>4 DEF PushButtons!Sync
  <2>3. session \in Owners
    BY <1>4, ButtonNeedsMember DEF PushButtons!Sync
  <2>4. requests' \subseteq PushButtons!Requests
    BY <1>4, <2>3, RequestType DEF PushButtons!Sync, PushButtons!Browsers
  <2> QED
    BY <1>4, <2>1, <2>2, <2>4 DEF PushButtons!Sync
<1>5. ASSUME NEW c \in PushButtons!Sources, PushButtons!TurnOn(c) PROVE PushButtons!TypeOK'
  <2>1. session \in Owners
    BY <1>5 DEF PushButtons!TurnOn, PushButtons!MayAttempt
  <2>2. browser.sub # PushButtons!NoSub => browser.sub \in PushButtons!Issued
    BY DEF PushButtons!Browsers
  <2>3. browser.sub = PushButtons!NoSub => browser.given + 1 \in PushButtons!Issued /\ browser.given + 1 \in 0..MaxEndpoints
    BY <1>5 DEF PushButtons!TurnOn, PushButtons!Browsers, PushButtons!Issued, PushButtons!PushAssumption
  <2>4. requests' \subseteq PushButtons!Requests
    BY <1>5, <2>1, <2>2, <2>3, RequestType DEF PushButtons!TurnOn
  <2>5. browser' \in PushButtons!Browsers /\ browser'.dead = browser.dead
    BY <1>5, <2>3 DEF PushButtons!TurnOn, PushButtons!Browsers
  <2>6. buttons' \in [PushButtons!Sources -> PushButtons!Buttons]
    BY <1>5 DEF PushButtons!TurnOn, PushButtons!Buttons
  <2> QED
    BY <1>5, <2>4, <2>5, <2>6, AttemptType DEF PushButtons!TurnOn
<1>6. ASSUME NEW c \in PushButtons!Sources, PushButtons!TurnOff(c) PROVE PushButtons!TypeOK'
  <2>1. session \in Owners
    BY <1>6 DEF PushButtons!TurnOff, PushButtons!MayAttempt
  <2>2. browser.sub \in PushButtons!Issued
    BY <1>6 DEF PushButtons!TurnOff, PushButtons!Browsers
  <2>3. requests' \subseteq PushButtons!Requests
    BY <1>6, <2>1, <2>2, RequestType DEF PushButtons!TurnOff
  <2>4. browser' \in PushButtons!Browsers /\ browser.dead \subseteq browser'.dead
    BY <1>6, <2>2 DEF PushButtons!TurnOff, PushButtons!Unsubscribed, PushButtons!Browsers
  <2>5. buttons' \in [PushButtons!Sources -> PushButtons!Buttons]
    BY <1>6 DEF PushButtons!TurnOff, PushButtons!Buttons
  <2> QED
    BY <1>6, <2>3, <2>4, <2>5, AttemptType DEF PushButtons!TurnOff
<1>7. ASSUME NEW c \in PushButtons!Sources, PushButtons!TurnOffUnheard(c) PROVE PushButtons!TypeOK'
  <2>1. buttons' \in [PushButtons!Sources -> PushButtons!Buttons]
    BY <1>7 DEF PushButtons!TurnOffUnheard, PushButtons!Buttons
  <2>2. PushButtons!Attempting(c) \in PushButtons!Reports
    BY <1>7, AttemptType DEF PushButtons!TurnOffUnheard
  <2>3. said' \in PushButtons!Reports
    BY <1>7, <2>2 DEF PushButtons!TurnOffUnheard, PushButtons!Reports
  <2> QED
    BY <1>7, <2>1, <2>3 DEF PushButtons!TurnOffUnheard
<1>8. ASSUME NEW r \in requests, PushButtons!Answered(r) PROVE PushButtons!TypeOK'
  <2>1. r \in PushButtons!Requests
    OBVIOUS
  <2>2. \A c \in PushButtons!Sources :
          [buttons[c] EXCEPT !.awaits = "nothing", !.subscribed = IF r.stage = "served" THEN r.kind = "save" ELSE @]
            \in PushButtons!Buttons
    BY DEF PushButtons!Buttons
  <2>3. buttons' \in [PushButtons!Sources -> PushButtons!Buttons]
    BY <1>8, <2>2 DEF PushButtons!Answered
  <2>4. said' \in PushButtons!Reports
    BY <1>8, <2>1 DEF PushButtons!Answered, PushButtons!Reports, PushButtons!Requests
  <2> QED
    BY <1>8, <2>3, <2>4 DEF PushButtons!Answered
<1>9. ASSUME NEW r \in requests, PushButtons!Serve(r) PROVE PushButtons!TypeOK'
  <2>1. [r EXCEPT !.stage = IF PushButtons!Permitted(r) THEN "served" ELSE "refused"] \in PushButtons!Requests
    BY DEF PushButtons!Requests
  <2>2. requests' \subseteq PushButtons!Requests
    BY <1>9, <2>1 DEF PushButtons!Serve, PushButtons!Heard
  <2>3. store' \in [PushButtons!Issued -> Owners \cup {Nobody}]
    BY <1>9 DEF PushButtons!Serve, PushButtons!Requests
  <2> QED
    BY <1>9, <2>2, <2>3 DEF PushButtons!Serve
<1>10. ASSUME NEW r \in requests, PushButtons!RequestFails(r) PROVE PushButtons!TypeOK'
  <2>1. [r EXCEPT !.stage = "refused"] \in PushButtons!Requests
    BY DEF PushButtons!Requests
  <2>2. requests' \subseteq PushButtons!Requests
    BY <1>10, <2>1 DEF PushButtons!RequestFails, PushButtons!Heard
  <2> QED
    BY <1>10, <2>2 DEF PushButtons!RequestFails
<1>11. CASE PushButtons!SendBroadcast
  <2>1. broadcast' \in PushButtons!Broadcasts /\ broadcast'.gone = {}
    BY <1>11 DEF PushButtons!SendBroadcast, PushButtons!Broadcasts, PushButtons!Stored, PushButtons!PushAssumption
  <2> QED
    BY <1>11, <2>1 DEF PushButtons!SendBroadcast
<1>12. ASSUME NEW e \in PushButtons!Issued, PushButtons!CallEndpoint(e) PROVE PushButtons!TypeOK'
  <2>1. PICK gone \in PushButtons!GoneAnswers(e) : broadcast' = [broadcast EXCEPT !.todo = @ \ {e}, !.gone = @ \cup gone]
    BY <1>12 DEF PushButtons!CallEndpoint
  <2>2. gone \subseteq browser.dead /\ gone \subseteq PushButtons!Issued
    BY <2>1 DEF PushButtons!GoneAnswers
  <2>3. broadcast' \in PushButtons!Broadcasts /\ broadcast'.gone \subseteq browser.dead
    BY <2>1, <2>2 DEF PushButtons!Broadcasts
  <2> QED
    BY <1>12, <2>3 DEF PushButtons!CallEndpoint
<1>13. CASE PushButtons!LogResults \/ PushButtons!BroadcastFails
  <2>1. broadcast' \in PushButtons!Broadcasts /\ broadcast'.gone \subseteq browser.dead
    BY <1>13 DEF PushButtons!LogResults, PushButtons!BroadcastFails, PushButtons!Broadcasts
  <2> QED
    BY <1>13, <2>1 DEF PushButtons!LogResults, PushButtons!BroadcastFails
<1>14. CASE PushButtons!RemoveGone
  <2>1. broadcast' \in PushButtons!Broadcasts /\ broadcast'.gone = {}
    BY <1>14 DEF PushButtons!RemoveGone, PushButtons!Broadcasts
  <2>2. store' \in [PushButtons!Issued -> Owners \cup {Nobody}]
    BY <1>14 DEF PushButtons!RemoveGone
  <2> QED
    BY <1>14, <2>1, <2>2 DEF PushButtons!RemoveGone
<1>15. CASE PushButtons!Expire
  <2>1. browser' \in PushButtons!Browsers /\ browser.dead \subseteq browser'.dead
    BY <1>15 DEF PushButtons!Expire, PushButtons!Browsers
  <2> QED
    BY <1>15, <2>1 DEF PushButtons!Expire
<1> QED
  BY <1>1, <1>2, <1>3, <1>4, <1>5, <1>6, <1>7, <1>8, <1>9, <1>10, <1>11, <1>12, <1>13, <1>14, <1>15 DEF PushButtons!Next

\* A call that moves on keeps what it is about, and whose it is.
LEMMA Moved ==
    ASSUME PushButtons!PushAssumption, PushButtons!TypeOK, RequestsInv, ReportInv, PushButtons!Next,
           UNCHANGED <<session, browser, buttons, said>>,
           NEW r \in requests, NEW s, requests' \subseteq (requests \ {r}) \cup {s},
           s.kind = r.kind, s.endpoint = r.endpoint, s.from = r.from,
           s.kind = "save" /\ s.stage = "served" => Holds(s.endpoint, s.by)',
           \A q \in requests' : q.from \in {"sync", "unloaded"} => q.stage = "sent"
    PROVE  RequestsInv' /\ ReportInv'
<1>1. \A q \in requests : q \in PushButtons!Requests
  BY DEF PushButtons!TypeOK
<1>2. \A q \in requests' : /\ q.kind = "delete" => q.endpoint \in browser'.dead
                           /\ q.kind = "save" /\ q.stage = "served" => Holds(q.endpoint, q.by)'
                           /\ q.from \in PushButtons!Sources => buttons'[q.from].awaits # "nothing"
                           /\ session' = Nobody => q.from = "unloaded"
  BY <1>1, HoldsStep DEF RequestsInv, PushButtons!Requests
<1>3. \A p, q \in requests' : p.from \in PushButtons!Sources /\ q.from = p.from => p = q
  BY DEF RequestsInv
<1>a. session' = Nobody => \A c \in PushButtons!Sources : buttons'[c].hook = "unmounted"
  BY DEF RequestsInv
<1>4. RequestsInv'
  <2> HIDE DEF RequestsInv
  <2> QED
    BY <1>2, <1>3, <1>a DEF RequestsInv
<1>5. \A q \in Live' : q \in Live \/ (q = s /\ r \in Live)
  BY DEF Live
<1>6. ASSUME ~said.unsure PROVE \A p, q \in Live' : p = q
  <2> SUFFICES ASSUME NEW p \in Live', NEW q \in Live' PROVE p = q
    OBVIOUS
  <2>1. \A x \in Live : r \in Live => x = r
    BY <1>6 DEF ReportInv
  <2>2. r \in Live => p = s /\ q = s
    BY <2>1 DEF Live
  <2>3. r \notin Live => p \in Live /\ q \in Live
    BY <1>5
  <2> QED
    BY <1>6, <2>2, <2>3 DEF ReportInv
<1>7. ReportInv'
  <2> SUFFICES ASSUME ~said.unsure PROVE ReportInv'
    BY DEF ReportInv
  <2>1. \A q \in Live' : /\ said'.word = "nothing" /\ (q.kind = "save" => browser'.sub = q.endpoint)
                         /\ (q.kind = "delete" => browser'.sub = PushButtons!NoSub)
    <3>1. \A q \in Live : /\ said.word = "nothing" /\ (q.kind = "save" => browser.sub = q.endpoint)
                          /\ (q.kind = "delete" => browser.sub = PushButtons!NoSub)
      BY DEF ReportInv
    <3> QED
      BY <1>5, <3>1
  <2>2. said.word = "on" => Holds(said.endpoint, said.to)'
    BY HoldsStep DEF ReportInv
  <2> QED
    BY <1>6, <2>1, <2>2 DEF ReportInv
<1> QED
  BY <1>4, <1>7

\* An attempt that is not crossed has the browser's subscription to itself.
LEMMA Attempted ==
    ASSUME PushButtons!PushAssumption, PushButtons!TypeOK, RequestsInv, ReportInv, PushButtons!Next,
           NEW c \in PushButtons!Sources, PushButtons!MayAttempt(c),
           NEW n \in PushButtons!Requests, requests' = requests \cup {n}, n.from = c, n.stage = "sent",
           n.kind = "save" => browser'.sub = n.endpoint,
           n.kind = "delete" => browser'.sub = PushButtons!NoSub /\ n.endpoint \in browser'.dead,
           NEW word \in {"save", "delete"}, buttons' = [buttons EXCEPT ![c].awaits = word],
           UNCHANGED session, said' = PushButtons!Attempting(c)
    PROVE  RequestsInv' /\ ReportInv'
<1>1. \A q \in requests : q \in PushButtons!Requests
  BY DEF PushButtons!TypeOK
<1>2. session # Nobody /\ buttons[c].awaits = "nothing" /\ \A q \in requests : q.from # c
  BY DEF PushButtons!MayAttempt, RequestsInv
<1>3. buttons'[c].awaits # "nothing" /\ \A d \in PushButtons!Sources : d # c => buttons'[d] = buttons[d]
  BY DEF PushButtons!TypeOK, PushButtons!Buttons
<1>4. \A q \in requests' : /\ q.kind = "delete" => q.endpoint \in browser'.dead
                           /\ q.kind = "save" /\ q.stage = "served" => Holds(q.endpoint, q.by)'
                           /\ q.from \in PushButtons!Sources => buttons'[q.from].awaits # "nothing"
  <2> SUFFICES ASSUME NEW q \in requests'
               PROVE  /\ q.kind = "delete" => q.endpoint \in browser'.dead
                      /\ q.kind = "save" /\ q.stage = "served" => Holds(q.endpoint, q.by)'
                      /\ q.from \in PushButtons!Sources => buttons'[q.from].awaits # "nothing"
    OBVIOUS
  <2>1. CASE q \in requests
    <3>1. q.endpoint \in PushButtons!Issued /\ q.by \in Owners
      BY <1>1, <2>1 DEF PushButtons!Requests
    <3>2. browser.dead \subseteq browser'.dead
      BY DeadStay
    <3> QED
      BY <1>2, <1>3, <2>1, <3>1, <3>2, HoldsStep DEF RequestsInv
  <2>2. CASE q = n
    BY <1>3, <2>2
  <2> QED
    BY <2>1, <2>2
<1>5. \A p, q \in requests' : p.from \in PushButtons!Sources /\ q.from = p.from => p = q
  BY <1>2 DEF RequestsInv
<1>a. \A q \in requests' : q.from \in {"sync", "unloaded"} => q.stage = "sent"
  BY DEF RequestsInv, PushButtons!Sources
<1>b. session' # Nobody
  BY <1>2
<1>6. RequestsInv'
  BY <1>a, <1>b, <1>4, <1>5 DEF RequestsInv
<1>7. ReportInv'
  <2>1. said'.word = "nothing" /\ said'.unsure = PushButtons!Crossed(c)
    BY AttemptType
  <2>2. ~said'.unsure => Live' = {n}
    BY <1>2, <2>1, Uncrossed DEF Live
  <2> QED
    BY <2>1, <2>2 DEF ReportInv
<1> QED
  BY <1>6, <1>7

LEMMA ReportStep ==
    ASSUME PushButtons!PushAssumption, PushButtons!TypeOK, RequestsInv, ReportInv, PushButtons!Next
    PROVE  RequestsInv' /\ ReportInv'
<1>0. \A r \in requests : r \in PushButtons!Requests
  BY DEF PushButtons!TypeOK
<1>a. ASSUME UNCHANGED <<browser, store>>, NEW e, NEW m PROVE Holds(e, m)' = Holds(e, m)
  BY <1>a DEF Holds
<1>1. ASSUME NEW m \in Owners, PushButtons!LogIn(m) PROVE RequestsInv' /\ ReportInv'
  <2>1. session = Nobody /\ session' # Nobody /\ UNCHANGED <<browser, requests, store>>
        /\ said'.word = said.word /\ said'.to = said.to /\ said'.endpoint = said.endpoint /\ said'.unsure = said.unsure
    BY <1>1 DEF PushButtons!LogIn, PushButtons!PushAssumption, PushButtons!TypeOK, PushButtons!Reports
  <2>2. \A r \in requests : r.from = "unloaded"
    BY <2>1 DEF RequestsInv
  <2>3. Live' = {} /\ Live = {}
    BY <2>1, <2>2 DEF Live, PushButtons!Sources
  <2>4. RequestsInv'
    BY <1>a, <2>1, <2>2 DEF RequestsInv, PushButtons!Sources
  <2> QED
    BY <1>a, <2>1, <2>3, <2>4 DEF ReportInv
<1>2. CASE PushButtons!LogOut
  <2>1. UNCHANGED <<browser, store, said>>
    BY <1>2 DEF PushButtons!LogOut
  <2>2. \A q \in requests' : /\ \E r \in requests : q = [r EXCEPT !.from = "unloaded"]
                             /\ q.stage = "sent" \/ q.from # "unloaded"
    BY <1>2 DEF PushButtons!LogOut, PushButtons!Heard
  <2>3. \A q \in requests' : /\ q.from = "unloaded" /\ q.stage = "sent"
                             /\ \E r \in requests : q.kind = r.kind /\ q.endpoint = r.endpoint /\ q.by = r.by /\ q.stage = r.stage
    BY <1>0, <2>2 DEF PushButtons!Requests
  <2>4. session' = Nobody => \A c \in PushButtons!Sources : buttons'[c].hook = "unmounted"
    BY <1>2 DEF PushButtons!LogOut, PushButtons!Unmounted
  <2>5. RequestsInv'
    BY <1>a, <2>1, <2>3, <2>4 DEF RequestsInv, PushButtons!Sources
  <2>6. Live' = {}
    BY <2>3 DEF Live, PushButtons!Sources
  <2> QED
    BY <1>a, <2>1, <2>5, <2>6 DEF ReportInv
<1>3. CASE PushButtons!OpenDrawer
  <2>1. UNCHANGED <<browser, store, said, session>> /\ session # Nobody
    BY <1>3 DEF PushButtons!OpenDrawer
  <2>2. \A q \in requests' : \E r \in requests : q = [r EXCEPT !.from = IF @ = "drawer" THEN "closed" ELSE @]
    BY <1>3 DEF PushButtons!OpenDrawer
  <2>3. \A r \in requests : r.from = "drawer" \/ [r EXCEPT !.from = IF @ = "drawer" THEN "closed" ELSE @] = r
    BY <1>0 DEF PushButtons!Requests
  <2>4. \A q \in requests' : /\ q.from # "drawer"
                             /\ q \in requests \/ \E r \in requests : r.from = "drawer" /\ q = [r EXCEPT !.from = "closed"]
    BY <1>0, <2>2, <2>3 DEF PushButtons!Requests
  <2>5. ASSUME NEW r \in requests, NEW q, q = [r EXCEPT !.from = "closed"]
        PROVE  q.kind = r.kind /\ q.endpoint = r.endpoint /\ q.by = r.by /\ q.stage = r.stage /\ q.from = "closed"
    BY <1>0, <2>5 DEF PushButtons!Requests
  <2>6. buttons'["header"] = buttons["header"]
    BY <1>3 DEF PushButtons!OpenDrawer, PushButtons!TypeOK, PushButtons!Sources
  <2>a. \A q \in requests' : \E r \in requests :
          /\ q.kind = r.kind /\ q.endpoint = r.endpoint /\ q.by = r.by /\ q.stage = r.stage
          /\ q.from # "drawer" /\ (q = r \/ q.from = "closed")
    BY <2>4, <2>5
  <2>b. \A q \in requests' :
          /\ q.from \in {"sync", "unloaded"} => q.stage = "sent"
          /\ q.kind = "delete" => q.endpoint \in browser'.dead
          /\ q.kind = "save" /\ q.stage = "served" => Holds(q.endpoint, q.by)'
          /\ q.from \in PushButtons!Sources => q.from = "header" /\ q \in requests
    BY <1>a, <2>1, <2>a DEF RequestsInv, PushButtons!Sources
  <2>c. \A q \in requests : q.from = "header" => buttons'[q.from].awaits # "nothing"
    BY <2>6 DEF RequestsInv, PushButtons!Sources
  <2>d. \A p, q \in requests' : p.from \in PushButtons!Sources /\ q.from = p.from => p = q
    BY <2>b DEF RequestsInv
  <2>e. session' # Nobody
    BY <2>1
  <2>7. RequestsInv'
    BY <2>b, <2>c, <2>d, <2>e DEF RequestsInv
  <2>8. \A q \in Live' : \E r \in Live : q.kind = r.kind /\ q.endpoint = r.endpoint
    BY <2>4, <2>5 DEF Live, PushButtons!Sources
  <2>9. ASSUME ~said.unsure PROVE \A p, q \in Live' : p = q
    BY <1>0, <2>2, <2>9 DEF ReportInv, Live, PushButtons!Sources, PushButtons!Requests
  <2> QED
    BY <1>a, <2>1, <2>7, <2>8, <2>9 DEF ReportInv
<1>4. ASSUME NEW c \in PushButtons!Sources, PushButtons!Sync(c) PROVE RequestsInv' /\ ReportInv'
  <2>1. UNCHANGED <<browser, store, said, session>> /\ session \in Owners /\ session # Nobody
    BY <1>4, ButtonNeedsMember DEF PushButtons!Sync, PushButtons!PushAssumption
  <2>2. \A d \in PushButtons!Sources : buttons'[d].awaits = buttons[d].awaits
    BY <1>4 DEF PushButtons!Sync, PushButtons!TypeOK, PushButtons!Buttons
  <2>3. \A q \in requests' : q \in requests \/ (q.from = "sync" /\ q.kind = "save" /\ q.stage = "sent")
    BY <1>4, <2>1, RequestType DEF PushButtons!Sync, PushButtons!TypeOK, PushButtons!Browsers
  <2>4. RequestsInv'
    BY <1>a, <2>1, <2>2, <2>3 DEF RequestsInv, PushButtons!Sources
  <2>5. Live' \subseteq Live
    BY <2>3 DEF Live, PushButtons!Sources
  <2> QED
    BY <1>a, <2>1, <2>4, <2>5 DEF ReportInv
<1>5. ASSUME NEW c \in PushButtons!Sources, PushButtons!TurnOn(c) PROVE RequestsInv' /\ ReportInv'
  <2> DEFINE e == IF browser.sub # PushButtons!NoSub THEN browser.sub ELSE browser.given + 1
             n == PushButtons!Request("save", e, c)
  <2>1. PushButtons!MayAttempt(c) /\ session \in Owners /\ UNCHANGED session
    BY <1>5 DEF PushButtons!TurnOn, PushButtons!MayAttempt, PushButtons!TypeOK
  <2>2. e \in PushButtons!Issued
    BY <1>5 DEF PushButtons!TurnOn, PushButtons!TypeOK, PushButtons!Browsers, PushButtons!Issued, PushButtons!PushAssumption
  <2>3. n \in PushButtons!Requests /\ n.kind = "save" /\ n.endpoint = e /\ n.from = c /\ n.stage = "sent"
    BY <2>1, <2>2, RequestType
  <2>4. requests' = requests \cup {n} /\ browser'.sub = e
    BY <1>5 DEF PushButtons!TurnOn, PushButtons!TypeOK, PushButtons!Browsers
  <2>5. buttons' = [buttons EXCEPT ![c].awaits = "save"] /\ said' = PushButtons!Attempting(c)
    BY <1>5 DEF PushButtons!TurnOn
  <2> HIDE DEF n, e
  <2> QED
    BY <2>1, <2>3, <2>4, <2>5, Attempted
<1>6. ASSUME NEW c \in PushButtons!Sources, PushButtons!TurnOff(c) PROVE RequestsInv' /\ ReportInv'
  <2> DEFINE n == PushButtons!Request("delete", browser.sub, c)
  <2>1. PushButtons!MayAttempt(c) /\ session \in Owners /\ UNCHANGED session /\ browser.sub \in PushButtons!Issued
    BY <1>6 DEF PushButtons!TurnOff, PushButtons!MayAttempt, PushButtons!TypeOK, PushButtons!Browsers
  <2>2. n \in PushButtons!Requests /\ n.kind = "delete" /\ n.endpoint = browser.sub /\ n.from = c /\ n.stage = "sent"
    BY <2>1, RequestType
  <2>3. requests' = requests \cup {n} /\ browser'.sub = PushButtons!NoSub /\ browser.sub \in browser'.dead
    BY <1>6 DEF PushButtons!TurnOff, PushButtons!Unsubscribed, PushButtons!TypeOK, PushButtons!Browsers
  <2>4. buttons' = [buttons EXCEPT ![c].awaits = "delete"] /\ said' = PushButtons!Attempting(c)
    BY <1>6 DEF PushButtons!TurnOff
  <2> HIDE DEF n
  <2> QED
    BY <2>1, <2>2, <2>3, <2>4, Attempted
<1>7. ASSUME NEW c \in PushButtons!Sources, PushButtons!TurnOffUnheard(c) PROVE RequestsInv' /\ ReportInv'
  <2>1. UNCHANGED <<session, browser, requests, store>> /\ PushButtons!MayAttempt(c)
    BY <1>7 DEF PushButtons!TurnOffUnheard
  <2>2. \A d \in PushButtons!Sources : buttons'[d].awaits = buttons[d].awaits /\ buttons'[d].hook = buttons[d].hook
    BY <1>7 DEF PushButtons!TurnOffUnheard, PushButtons!TypeOK, PushButtons!Buttons
  <2>3. RequestsInv'
    BY <1>a, <2>1, <2>2 DEF RequestsInv
  <2>4. said'.word = "off" /\ (~said'.unsure => ~PushButtons!Crossed(c) /\ browser.sub = PushButtons!NoSub)
    BY <1>7, <2>1, AttemptType DEF PushButtons!TurnOffUnheard, PushButtons!Reports
  <2>5. ~said'.unsure => Live' = {}
    BY <2>1, <2>4, Uncrossed DEF PushButtons!MayAttempt, Live
  <2> QED
    BY <2>1, <2>3, <2>4, <2>5 DEF ReportInv
<1>8. ASSUME NEW r \in requests, PushButtons!Answered(r) PROVE RequestsInv' /\ ReportInv'
  <2>1. UNCHANGED <<session, browser, store>> /\ requests' = requests \ {r} /\ r.stage \in {"served", "refused"}
    BY <1>8 DEF PushButtons!Answered
  <2>2. \A c \in PushButtons!Sources : buttons'[c].hook = buttons[c].hook /\ (c # r.from => buttons'[c].awaits = buttons[c].awaits)
    BY <1>8 DEF PushButtons!Answered, PushButtons!TypeOK, PushButtons!Buttons
  <2>3. \A q \in requests' : q.from \in PushButtons!Sources => q.from # r.from
    BY <2>1 DEF RequestsInv
  <2>4. RequestsInv'
    BY <1>a, <2>1, <2>2, <2>3 DEF RequestsInv
  <2>5. r \in PushButtons!Requests
    BY <1>0
  <2>6. ReportInv'
    <3>1. CASE r.stage = "refused"
      <4>1. said' = said /\ Live' \subseteq Live
        BY <1>8, <2>1, <3>1 DEF PushButtons!Answered, Live
      <4> QED
        BY <1>a, <2>1, <4>1 DEF ReportInv
    <3>2. CASE r.stage = "served"
      <4>1. /\ said'.unsure = said.unsure /\ said'.word = (IF r.kind = "save" THEN "on" ELSE "off")
            /\ said'.endpoint = r.endpoint /\ said'.to = r.by
        BY <1>8, <3>2 DEF PushButtons!Answered, PushButtons!TypeOK, PushButtons!Reports
      <4>2. r \in Live
        BY <2>5, <3>2 DEF Live, PushButtons!Requests, RequestsInv
      <4>3. ~said.unsure => Live' = {}
        BY <2>1, <4>2 DEF ReportInv, Live
      <4>4. ~said.unsure => /\ r.kind = "save" => browser.sub = r.endpoint
                            /\ r.kind = "delete" => browser.sub = PushButtons!NoSub
        BY <4>2 DEF ReportInv
      <4>5. r.kind = "save" => Holds(r.endpoint, r.by)
        BY <3>2 DEF RequestsInv
      <4> QED
        BY <1>a, <2>1, <2>5, <4>1, <4>3, <4>4, <4>5 DEF ReportInv, PushButtons!Requests
    <3> QED
      BY <2>1, <3>1, <3>2
  <2> QED
    BY <2>4, <2>6
<1>9. ASSUME NEW r \in requests, PushButtons!Serve(r) PROVE RequestsInv' /\ ReportInv'
  <2>0. PICK s : s = [r EXCEPT !.stage = IF PushButtons!Permitted(r) THEN "served" ELSE "refused"]
    OBVIOUS
  <2>1. /\ UNCHANGED <<session, browser, buttons, said>>
        /\ requests' = PushButtons!Heard((requests \ {r}) \cup {s})
    BY <1>9, <2>0 DEF PushButtons!Serve
  <2>2. /\ s.kind = r.kind /\ s.endpoint = r.endpoint /\ s.from = r.from /\ s.by = r.by
        /\ s.stage = "served" => PushButtons!Permitted(r)
    BY <1>0, <2>0 DEF PushButtons!Requests
  <2>3. s.kind = "save" /\ s.stage = "served" => Holds(s.endpoint, s.by)'
    <3>1. r.endpoint \in PushButtons!Issued
      BY <1>0 DEF PushButtons!Requests
    <3> QED
      BY <1>9, <2>2, <3>1 DEF PushButtons!Serve, PushButtons!TypeOK, Holds
  <2>4. requests' \subseteq (requests \ {r}) \cup {s}
        /\ \A q \in requests' : q.from \in {"sync", "unloaded"} => q.stage = "sent"
    BY <2>1 DEF PushButtons!Heard
  <2> QED
    BY <2>1, <2>2, <2>3, <2>4, Moved
<1>10. ASSUME NEW r \in requests, PushButtons!RequestFails(r) PROVE RequestsInv' /\ ReportInv'
  <2>0. PICK s : s = [r EXCEPT !.stage = "refused"]
    OBVIOUS
  <2>1. /\ UNCHANGED <<session, browser, buttons, said>>
        /\ requests' = PushButtons!Heard((requests \ {r}) \cup {s})
    BY <1>10, <2>0 DEF PushButtons!RequestFails
  <2>2. s.kind = r.kind /\ s.endpoint = r.endpoint /\ s.from = r.from /\ s.stage = "refused"
    BY <1>0, <2>0 DEF PushButtons!Requests
  <2>3. requests' \subseteq (requests \ {r}) \cup {s}
        /\ \A q \in requests' : q.from \in {"sync", "unloaded"} => q.stage = "sent"
    BY <2>1 DEF PushButtons!Heard
  <2> QED
    BY <2>1, <2>2, <2>3, Moved
<1>11. ASSUME UNCHANGED <<session, buttons, requests, said>>, browser'.sub = browser.sub,
              browser.dead \subseteq browser'.dead
       PROVE  RequestsInv' /\ ReportInv'
  <2>1. RequestsInv'
    BY <1>0, <1>11, HoldsStep DEF RequestsInv, PushButtons!Requests
  <2>2. said.word = "on" /\ ~said.unsure =>
          said.endpoint \in PushButtons!Issued /\ said.to \in Owners /\ Holds(said.endpoint, said.to)
    BY DEF ReportInv
  <2>3. said.word = "on" /\ ~said.unsure => Holds(said.endpoint, said.to)'
    BY <1>11, <2>2, HoldsStep
  <2> QED
    BY <1>11, <2>1, <2>2, <2>3 DEF ReportInv, Live
<1>12. CASE PushButtons!SendBroadcast \/ PushButtons!LogResults \/ PushButtons!BroadcastFails \/ PushButtons!RemoveGone
            \/ \E e \in PushButtons!Issued : PushButtons!CallEndpoint(e)
  BY <1>11, <1>12 DEF PushButtons!SendBroadcast, PushButtons!LogResults, PushButtons!BroadcastFails,
     PushButtons!RemoveGone, PushButtons!CallEndpoint
<1>13. CASE PushButtons!Expire
  BY <1>11, <1>13 DEF PushButtons!Expire, PushButtons!TypeOK, PushButtons!Browsers
<1> QED
  BY <1>1, <1>2, <1>3, <1>4, <1>5, <1>6, <1>7, <1>8, <1>9, <1>10, <1>12, <1>13 DEF PushButtons!Next

\* The inductive invariant of the push buttons, the rows and the broadcast.
THEOREM PushInvariant == PushButtons!Spec => []PushInv
<1>0. PushButtons!PushAssumption
  BY AdminAssumption
<1>1. PushButtons!Init => PushInv
  BY <1>0, PushInit
<1>2. PushInv /\ [PushButtons!Next]_PushButtons!pushVars => PushInv'
  <2>1. ASSUME PushInv, PushButtons!Next PROVE PushInv'
    BY <1>0, <2>1, PushTypeStep, ReportStep DEF PushInv
  <2>2. ASSUME PushInv, UNCHANGED PushButtons!pushVars PROVE PushInv'
    BY <2>2 DEF PushInv, RequestsInv, ReportInv, Live, Holds, PushButtons!TypeOK, PushButtons!pushVars
  <2> QED
    BY <2>1, <2>2
<1> QED
  BY <1>1, <1>2, PTL DEF PushButtons!Spec

\* Unless attempts crossed, what a button reported to a member last is true.
THEOREM ToldIsTrueHolds == Spec => []ToldIsTrue
<1>1. PushInv => ToldIsTrue
  BY DEF PushInv, ReportInv, Holds, ToldIsTrue, PushButtons!ToldIsTrue
<1> QED
  BY <1>1, PartsBehave, PushInvariant, PTL

-----------------------------------------------------------------------------
(* The whole *)

\* Every variable of the administrators' half keeps its type.
THEOREM TypeCorrect == Spec => []TypeOK
<1>1. Init => screen \in Screens
  BY DEF Init
<1>2. screen \in Screens /\ [Next]_vars => (screen \in Screens)'
  BY DEF Next, vars
<1>3. Spec => [](screen \in Screens)
  BY <1>1, <1>2, PTL DEF Spec
<1>4. screen \in Screens /\ EditorInv /\ ListsInv /\ MembersInv /\ TogglesInv /\ PushInv => TypeOK
  BY DEF TypeOK, EditorInv, ListsInv, MembersInv, TogglesInv, PushInv
<1> QED
  BY <1>3, <1>4, PartsBehave, EditorInvariant, ListsInvariant, MembersInvariant, TogglesInvariant, PushInvariant, PTL
=============================================================================

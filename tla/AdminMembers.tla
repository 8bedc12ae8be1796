--------------------------- MODULE AdminMembers ---------------------------
(***************************************************************************)
(* The administrators' member list and member page, followed for one       *)
(* member: the drafts of roles, the profile form and its diff, the two     *)
(* queries they are seeded from, and the direct creation of a member.      *)
(* A field's value is the number of the write that chose it, 0 if empty.   *)
(***************************************************************************)
EXTENDS Integers, FiniteSets

CONSTANTS Perms,       \* ADMIN_PERMISSION_TOKENS
          Fields,      \* INFO_FIELDS
          Required,    \* REQUIRED_FIELDS
          MaxValues,   \* bound: values of fields chosen
          MaxOps,      \* bound: requests sent by this administrator
          MaxOthers    \* bound: writes by another administrator

MembersAssumption ==
  /\ Required \subseteq Fields /\ {"admin", "super_admin"} \cap Perms = {}
  /\ MaxValues \in Nat \ {0} /\ MaxOps \in Nat /\ MaxOthers \in Nat

VARIABLES
  member,    \* the row at the server
  query,     \* the query of the list or of the member page
  desk,      \* the page shown and its drafts; history: the fields edited since the last seed
  ops,       \* the mutations of roles and of the profile
  creation,  \* the mutation that creates a member, and the card with the activation token
  budget

memberVars == <<member, query, desk, ops, creation, budget>>

AllRoles == Perms \cup {"admin", "super_admin"}  \* "member" is always held
NoMember == [roles |-> {}, fields |-> [f \in Fields |-> -1]]
Idle     == [status |-> "idle"]

\* A super administrator holds everything; without "admin" no permission is held.
normalizeRoles(roles) ==
  IF "super_admin" \in roles THEN AllRoles
  ELSE IF "admin" \in roles THEN roles ELSE roles \ Perms

\* Mutant: a box changes its own role only.
applyRoleHierarchy_Plain(prev, role, checked) ==
  IF checked THEN prev \cup {role} ELSE prev \ {role}

applyRoleHierarchy(prev, role, checked) ==
  LET next == IF checked THEN prev \cup {role} ELSE prev \ {role}
  IN  normalizeRoles(IF role = "admin" /\ ~checked THEN next \ Perms
                     ELSE IF role = "super_admin" /\ checked THEN AllRoles ELSE next)

\* The boxes of RoleChecklist that can be clicked.
Clickable(draft, role) ==
  role \in Perms => "admin" \in draft /\ "super_admin" \notin draft

Copy    == query.data
Loaded  == Copy # NoMember /\ ~query.failed
isSameRoleSet(left, right) == normalizeRoles(left) = normalizeRoles(right)
Dirty   == Loaded /\ desk.seeded /\ ~isSameRoleSet(desk.draft, Copy.roles)

hasRequiredFieldEmpty(form) == \E f \in Required : form[f] = 0

\* Mutant: the whole form is sent.
buildProfileDiff_Whole(form, copy) == form

\* Only the fields that differ from the copy are sent.
buildProfileDiff(form, copy) ==
  LET changed == {f \in Fields : form[f] # copy.fields[f]}
  IN  [f \in changed |-> form[f]]

\* The page once an answer is shown: the list seeds the draft of a row it has none
\* for; the member page seeds its draft and its form again whenever the copy changes.
Seeded(d, old, row) ==
  IF row = old \/ (d.page = "list" /\ d.seeded) THEN d
  ELSE [d EXCEPT !.seeded = TRUE, !.draft = row.roles, !.form = row.fields, !.edited = {}]

Mounted(page) == [page |-> page, seeded |-> FALSE, draft |-> {},
                  editing |-> FALSE, form |-> [f \in Fields |-> 0], edited |-> {}]

----------------------------------------------------------------------------
Init ==
  /\ member \in [roles : {{}, {"admin"}}, fields : {[f \in Fields |-> 1]}]
  /\ query = [data |-> NoMember, asked |-> FALSE, failed |-> FALSE]
  /\ \E page \in {"list", "detail"} : desk = Mounted(page)
  /\ ops = [roles |-> Idle, profile |-> Idle]
  /\ creation = [status |-> "idle", card |-> FALSE]
  /\ budget = [values |-> 1, ops |-> MaxOps, others |-> MaxOthers]

\* A mount of a stale query, a reconnection.
Refetch ==
  /\ ~query.asked /\ (Copy # member \/ query.failed)
  /\ query' = [query EXCEPT !.asked = TRUE]
  /\ UNCHANGED <<member, desk, ops, creation, budget>>

Fetched ==
  /\ query.asked
  /\ query' = [data |-> member, asked |-> FALSE, failed |-> FALSE]
  /\ desk' = Seeded(desk, Copy, member)
  /\ UNCHANGED <<member, ops, creation, budget>>

\* An error takes the place of the page, whatever it showed.  The drafts of roles stay;
\* the profile form is unmounted, and its next mount is seeded from the copy again.
\* (Not followed: a fetch of the member page that fails during a save of the profile.)
FetchFailed ==
  /\ query.asked /\ (desk.page = "detail" => ops.profile = Idle)
  /\ query' = [query EXCEPT !.asked = FALSE, !.failed = TRUE]
  /\ desk' = [desk EXCEPT !.editing = FALSE, !.edited = {},
                !.form = IF desk.seeded THEN Copy.fields ELSE @]
  /\ UNCHANGED <<member, ops, creation, budget>>

\* The page is left and opened again: its drafts are lost, its cached copy is not.
Reopen ==
  /\ ops = [roles |-> Idle, profile |-> Idle] /\ creation.status = "idle" /\ Loaded
  /\ desk' = Seeded(Mounted(desk.page), NoMember, Copy)
  /\ creation' = [creation EXCEPT !.card = FALSE]
  /\ UNCHANGED <<member, query, ops, budget>>

ToggleRole(role) ==
  /\ Loaded /\ ops.roles = Idle /\ Clickable(desk.draft, role)
  /\ desk' = [desk EXCEPT !.draft = applyRoleHierarchy(normalizeRoles(@), role, role \notin @)]
  /\ UNCHANGED <<member, query, ops, creation, budget>>

SaveRoles ==
  /\ Dirty /\ ops.roles = Idle /\ budget.ops > 0
  /\ ops' = [ops EXCEPT !.roles = [status |-> "sent", roles |-> desk.draft]]
  /\ budget' = [budget EXCEPT !.ops = @ - 1]
  /\ UNCHANGED <<member, query, desk, creation>>

RolesServed ==
  /\ ops.roles.status = "sent"
  /\ member' = [member EXCEPT !.roles = ops.roles.roles]
  /\ ops' = [ops EXCEPT !.roles = [status |-> "served", roles |-> ops.roles.roles]]
  /\ UNCHANGED <<query, desk, creation, budget>>

\* The draft becomes what the server answered, and the copies are asked for again.
RolesAnswered ==
  /\ ops.roles.status = "served"
  /\ desk' = [desk EXCEPT !.draft = ops.roles.roles]
  /\ query' = [query EXCEPT !.asked = TRUE]
  /\ ops' = [ops EXCEPT !.roles = Idle]
  /\ UNCHANGED <<member, creation, budget>>

RolesFailed ==
  /\ ops.roles # Idle
  /\ ops' = [ops EXCEPT !.roles = Idle]
  /\ UNCHANGED <<member, query, desk, creation, budget>>

\* "Cancel" leaves the edited fields in the form.
ToggleEditing ==
  /\ desk.page = "detail" /\ Loaded
  /\ desk' = [desk EXCEPT !.editing = ~@]
  /\ UNCHANGED <<member, query, ops, creation, budget>>

EditField(f) ==
  /\ desk.editing
  /\ \/ /\ budget.values < MaxValues
        /\ desk' = [desk EXCEPT !.form[f] = budget.values + 1, !.edited = @ \cup {f}]
        /\ budget' = [budget EXCEPT !.values = @ + 1]
     \/ desk' = [desk EXCEPT !.form[f] = 0, !.edited = @ \cup {f}] /\ budget' = budget
  /\ UNCHANGED <<member, query, ops, creation>>

SaveProfile ==
  /\ desk.editing /\ ops.profile = Idle /\ budget.ops > 0
  /\ ~hasRequiredFieldEmpty(desk.form)
  /\ LET diff == buildProfileDiff(desk.form, Copy)
     IN  /\ DOMAIN diff # {}
         /\ ops' = [ops EXCEPT !.profile = [status |-> "sent", diff |-> diff, edited |-> desk.edited]]
  /\ budget' = [budget EXCEPT !.ops = @ - 1]
  /\ UNCHANGED <<member, query, desk, creation>>

ProfileServed ==
  /\ ops.profile.status = "sent"
  /\ member' = [member EXCEPT !.fields = [f \in Fields |->
                  IF f \in DOMAIN ops.profile.diff THEN ops.profile.diff[f] ELSE @[f]]]
  /\ ops' = [ops EXCEPT !.profile = [status |-> "served"]]
  /\ UNCHANGED <<query, desk, creation, budget>>

ProfileAnswered ==
  /\ ops.profile.status = "served"
  /\ desk' = [desk EXCEPT !.editing = FALSE]
  /\ query' = [query EXCEPT !.asked = TRUE]
  /\ ops' = [ops EXCEPT !.profile = Idle]
  /\ UNCHANGED <<member, creation, budget>>

ProfileFailed ==
  /\ ops.profile # Idle
  /\ ops' = [ops EXCEPT !.profile = Idle]
  /\ UNCHANGED <<member, query, desk, creation, budget>>

\* The creation form, on the list, is locked while a creation is pending, and emptied
\* when it succeeds; the card shows the activation token of the last one.
SubmitCreation ==
  /\ desk.page = "list" /\ creation.status = "idle" /\ budget.ops > 0
  /\ creation' = [creation EXCEPT !.status = "sent", !.card = FALSE]
  /\ budget' = [budget EXCEPT !.ops = @ - 1]
  /\ UNCHANGED <<member, query, desk, ops>>

CreationAnswered ==
  /\ creation.status = "sent"
  /\ \/ /\ creation' = [status |-> "idle", card |-> TRUE]
        /\ query' = [query EXCEPT !.asked = TRUE]
     \/ creation' = [creation EXCEPT !.status = "idle"] /\ query' = query
  /\ UNCHANGED <<member, desk, ops, budget>>

OtherWrites ==
  /\ budget.others > 0
  /\ \/ /\ \E roles \in {{}, {"admin"}} : member' = [member EXCEPT !.roles = roles]
        /\ budget' = [budget EXCEPT !.others = @ - 1]
     \/ /\ budget.values < MaxValues
        /\ \E f \in Fields : member' = [member EXCEPT !.fields[f] = budget.values + 1]
        /\ budget' = [budget EXCEPT !.others = @ - 1, !.values = @ + 1]
  /\ UNCHANGED <<query, desk, ops, creation>>

Next ==
  \/ Refetch \/ Fetched \/ FetchFailed \/ Reopen
  \/ \E r \in AllRoles : ToggleRole(r)
  \/ SaveRoles \/ RolesServed \/ RolesAnswered \/ RolesFailed
  \/ ToggleEditing \/ SaveProfile \/ ProfileServed \/ ProfileAnswered \/ ProfileFailed
  \/ \E f \in Fields : EditField(f)
  \/ SubmitCreation \/ CreationAnswered \/ OtherWrites

Spec == Init /\ [][Next]_memberVars

----------------------------------------------------------------------------
Values == -1..MaxValues
People == [roles : SUBSET AllRoles, fields : [Fields -> Values]]
Diffs  == UNION {[S -> Values] : S \in SUBSET Fields}

Queries == [data : People, asked : BOOLEAN, failed : BOOLEAN]
Desks   == [page : {"list", "detail"}, seeded : BOOLEAN, draft : SUBSET AllRoles,
            editing : BOOLEAN, form : [Fields -> Values], edited : SUBSET Fields]
RoleOps == {Idle} \cup [status : {"sent", "served"}, roles : SUBSET AllRoles]
ProfileOps ==
  {Idle} \cup [status : {"sent"}, diff : Diffs, edited : SUBSET Fields] \cup [status : {"served"}]

Creations == [status : {"idle", "sent"}, card : BOOLEAN]
Budgets   == [values : 1..MaxValues, ops : 0..MaxOps, others : 0..MaxOthers]

TypeOK ==
  /\ member \in People /\ query \in Queries /\ desk \in Desks
  /\ ops \in [roles : RoleOps, profile : ProfileOps]
  /\ creation \in Creations /\ budget \in Budgets

\* However boxes are clicked, in drafts however old, the roles that reach the server
\* respect the hierarchy: permissions only under "admin", everything under "super_admin".
RolesFollowHierarchy == normalizeRoles(member.roles) = member.roles

\* Saving the profile changes no field but those this administrator edited, whatever
\* others wrote to the member since the page was opened.
OnlyEditedFieldsWritten ==
  [][\A f \in Fields :
       ProfileServed /\ member'.fields[f] # member.fields[f] => f \in ops.profile.edited]_memberVars
============================================================================

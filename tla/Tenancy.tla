------------------------------- MODULE Tenancy -------------------------------
(***************************************************************************)
(* Organizations with their memberships, projects and support grants, and  *)
(* the requests that read and change them.  A request is one transaction   *)
(* at READ COMMITTED: it resolves the caller's role once, when it starts,  *)
(* reads the rows it needs, and commits everything or nothing at its end.  *)
(* Between those steps other requests commit.  What a request has read is  *)
(* kept in req[s]; the tables are what is committed.                       *)
(*                                                                         *)
(* The verdict on the scan a one-step scan asks for belongs to ScanJobs    *)
(* and Domains; here it only decides whether the transaction commits.      *)
(***************************************************************************)
EXTENDS Naturals, FiniteSets

CONSTANTS
    User,           \* accounts
    PlatformAdmin,  \* accounts with is_platform_admin
    Runner,         \* the account the benchmark workspace belongs to
    Org, Project, Grant,    \* rows that can ever exist: bounds of the model
    MaxRows,        \* bound: membership rows ever inserted
    MaxRequests,    \* bound: requests ever served
    Name,           \* names organizations are created with, as slugify sees them
    QuickName,      \* WORKSPACE_NAME
    LabName,        \* the name whose slug is BENCHMARK_ORG_SLUG
    GivenRole,      \* roles the requests of the model ask for
    Slot,           \* requests served at a time
    Founder, Home   \* the owner of an organization that exists at the start, and it

ASSUME TenancyAssumption ==
    /\ PlatformAdmin \subseteq User
    /\ {Founder, Runner} \subseteq User
    /\ Home \in Org
    /\ {QuickName, LabName} \subseteq Name
    /\ MaxRows \in Nat \ {0} /\ MaxRequests \in Nat

\* A table only ever holds finitely many rows.
ASSUME FiniteAssumption == IsFiniteSet(Org) /\ IsFiniteSet(Grant)

VARIABLES orgs, members, rows, projects, grants, req, asked
vars == <<orgs, members, rows, projects, grants, req, asked>>

(* OrganizationRole and ROLE_HIERARCHY *)
Rank == [refused |-> 0, viewer |-> 1, developer |-> 2, security_analyst |-> 3,
         admin |-> 4, owner |-> 5]
Role == DOMAIN Rank \ {"refused"}
AtLeast(role, minimum) == Rank[role] >= Rank[minimum]

ASSUME RoleAssumption == GivenRole \subseteq Role

Slug == Name \X (1 .. Cardinality(Org) + 1)
LabSlug == <<LabName, 1>>

Idle == [pc |-> "idle"]

Caller == User \ {Runner}     \* nobody logs in to the runner's account

-----------------------------------------------------------------------------
(* The tables at the start: the founder's organization and nothing else.   *)

NoOrg == [made |-> FALSE, owner |-> Founder, slug |-> LabSlug, active |-> FALSE,
          managed |-> FALSE, system |-> FALSE, quick |-> FALSE, saw |-> {}]
\* lab: its name is BENCHMARK_PROJECT_NAME
NoProject == [made |-> FALSE, org |-> Home, active |-> FALSE, staging |-> FALSE, lab |-> FALSE]
NoGrant == [made |-> FALSE, org |-> Home, user |-> Founder, revoked |-> FALSE,
            expired |-> FALSE, saw |-> {}]

OwnerRow(id, o, u) == [id |-> id, org |-> o, user |-> u, role |-> "owner"]

Init ==
    /\ \E n \in Name \ {LabName} :
         orgs = [o \in Org |->
                   IF o = Home THEN [NoOrg EXCEPT !.made = TRUE, !.active = TRUE,
                                                  !.slug = <<n, 1>>]
                   ELSE NoOrg]
    /\ members = {OwnerRow(0, Home, Founder)}
    /\ rows = 1
    /\ projects = [p \in Project |-> NoProject]
    /\ grants = [g \in Grant |-> NoGrant]
    /\ req = [s \in Slot |-> Idle]
    /\ asked = 0

-----------------------------------------------------------------------------
(* What a request reads.                                                   *)

RowsOf(u, o) == {m \in members : m.org = o /\ m.user = u}

Active(g) == grants[g].made /\ ~grants[g].revoked /\ ~grants[g].expired
ActiveGrants(o, u) == {g \in Grant : Active(g) /\ grants[g].org = o /\ grants[g].user = u}

Open(o) == orgs[o].made /\ orgs[o].active /\ ~orgs[o].system

(* get_organization_membership: a membership row decides; without one a    *)
(* platform admin with an active grant reads as a viewer.                  *)
(* scalar_one_or_none raises on two grants, which refuses the request.     *)
MembershipRole(u, o) ==
    IF Open(o) /\ RowsOf(u, o) # {}
    THEN (CHOOSE m \in RowsOf(u, o) : TRUE).role
    ELSE IF Open(o) /\ u \in PlatformAdmin /\ Cardinality(ActiveGrants(o, u)) = 1
         THEN "viewer"
         ELSE "refused"

(* list_for_user: the organizations the caller's own list shows.           *)
ListForUser(u) ==
    {o \in Org : /\ Open(o)
                 /\ \/ RowsOf(u, o) # {}
                    \/ u \in PlatformAdmin /\ ActiveGrants(o, u) # {}}

(* The organizations a support grant can be issued for.                    *)
GrantTarget(o) == /\ orgs[o].made /\ orgs[o].active
                  /\ ~orgs[o].managed
                  /\ ~orgs[o].system

Taken(slug) == \E o \in Org : orgs[o].made /\ orgs[o].slug = slug

(* _unique_slug: the first suffix no committed organization has.           *)
UniqueSlug(n) ==
    <<n, CHOOSE k \in 1 .. Cardinality(Org) + 1 :
           /\ ~Taken(<<n, k>>)
           /\ \A j \in 1 .. k - 1 : Taken(<<n, j>>)>>

(* require_platform_admin                                                  *)
Operator(u) == u \in PlatformAdmin

Start(s, r) == /\ req[s] = Idle
               /\ asked < MaxRequests
               /\ req' = [req EXCEPT ![s] = r]
               /\ asked' = asked + 1
Proceed(s, r) == req' = [req EXCEPT ![s] = r] /\ UNCHANGED asked
Finish(s) == Proceed(s, Idle)

-----------------------------------------------------------------------------
(* Creating an organization: the slug is read, then the organization and   *)
(* the owner's membership are inserted in one transaction.  A slug that    *)
(* was taken in between breaks the insert and undoes the transaction.      *)

NewOrg == CHOOSE o \in Org : ~orgs[o].made
Room == (\E o \in Org : ~orgs[o].made) /\ rows < MaxRows

InsertOrg(o, r, managed, system) ==
    /\ orgs' = [orgs EXCEPT ![o] =
                  [made |-> TRUE, owner |-> r.user, slug |-> r.slug, active |-> TRUE,
                   managed |-> managed, system |-> system,
                   quick |-> r.pc = "quick", saw |-> r.saw]]
    /\ members' = members \cup {OwnerRow(rows, o, r.user)}
    /\ rows' = rows + 1

AskCreate(s, u, n) ==
    /\ Room
    /\ Start(s, [pc |-> "create", user |-> u, slug |-> UniqueSlug(n),
                 managed |-> FALSE, saw |-> {}])
    /\ UNCHANGED <<orgs, members, rows, projects, grants>>

AskManaged(s, u, n) ==
    /\ Room
    /\ Operator(u)
    /\ Start(s, [pc |-> "create", user |-> u, slug |-> UniqueSlug(n),
                 managed |-> TRUE, saw |-> {}])
    /\ UNCHANGED <<orgs, members, rows, projects, grants>>

Create(s) ==
    /\ req[s].pc = "create"
    /\ ~Taken(req[s].slug)
    /\ Room
    /\ InsertOrg(NewOrg, req[s], req[s].managed, FALSE)
    /\ Finish(s)
    /\ UNCHANGED <<projects, grants>>

(* The projects an organization has, or has had, and how one is added.     *)
ProjectsIn(o, table) == {p \in Project : table[p].made /\ table[p].org = o}

NewProject == CHOOSE p \in Project : ~projects[p].made
InsertProject(o, staging, lab) ==
    /\ \E p \in Project : ~projects[p].made
    /\ projects' = [projects EXCEPT ![NewProject] =
                      [made |-> TRUE, org |-> o, active |-> TRUE, staging |-> staging,
                       lab |-> lab]]

(* ensure_workspace of the benchmark runner: the organization is looked up *)
(* by its slug, whoever it belongs to, and marked as system scope; then    *)
(* its project by name, deleted or not, which is inserted where it lacks   *)
(* one and raises where it has two.  The                                   *)
(* runner's account is created in the same transaction as its organization *)
(* and is unique by e-mail, so the slug decides that race as well.         *)
AskLab(s) ==
    /\ Room
    /\ Start(s, [pc |-> "lab", user |-> Runner, slug |-> LabSlug, saw |-> {}, lacks |-> FALSE,
                 found |-> {o \in Org : orgs[o].made /\ orgs[o].slug = LabSlug}])
    /\ UNCHANGED <<orgs, members, rows, projects, grants>>

LabRead(s) ==
    /\ req[s].pc = "lab"
    /\ LET labs == {p \in UNION {ProjectsIn(o, projects) : o \in req[s].found} :
                     projects[p].lab}
       IN /\ \A p, q \in labs : p = q
          /\ Proceed(s, [req[s] EXCEPT !.pc = "lab_project", !.lacks = (labs = {})])
    /\ UNCHANGED <<orgs, members, rows, projects, grants>>

EnsureLab(s) ==
    /\ req[s].pc = "lab_project"
    /\ \/ /\ req[s].found = {}
          /\ ~Taken(LabSlug)
          /\ Room
          /\ InsertOrg(NewOrg, req[s], FALSE, TRUE)
          /\ InsertProject(NewOrg, TRUE, TRUE)
       \/ \E o \in req[s].found :
          /\ orgs' = [orgs EXCEPT ![o].system = TRUE]
          /\ UNCHANGED <<members, rows>>
          /\ \/ req[s].lacks /\ InsertProject(o, TRUE, TRUE)
             \/ ~req[s].lacks /\ UNCHANGED projects
    /\ Finish(s)
    /\ UNCHANGED grants

-----------------------------------------------------------------------------
(* The one-step scan: the caller's own workspace, else one the caller is a *)
(* member of, else a new one; then a project of it, else a new one.  All   *)
(* of it commits together with the scan.                                   *)

Standing == {o \in Org : orgs[o].made /\ orgs[o].active}

Workspaces(u) ==
    LET owned == {o \in Standing : orgs[o].owner = u}
    IN IF owned # {} THEN owned ELSE {o \in Standing : RowsOf(u, o) # {}}

QuickLook(s, u, deep) ==
    /\ \E org \in IF Workspaces(u) = {} THEN {{}} ELSE {{o} : o \in Workspaces(u)} :
         Start(s, [pc |-> "quick_look", user |-> u, org |-> org, deep |-> deep,
                   saw |-> Standing])
    /\ UNCHANGED <<orgs, members, rows, projects, grants>>

(* list_for_org *)
Projects(o) == {p \in Project : projects[p].made /\ projects[p].active /\ projects[p].org = o}

QuickRead(s) ==
    /\ req[s].pc = "quick_look"
    /\ LET r == req[s]
           fit == {p \in UNION {Projects(o) : o \in r.org} : r.deep => projects[p].staging}
       IN Proceed(s, [pc |-> "quick", user |-> r.user, org |-> r.org, saw |-> r.saw,
                      slug |-> UniqueSlug(QuickName), needs |-> fit = {}])
    /\ UNCHANGED <<orgs, members, rows, projects, grants>>

Quick(s) ==
    /\ req[s].pc = "quick"
    /\ LET r == req[s] IN
       \/ /\ r.org = {}
          /\ ~Taken(r.slug)
          /\ Room
          /\ InsertOrg(NewOrg, r, FALSE, FALSE)
          /\ InsertProject(NewOrg, TRUE, FALSE)
       \/ /\ r.org # {} /\ r.needs
          /\ \E o \in r.org : InsertProject(o, TRUE, FALSE)
          /\ UNCHANGED <<orgs, members, rows>>
       \/ /\ r.org # {} /\ ~r.needs
          /\ UNCHANGED <<orgs, members, rows, projects>>
    /\ Finish(s)
    /\ UNCHANGED grants

-----------------------------------------------------------------------------
(* Requests to an organization's own endpoints.  Authorize resolves the    *)
(* role; what the request then may do depends on that role only.  held is  *)
(* the caller's membership at that moment, for the properties.             *)

Authorize(s, u, o) ==
    /\ MembershipRole(u, o) # "refused"
    /\ Start(s, [pc |-> "open", user |-> u, org |-> o, role |-> MembershipRole(u, o),
                 held |-> IF orgs[o].active /\ ~orgs[o].system
                          THEN {m.role : m \in RowsOf(u, o)} ELSE {}])
    /\ UNCHANGED <<orgs, members, rows, projects, grants>>

RequireRole(s, minimum) == req[s].pc = "open" /\ AtLeast(req[s].role, minimum)

(* The role each group of endpoints asks for                               *)
MayManageMembers(s) == RequireRole(s, "admin")
MayEditProjects(s) == RequireRole(s, "admin")
MayDelete(s) == RequireRole(s, "owner")

(* invite_member: no owner by invitation, nobody twice; the unique key on  *)
(* organization and user decides when two invitations passed the check.    *)
InviteRead(s, u, role) ==
    /\ MayManageMembers(s)
    /\ role # "owner"
    /\ RowsOf(u, req[s].org) = {}
    /\ Proceed(s, [pc |-> "invite", org |-> req[s].org, held |-> req[s].held,
                   row |-> [org |-> req[s].org, user |-> u, role |-> role]])
    /\ UNCHANGED <<orgs, members, rows, projects, grants>>

Keyed(row) == RowsOf(row.user, row.org) # {}

Invite(s) ==
    /\ req[s].pc = "invite"
    /\ rows < MaxRows
    /\ LET row == req[s].row IN
       /\ ~Keyed(row)
       /\ members' = members \cup {[id |-> rows, org |-> row.org, user |-> row.user,
                                    role |-> row.role]}
    /\ rows' = rows + 1
    /\ Finish(s)
    /\ UNCHANGED <<orgs, projects, grants>>

(* update_member_role and remove_member read the row, spare an owner's and *)
(* write it later.  A row removed in between fails the role change, and is *)
(* no obstacle to its removal.                                             *)
MemberReadOfOwner(s, m) ==
    /\ MayManageMembers(s)
    /\ m.org = req[s].org
    /\ Proceed(s, [pc |-> "member", org |-> req[s].org, held |-> req[s].held, row |-> m])
    /\ UNCHANGED <<orgs, members, rows, projects, grants>>

MemberReadAnywhere(s, m) ==
    /\ MayManageMembers(s)
    /\ m.role # "owner"
    /\ Proceed(s, [pc |-> "member", org |-> req[s].org, held |-> req[s].held, row |-> m])
    /\ UNCHANGED <<orgs, members, rows, projects, grants>>

MemberRead(s, m) ==
    /\ MayManageMembers(s)
    /\ m.org = req[s].org
    /\ m.role # "owner"
    /\ Proceed(s, [pc |-> "member", org |-> req[s].org, held |-> req[s].held, row |-> m])
    /\ UNCHANGED <<orgs, members, rows, projects, grants>>

ChangeRole(s, role) ==
    /\ req[s].pc = "member"
    /\ role # "owner"
    /\ role # req[s].row.role    \* else SQLAlchemy has nothing to write
    /\ \E m \in members : m.id = req[s].row.id
    /\ members' = {IF m.id = req[s].row.id THEN [m EXCEPT !.role = role] ELSE m :
                     m \in members}
    /\ Finish(s)
    /\ UNCHANGED <<orgs, rows, projects, grants>>

Remove(s) ==
    /\ req[s].pc = "member"
    /\ members' = {m \in members : m.id # req[s].row.id}
    /\ Finish(s)
    /\ UNCHANGED <<orgs, rows, projects, grants>>

\* A tenant may give a project the benchmark's name
CreateProject(s, staging, lab) ==
    /\ MayEditProjects(s)
    /\ InsertProject(req[s].org, staging, lab)
    /\ Finish(s)
    /\ UNCHANGED <<orgs, members, rows, grants>>

(* ProjectService.get: an active project of that organization              *)
Gettable(s, p) == p \in Projects(req[s].org)

UpdateProject(s, p, staging, lab) ==
    /\ MayEditProjects(s)
    /\ Gettable(s, p)
    /\ projects' = [projects EXCEPT ![p].staging = staging, ![p].lab = lab]
    /\ Finish(s)
    /\ UNCHANGED <<orgs, members, rows, grants>>

DeleteProject(s, p) ==
    /\ MayEditProjects(s)
    /\ Gettable(s, p)
    /\ projects' = [projects EXCEPT ![p].active = FALSE]
    /\ Finish(s)
    /\ UNCHANGED <<orgs, members, rows, grants>>

(* delete: the owner only, and never a managed workspace                   *)
DeleteOrg(s) ==
    /\ MayDelete(s)
    /\ ~orgs[req[s].org].managed
    /\ orgs' = [orgs EXCEPT ![req[s].org].active = FALSE]
    /\ Finish(s)
    /\ UNCHANGED <<members, rows, projects, grants>>

(* A request that only reads, is refused further on, or whose commit fails *)
(* leaves nothing behind: get_db rolls it back.                            *)
Leave(s) ==
    /\ req[s] # Idle
    /\ Finish(s)
    /\ UNCHANGED <<orgs, members, rows, projects, grants>>

-----------------------------------------------------------------------------
(* The platform's endpoints                                                *)

(* create of a support grant: one active grant per organization and admin, *)
(* by a SELECT that no unique key backs.                                   *)
AskGrantUnchecked(s, u, o, to) ==
    /\ Operator(u) /\ to \in PlatformAdmin
    /\ GrantTarget(o)
    /\ Start(s, [pc |-> "grant", org |-> o, to |-> to, saw |-> {g \in Grant : Active(g)}])
    /\ UNCHANGED <<orgs, members, rows, projects, grants>>

AskGrant(s, u, o, to) ==
    /\ Operator(u) /\ to \in PlatformAdmin
    /\ GrantTarget(o)
    /\ ActiveGrants(o, to) = {}
    /\ Start(s, [pc |-> "grant", org |-> o, to |-> to, saw |-> {g \in Grant : Active(g)}])
    /\ UNCHANGED <<orgs, members, rows, projects, grants>>

GiveGrant(s) ==
    /\ req[s].pc = "grant"
    /\ \E g \in Grant : ~grants[g].made
    /\ grants' = [grants EXCEPT ![CHOOSE g \in Grant : ~grants[g].made] =
                    [made |-> TRUE, org |-> req[s].org, user |-> req[s].to,
                     revoked |-> FALSE, expired |-> FALSE, saw |-> req[s].saw]]
    /\ Finish(s)
    /\ UNCHANGED <<orgs, members, rows, projects>>

RevokeGrant(g) ==
    /\ grants[g].made /\ ~grants[g].revoked
    /\ grants' = [grants EXCEPT ![g].revoked = TRUE]
    /\ UNCHANGED <<orgs, members, rows, projects, req, asked>>

(* Time passes expires_at, at most MAX_DURATION_HOURS after the creation.  *)
Expire(g) ==
    /\ grants[g].made /\ ~grants[g].expired
    /\ grants' = [grants EXCEPT ![g].expired = TRUE]
    /\ UNCHANGED <<orgs, members, rows, projects, req, asked>>

(* update_pilot_tenant sets the fields it is sent, is_active among them,   *)
(* of any organization.                                                    *)
UpdatePilot(o, active) ==
    /\ orgs[o].made /\ \E u \in Caller : Operator(u)
    /\ orgs' = [orgs EXCEPT ![o].active = active]
    /\ UNCHANGED <<members, rows, projects, grants, req, asked>>

-----------------------------------------------------------------------------
Request(s) ==
    \/ \E u \in Caller, n \in Name : AskCreate(s, u, n)
    \/ \E u \in Caller, n \in Name : AskManaged(s, u, n)
    \/ Create(s)
    \/ AskLab(s)
    \/ LabRead(s)
    \/ EnsureLab(s)
    \/ \E u \in Caller, deep \in BOOLEAN : QuickLook(s, u, deep)
    \/ QuickRead(s)
    \/ Quick(s)
    \/ \E u \in Caller, o \in Org : Authorize(s, u, o)
    \/ \E u \in User, role \in GivenRole : InviteRead(s, u, role)
    \/ Invite(s)
    \/ \E m \in members : MemberRead(s, m)
    \/ \E role \in GivenRole : ChangeRole(s, role)
    \/ Remove(s)
    \/ \E staging, lab \in BOOLEAN : CreateProject(s, staging, lab)
    \/ \E p \in Project, staging, lab \in BOOLEAN : UpdateProject(s, p, staging, lab)
    \/ \E p \in Project : DeleteProject(s, p)
    \/ DeleteOrg(s)
    \/ Leave(s)
    \/ \E u \in Caller, o \in Org, to \in User : AskGrant(s, u, o, to)
    \/ GiveGrant(s)

Next ==
    \/ \E s \in Slot : Request(s)
    \/ \E g \in Grant : RevokeGrant(g) \/ Expire(g)
    \/ \E o \in Org, active \in BOOLEAN : UpdatePilot(o, active)

Spec == Init /\ [][Next]_vars
-----------------------------------------------------------------------------
(* Properties                                                              *)

Member == [id : 0 .. MaxRows, org : Org, user : User, role : Role]

\* The tables and the requests hold what the code may put there.
TypeOK ==
    /\ orgs \in [Org -> [made : BOOLEAN, owner : User, slug : Slug, active : BOOLEAN,
                         managed : BOOLEAN, system : BOOLEAN, quick : BOOLEAN,
                         saw : SUBSET Org]]
    /\ members \subseteq Member
    /\ rows \in 0 .. MaxRows
    /\ projects \in [Project -> [made : BOOLEAN, org : Org, active : BOOLEAN,
                                 staging : BOOLEAN, lab : BOOLEAN]]
    /\ grants \in [Grant -> [made : BOOLEAN, org : Org, user : User, revoked : BOOLEAN,
                             expired : BOOLEAN, saw : SUBSET Grant]]
    /\ \A s \in Slot : req[s].pc \in {"idle", "create", "lab", "lab_project", "quick_look",
                                     "quick", "open", "invite", "member", "grant"}

\* Every organization has exactly one owner's row, that of its owner_id: invitations,
\* role changes and removals that overlap each other and the organization's deletion
\* never leave it without its owner or with a second one.
OneOwner ==
    \A o \in Org : orgs[o].made =>
        \E m \in members :
            /\ m.org = o /\ m.role = "owner" /\ m.user = orgs[o].owner
            /\ \A n \in members : (n.org = o /\ n.role = "owner") => n = m

\* Nobody is a member of an organization twice, however invitations overlap.
MemberOnce == \A m, n \in members : (m.org = n.org /\ m.user = n.user) => m = n

\* What changes an organization's members and projects, or deactivates it without the
\* platform, is a request to that organization by someone who was its admin or owner
\* when the request began, however many rows were changed since.  A one-step scan only
\* ever adds a project to it, and so does the benchmark's runner, to the organization
\* that has the slug of its own.  Support access and other tenants change nothing.
RowsIn(o, table) == {m \in table : m.org = o}
Deleted(o) == orgs[o].active /\ ~orgs'[o].active /\ req' # req
Changed(o) ==
    \/ RowsIn(o, members) # RowsIn(o, members')
    \/ \E p \in ProjectsIn(o, projects) : projects[p] # projects'[p]
    \/ ProjectsIn(o, projects) # ProjectsIn(o, projects')
    \/ Deleted(o)
ByAdmin(s, o) == /\ req[s].pc \in {"open", "invite", "member"}
                 /\ req[s].org = o
                 /\ req[s].held \cap {"admin", "owner"} # {}
                 /\ Deleted(o) => ("owner" \in req[s].held /\ ~orgs[o].managed)
OnlyAdded(o) == /\ RowsIn(o, members) = RowsIn(o, members')
                /\ \A p \in ProjectsIn(o, projects) : projects[p] = projects'[p]
                /\ ~Deleted(o)
ByQuickScan(s, o) == req[s].pc = "quick" /\ req[s].org = {o} /\ OnlyAdded(o)
ByRunner(s, o) == req[s].pc = "lab_project" /\ orgs[o].slug = LabSlug /\ OnlyAdded(o)
TenantsApart ==
    [][\A o \in Org : (orgs[o].made /\ Changed(o)) =>
           \E s \in Slot :
              req'[s] = Idle /\ (ByAdmin(s, o) \/ ByQuickScan(s, o) \/ ByRunner(s, o))]_vars

\* list_for_user shows what get_organization_membership opens, and nothing else, apart
\* from an organization two grants at a time lock the admin out of.
ListMatchesAccess ==
    \A u \in User, o \in Org :
        \/ (o \in ListForUser(u)) = (MembershipRole(u, o) # "refused")
        \/ Cardinality(ActiveGrants(o, u)) > 1

\* Two active grants for one admin and organization come only from requests that
\* overlapped: neither saw the other's grant when it looked for one.
GrantsOverlap ==
    \A g, h \in Grant :
        (/\ g # h /\ Active(g) /\ Active(h)
         /\ grants[g].org = grants[h].org /\ grants[g].user = grants[h].user)
        => g \notin grants[h].saw

\* Two workspaces one user owns and got from one-step scans come only from scans that
\* overlapped: the later found none when it looked.
WorkspacesOverlap ==
    \A o, w \in Org :
        (/\ o # w /\ orgs[o].made /\ orgs[w].made /\ orgs[w].quick
         /\ orgs[o].owner = orgs[w].owner)
        => o \notin orgs[w].saw

\* Who may do what, read from the tables in different places: memberships are unique,
\* lists and access agree, and grants or workspaces are doubled by overlap only.
AccessSound ==
    /\ TypeOK /\ MemberOnce
    /\ ListMatchesAccess /\ GrantsOverlap /\ WorkspacesOverlap
=============================================================================

--------------------------- MODULE Tenancy_proofs ---------------------------
(***************************************************************************)
(* Proofs about Tenancy for every set of users, organizations and          *)
(* requests: every organization has one owner, tenants do not change each  *)
(* other, and lists and access agree.                                      *)
(***************************************************************************)
EXTENDS Tenancy, FiniteSetTheorems, TLAPS

\* What the tables always are, whatever the requests have in hand.
OrgRow(r) ==
    r = [made |-> r.made, owner |-> r.owner, slug |-> r.slug, active |-> r.active,
         managed |-> r.managed, system |-> r.system, quick |-> r.quick, saw |-> r.saw]
MemberRow(m) == m = [id |-> m.id, org |-> m.org, user |-> m.user, role |-> m.role]

Tables ==
    /\ orgs = [o \in Org |-> orgs[o]]
    /\ \A o \in Org : OrgRow(orgs[o])
    /\ rows \in Nat
    /\ \A m \in members : /\ MemberRow(m) /\ m.id \in Nat /\ m.id < rows
                          /\ m.org \in Org /\ orgs[m.org].made
    /\ \A m, n \in members : m.id = n.id => m = n

\* What a request has in hand: an organization that exists, a row to insert that is no
\* owner's, the id of a row that never becomes an owner's.
Requests ==
    /\ req = [s \in Slot |-> req[s]]
    /\ \A s \in Slot :
         /\ req[s].pc \in {"open", "invite"} => (req[s].org \in Org /\ orgs[req[s].org].made)
         /\ req[s].pc = "invite" => (req[s].row.org = req[s].org /\ req[s].row.role # "owner")
         /\ req[s].pc = "member" =>
              /\ req[s].row.id \in Nat /\ req[s].row.id < rows
              /\ \A m \in members : m.id = req[s].row.id => m.role # "owner"

Owned == Tables /\ OneOwner /\ MemberOnce
IInv == Owned /\ Requests

\* Every organization that can be inserted is one that does not exist.
LEMMA NewOrgIsNew == ASSUME Room PROVE NewOrg \in Org /\ ~orgs[NewOrg].made
BY DEF Room, NewOrg

\* Marking an organization, or deleting it, keeps its owner.
LEMMA RowMarked ==
    ASSUME NEW r, NEW q, OrgRow(r),
           \/ q = r
           \/ q = [r EXCEPT !.system = TRUE]
           \/ q = [r EXCEPT !.active = FALSE]
    PROVE  OrgRow(q) /\ q.made = r.made /\ q.owner = r.owner
<1>1. CASE q = r
  BY <1>1
<1>2. CASE q = [r EXCEPT !.system = TRUE]
  BY <1>2 DEF OrgRow
<1>3. CASE q = [r EXCEPT !.active = FALSE]
  BY <1>3 DEF OrgRow
<1>4. QED
  BY <1>1, <1>2, <1>3

\* The initial tables: one organization and its owner's row.
LEMMA InitOwned == Init => IInv
<1> SUFFICES ASSUME Init PROVE IInv
  OBVIOUS
<1>1. PICK n \in Name \ {LabName} :
        orgs = [o \in Org |-> IF o = Home THEN [NoOrg EXCEPT !.made = TRUE, !.active = TRUE,
                                                            !.slug = <<n, 1>>]
                              ELSE NoOrg]
  BY DEF Init
<1>2. /\ \A o \in Org : OrgRow(orgs[o]) /\ orgs[o].owner = Founder
      /\ \A o \in Org : orgs[o].made <=> o = Home
      /\ orgs = [o \in Org |-> orgs[o]]
  BY <1>1 DEF NoOrg, OrgRow
<1>3. members = {[id |-> 0, org |-> Home, user |-> Founder, role |-> "owner"]} /\ rows = 1
  BY DEF Init, OwnerRow
<1>4. Tables
  BY <1>2, <1>3, TenancyAssumption DEF Tables, MemberRow
<1>5. OneOwner /\ MemberOnce
  BY <1>2, <1>3, TenancyAssumption DEF OneOwner, MemberOnce
<1>6. Requests
  BY DEF Init, Requests, Idle
<1>7. QED
  BY <1>4, <1>5, <1>6 DEF IInv, Owned

\* A step that keeps the memberships and every organization's owner keeps Owned.
LEMMA OwnersKept ==
    ASSUME Owned, UNCHANGED <<members, rows>>,
           orgs' = [o \in Org |-> orgs'[o]],
           \A o \in Org : /\ OrgRow(orgs'[o])
                          /\ orgs'[o].made = orgs[o].made /\ orgs'[o].owner = orgs[o].owner
    PROVE  Owned'
BY DEF Owned, Tables, OneOwner, MemberOnce, OrgRow, MemberRow

\* An organization comes with its owner's row, and no other organization is touched.
LEMMA OwnedInsertOrg ==
    ASSUME Owned, Room, NEW r, NEW managed, NEW system, InsertOrg(NewOrg, r, managed, system)
    PROVE  /\ Owned'
           /\ rows' = rows + 1
           /\ \A o \in Org : orgs[o].made => orgs'[o].made
           /\ \A m \in members' : m \in members \/ m.id = rows
<1> DEFINE x == NewOrg
           new == [id |-> rows, org |-> x, user |-> r.user, role |-> "owner"]
<1>1. x \in Org /\ ~orgs[x].made
  BY NewOrgIsNew
<1>2. /\ members' = members \cup {new} /\ rows' = rows + 1
      /\ orgs' = [orgs EXCEPT ![x] =
                    [made |-> TRUE, owner |-> r.user, slug |-> r.slug, active |-> TRUE,
                     managed |-> managed, system |-> system,
                     quick |-> r.pc = "quick", saw |-> r.saw]]
  BY DEF InsertOrg, OwnerRow
<1>3. /\ orgs'[x].made /\ orgs'[x].owner = r.user /\ OrgRow(orgs'[x])
      /\ \A o \in Org \ {x} : orgs'[o] = orgs[o]
      /\ orgs' = [o \in Org |-> orgs'[o]]
  BY <1>1, <1>2 DEF Owned, Tables, OrgRow
<1>4. \A m \in members : m.org # x /\ m.id # rows /\ m.id \in Nat
  BY <1>1 DEF Owned, Tables
<1> HIDE DEF x
<1>5. Tables'
  <2>1. \A o \in Org : OrgRow(orgs'[o])
    BY <1>3 DEF Owned, Tables
  <2>2. rows' \in Nat
    BY <1>2 DEF Owned, Tables
  <2>3. \A m \in members' : /\ MemberRow(m) /\ m.id \in Nat /\ m.id < rows'
                            /\ m.org \in Org /\ orgs'[m.org].made
    <3>1. ASSUME NEW m \in members
          PROVE  /\ MemberRow(m) /\ m.id \in Nat /\ m.id < rows'
                 /\ m.org \in Org /\ orgs'[m.org].made
      BY <1>2, <1>3, <1>4 DEF Owned, Tables
    <3>2. /\ MemberRow(new) /\ new.id \in Nat /\ new.id < rows'
          /\ new.org \in Org /\ orgs'[new.org].made
      BY <1>1, <1>2, <1>3 DEF Owned, Tables, MemberRow
    <3>3. QED
      BY <1>2, <3>1, <3>2
  <2>4. \A m, n \in members' : m.id = n.id => m = n
    BY <1>2, <1>4 DEF Owned, Tables
  <2>5. QED
    BY <1>3, <2>1, <2>2, <2>3, <2>4 DEF Tables
<1>6. OneOwner'
  <2> SUFFICES ASSUME NEW o \in Org, orgs'[o].made
               PROVE  \E m \in members' :
                        /\ m.org = o /\ m.role = "owner" /\ m.user = orgs'[o].owner
                        /\ \A n \in members' : (n.org = o /\ n.role = "owner") => n = m
    BY DEF OneOwner
  <2>1. CASE o = x
    <3>1. /\ new \in members'
          /\ new.org = o /\ new.role = "owner" /\ new.user = orgs'[o].owner
      BY <1>2, <1>3, <2>1
    <3>2. \A n \in members' : (n.org = o /\ n.role = "owner") => n = new
      BY <1>2, <1>4, <2>1
    <3>3. QED
      BY <3>1, <3>2
  <2>2. CASE o # x
    <3>1. orgs'[o] = orgs[o]
      BY <1>3, <2>2
    <3>2. PICK m \in members : /\ m.org = o /\ m.role = "owner" /\ m.user = orgs[o].owner
                               /\ \A n \in members : (n.org = o /\ n.role = "owner") => n = m
      BY <3>1 DEF Owned, OneOwner
    <3>3. QED
      BY <1>2, <2>2, <3>1, <3>2
  <2>3. QED
    BY <2>1, <2>2
<1>7. MemberOnce'
  BY <1>2, <1>4 DEF Owned, MemberOnce
<1>8. QED
  BY <1>2, <1>3, <1>5, <1>6, <1>7 DEF Owned

\* An invited member is never an owner, nor twice a member: the unique key refuses it.
LEMMA OwnedInvite ==
    ASSUME IInv, NEW s \in Slot, Invite(s)
    PROVE  /\ Owned'
           /\ rows' = rows + 1
           /\ \A m \in members' : m \in members \/ m.id = rows
<1> DEFINE row == req[s].row
           new == [id |-> rows, org |-> row.org, user |-> row.user, role |-> row.role]
<1>1. /\ members' = members \cup {new} /\ rows' = rows + 1 /\ UNCHANGED orgs
      /\ \A m \in members : m.org # row.org \/ m.user # row.user
  BY DEF Invite, Keyed, RowsOf
<1>2. row.org \in Org /\ orgs[row.org].made /\ row.role # "owner"
  BY DEF Invite, IInv, Requests
<1>3. \A m \in members : m.id # rows
  BY DEF IInv, Owned, Tables
<1> HIDE DEF row
<1>4. Tables'
  BY <1>1, <1>2, <1>3 DEF IInv, Owned, Tables, MemberRow
<1>5. OneOwner'
  BY <1>1, <1>2 DEF IInv, Owned, OneOwner
<1>6. MemberOnce'
  BY <1>1 DEF IInv, Owned, MemberOnce
<1>7. QED
  BY <1>1, <1>4, <1>5, <1>6 DEF Owned

\* A role change touches no owner's row and makes none.
LEMMA OwnedChangeRole ==
    ASSUME IInv, NEW s \in Slot, NEW role, ChangeRole(s, role)
    PROVE  /\ Owned'
           /\ \A m \in members' : m.role = "owner" => m \in members
<1> DEFINE Written(m) == IF m.id = req[s].row.id THEN [m EXCEPT !.role = role] ELSE m
<1>1. members' = {Written(m) : m \in members} /\ UNCHANGED <<orgs, rows>> /\ role # "owner"
  BY DEF ChangeRole
<1>2. \A m \in members : m.id = req[s].row.id => m.role # "owner"
  BY DEF ChangeRole, IInv, Requests
<1>3. \A m \in members :
        /\ MemberRow(Written(m))
        /\ Written(m).id = m.id /\ Written(m).org = m.org /\ Written(m).user = m.user
        /\ Written(m).role = "owner" => (m.role = "owner" /\ Written(m) = m)
        /\ m.role = "owner" => Written(m) = m
  BY <1>1, <1>2 DEF IInv, Owned, Tables, MemberRow
<1> HIDE DEF Written
<1>4. Tables'
  <2>1. \A m \in members' : /\ MemberRow(m) /\ m.id \in Nat /\ m.id < rows'
                            /\ m.org \in Org /\ orgs'[m.org].made
    BY <1>1, <1>3 DEF IInv, Owned, Tables
  <2>2. \A m, n \in members' : m.id = n.id => m = n
    BY <1>1, <1>3 DEF IInv, Owned, Tables
  <2>3. QED
    BY <1>1, <2>1, <2>2 DEF IInv, Owned, Tables
<1>5. OneOwner'
  <2> SUFFICES ASSUME NEW o \in Org, orgs'[o].made
               PROVE  \E m \in members' :
                        /\ m.org = o /\ m.role = "owner" /\ m.user = orgs'[o].owner
                        /\ \A n \in members' : (n.org = o /\ n.role = "owner") => n = m
    BY DEF OneOwner
  <2>1. PICK m \in members : /\ m.org = o /\ m.role = "owner" /\ m.user = orgs[o].owner
                             /\ \A n \in members : (n.org = o /\ n.role = "owner") => n = m
    BY <1>1 DEF IInv, Owned, OneOwner
  <2>2. m \in members'
    BY <1>1, <1>3, <2>1
  <2>3. \A n \in members' : (n.org = o /\ n.role = "owner") => n = m
    BY <1>1, <1>3, <2>1
  <2>4. QED
    BY <1>1, <2>1, <2>2, <2>3
<1>6. MemberOnce'
  BY <1>1, <1>3 DEF IInv, Owned, MemberOnce
<1>7. \A m \in members' : m.role = "owner" => m \in members
  BY <1>1, <1>3
<1>8. QED
  BY <1>4, <1>5, <1>6, <1>7 DEF Owned

\* A removal deletes no owner's row.
LEMMA OwnedRemove ==
    ASSUME IInv, NEW s \in Slot, Remove(s)
    PROVE  Owned' /\ members' \subseteq members
<1>1. members' = {m \in members : m.id # req[s].row.id} /\ UNCHANGED <<orgs, rows>>
  BY DEF Remove
<1>2. \A m \in members : m.role = "owner" => m \in members'
  BY <1>1 DEF Remove, IInv, Requests
<1>3. Tables'
  BY <1>1 DEF IInv, Owned, Tables
<1>4. OneOwner'
  BY <1>1, <1>2 DEF IInv, Owned, OneOwner
<1>5. MemberOnce'
  BY <1>1 DEF IInv, Owned, MemberOnce
<1>6. QED
  BY <1>1, <1>3, <1>4, <1>5 DEF Owned

\* A step of one request leaves what the others have in hand.
Answered(s) == req' = [t \in Slot |-> IF t = s THEN req'[s] ELSE req[t]]

\* What the requests in hand rely on is kept by every step that makes no owner of a row
\* inserted before, forgets no organization and reuses no id.
LEMMA OthersRely ==
    ASSUME IInv, NEW s \in Slot, Answered(s),
           \A o \in Org : orgs[o].made => orgs'[o].made,
           rows' \in Nat, rows' >= rows,
           \A m \in members' : m.role = "owner" => (m \in members \/ m.id = rows),
           req'[s].pc \in {"open", "invite"} =>
              (req'[s].org \in Org /\ orgs'[req'[s].org].made),
           req'[s].pc = "invite" =>
              (req'[s].row.org = req'[s].org /\ req'[s].row.role # "owner"),
           req'[s].pc = "member" =>
              /\ req'[s].row.id \in Nat /\ req'[s].row.id < rows'
              /\ \A m \in members' : m.id = req'[s].row.id => m.role # "owner"
    PROVE  Requests'
<1>1. req' = [t \in Slot |-> req'[t]] /\ \A t \in Slot \ {s} : req'[t] = req[t]
  BY DEF Answered
<1>2. ASSUME NEW t \in Slot \ {s}
      PROVE  /\ req'[t].pc \in {"open", "invite"} =>
                  (req'[t].org \in Org /\ orgs'[req'[t].org].made)
             /\ req'[t].pc = "invite" =>
                  (req'[t].row.org = req'[t].org /\ req'[t].row.role # "owner")
             /\ req'[t].pc = "member" =>
                  /\ req'[t].row.id \in Nat /\ req'[t].row.id < rows'
                  /\ \A m \in members' : m.id = req'[t].row.id => m.role # "owner"
  <2>1. req'[t] = req[t]
    BY <1>1
  <2>2. rows \in Nat
    BY DEF IInv, Owned, Tables
  <2>3. QED
    BY <2>1, <2>2 DEF IInv, Requests
<1>3. QED
  BY <1>1, <1>2 DEF Requests

\* A request that ends, or has only read what it need not rely on.
LEMMA Unbound ==
    ASSUME IInv, NEW s \in Slot, Answered(s),
           req'[s].pc \notin {"open", "invite", "member"},
           \A o \in Org : orgs[o].made => orgs'[o].made,
           rows' = rows \/ rows' = rows + 1,
           \A m \in members' : m.role = "owner" => (m \in members \/ m.id = rows)
    PROVE  Requests'
<1>1. rows \in Nat
  BY DEF IInv, Owned, Tables
<1>2. rows' \in Nat /\ rows' >= rows
  BY <1>1
<1>3. QED
  BY <1>2, OthersRely

\* Every request keeps the invariant.
LEMMA RequestStep == ASSUME IInv, NEW s \in Slot, Request(s) PROVE IInv'
<1>1. ASSUME UNCHANGED <<orgs, members, rows>>
      PROVE  /\ Owned' /\ rows' = rows
             /\ \A o \in Org : orgs[o].made => orgs'[o].made
             /\ \A m \in members' : m.role = "owner" => (m \in members \/ m.id = rows)
  BY <1>1 DEF IInv, Owned, Tables, OneOwner, MemberOnce, OrgRow, MemberRow
<1>2. ASSUME NEW r, Room, NEW managed, NEW system, InsertOrg(NewOrg, r, managed, system),
             Finish(s)
      PROVE  IInv'
  <2>1. /\ Owned' /\ rows' = rows + 1
        /\ \A o \in Org : orgs[o].made => orgs'[o].made
        /\ \A m \in members' : m \in members \/ m.id = rows
    BY <1>2, OwnedInsertOrg DEF IInv
  <2>2. Answered(s) /\ req'[s].pc \notin {"open", "invite", "member"}
    BY <1>2 DEF Finish, Proceed, Idle, Answered, IInv, Requests
  <2>3. Requests'
    BY <2>1, <2>2, Unbound
  <2>4. QED
    BY <2>1, <2>3 DEF IInv
<1>3. ASSUME UNCHANGED <<members, rows>>, Finish(s),
             orgs' = [o \in Org |-> orgs'[o]],
             \A o \in Org : /\ OrgRow(orgs'[o])
                            /\ orgs'[o].made = orgs[o].made /\ orgs'[o].owner = orgs[o].owner
      PROVE  IInv'
  <2>1. Owned'
    BY <1>3, OwnersKept DEF IInv
  <2>2. Answered(s) /\ req'[s].pc \notin {"open", "invite", "member"}
    BY <1>3 DEF Finish, Proceed, Idle, Answered, IInv, Requests
  <2>3. Requests'
    BY <1>3, <2>2, Unbound
  <2>4. QED
    BY <2>1, <2>3 DEF IInv
<1>4. ASSUME UNCHANGED <<orgs, members, rows>>, Answered(s),
             req'[s].pc \notin {"open", "invite", "member"}
      PROVE  IInv'
  <2>1. Requests'
    BY <1>1, <1>4, Unbound
  <2>2. QED
    BY <1>1, <1>4, <2>1 DEF IInv
<1>5. ASSUME Finish(s), UNCHANGED <<orgs, members, rows>> PROVE IInv'
  BY <1>4, <1>5 DEF Finish, Proceed, Idle, Answered, IInv, Requests
<1>6. ASSUME NEW u, NEW n, AskCreate(s, u, n) \/ AskManaged(s, u, n) PROVE IInv'
  <2>1. UNCHANGED <<orgs, members, rows>> /\ Answered(s)
                 /\ req'[s].pc = "create"
    BY <1>6 DEF AskCreate, AskManaged, Start, Answered, IInv, Requests
  <2>2. QED
    BY <1>4, <2>1
<1>7. CASE Create(s)
  BY <1>2, <1>7 DEF Create
<1>8. CASE AskLab(s)
  <2>1. UNCHANGED <<orgs, members, rows>> /\ Answered(s)
                 /\ req'[s].pc = "lab"
    BY <1>8 DEF AskLab, Start, Answered, IInv, Requests
  <2>2. QED
    BY <1>4, <2>1
<1>9. CASE LabRead(s) \/ EnsureLab(s)
  <2>0. CASE LabRead(s)
    <3>1. /\ UNCHANGED <<orgs, members, rows>> /\ Answered(s)
          /\ \E b : req'[s] = [req[s] EXCEPT !.pc = "lab_project", !.lacks = b]
      BY <2>0 DEF LabRead, Proceed, Answered, IInv, Requests
    <3>2. req'[s].pc \in {"lab", "lab_project"}
      BY <2>0, <3>1 DEF LabRead
    <3>3. QED
      BY <1>4, <3>1, <3>2
  <2>1. CASE EnsureLab(s) /\ \E o \in req[s].found : /\ orgs' = [orgs EXCEPT ![o].system = TRUE]
                                                    /\ UNCHANGED <<members, rows>>
    <3>0. PICK w \in req[s].found : orgs' = [orgs EXCEPT ![w].system = TRUE]
      BY <2>1
    <3>1. ASSUME NEW o \in Org
          PROVE  /\ OrgRow(orgs'[o])
                 /\ orgs'[o].made = orgs[o].made /\ orgs'[o].owner = orgs[o].owner
      <4>1. orgs'[o] = orgs[o] \/ orgs'[o] = [orgs[o] EXCEPT !.system = TRUE]
        BY <3>0 DEF IInv, Owned, Tables
      <4>2. OrgRow(orgs[o])
        BY DEF IInv, Owned, Tables
      <4>3. QED
        BY <4>1, <4>2, RowMarked
    <3>2. orgs' = [o \in Org |-> orgs'[o]]
      BY <3>0 DEF IInv, Owned, Tables
    <3>3. QED
      BY <1>3, <2>1, <3>1, <3>2 DEF EnsureLab
  <2>2. CASE EnsureLab(s) /\ Room /\ InsertOrg(NewOrg, req[s], FALSE, TRUE)
    BY <1>2, <2>2 DEF EnsureLab
  <2>3. QED
    BY <1>9, <2>0, <2>1, <2>2 DEF EnsureLab
<1>10. ASSUME NEW u, NEW deep, QuickLook(s, u, deep) PROVE IInv'
  <2>1. UNCHANGED <<orgs, members, rows>> /\ Answered(s)
                 /\ req'[s].pc = "quick_look"
    BY <1>10 DEF QuickLook, Start, Answered, IInv, Requests
  <2>2. QED
    BY <1>4, <2>1
<1>11. CASE QuickRead(s)
  <2>1. UNCHANGED <<orgs, members, rows>> /\ Answered(s)
                 /\ req'[s].pc = "quick"
    BY <1>11 DEF QuickRead, Proceed, Answered, IInv, Requests
  <2>2. QED
    BY <1>4, <2>1
<1>12. CASE Quick(s)
  <2>1. CASE Room /\ InsertOrg(NewOrg, req[s], FALSE, FALSE)
    BY <1>2, <1>12, <2>1 DEF Quick
  <2>2. CASE UNCHANGED <<orgs, members, rows>>
    BY <1>5, <1>12, <2>2 DEF Quick
  <2>3. QED
    BY <1>12, <2>1, <2>2 DEF Quick
<1>13. ASSUME NEW u, NEW o \in Org, Authorize(s, u, o) PROVE IInv'
  <2>1. UNCHANGED <<orgs, members, rows>> /\ Answered(s)
                 /\ req'[s].pc = "open" /\ req'[s].org = o /\ orgs[o].made
    BY <1>13 DEF Authorize, Start, MembershipRole, Open, Answered, IInv, Requests
  <2>2. rows' \in Nat /\ rows' >= rows
    BY <1>1, <2>1 DEF IInv, Owned, Tables
  <2>3. Requests'
    BY <1>1, <2>1, <2>2, OthersRely
  <2>4. QED
    BY <1>1, <2>1, <2>3 DEF IInv
<1>14. ASSUME NEW u, NEW role, InviteRead(s, u, role) PROVE IInv'
  <2>1. UNCHANGED <<orgs, members, rows>> /\ Answered(s)
                 /\ req'[s].pc = "invite" /\ req'[s].org = req[s].org /\ req'[s].row.org = req'[s].org
                 /\ req'[s].row.role # "owner"
    BY <1>14 DEF InviteRead, Proceed, Answered, IInv, Requests
  <2>2. req[s].org \in Org /\ orgs[req[s].org].made
    BY <1>14 DEF InviteRead, MayManageMembers, RequireRole, IInv, Requests
  <2>3. rows' \in Nat /\ rows' >= rows
    BY <1>1, <2>1 DEF IInv, Owned, Tables
  <2>4. Requests'
    BY <1>1, <2>1, <2>2, <2>3, OthersRely
  <2>5. QED
    BY <1>1, <2>1, <2>4 DEF IInv
<1>15. CASE Invite(s)
  <2>1. /\ Owned' /\ rows' = rows + 1
        /\ \A m \in members' : m \in members \/ m.id = rows
    BY <1>15, OwnedInvite
  <2>2. Answered(s) /\ req'[s].pc \notin {"open", "invite", "member"}
        /\ UNCHANGED orgs
    BY <1>15 DEF Invite, Finish, Proceed, Idle, Answered, IInv, Requests
  <2>3. Requests'
    BY <2>1, <2>2, Unbound
  <2>4. QED
    BY <2>1, <2>3 DEF IInv
<1>16. ASSUME NEW m \in members, MemberRead(s, m) PROVE IInv'
  <2>1. UNCHANGED <<orgs, members, rows>> /\ Answered(s)
                 /\ req'[s].pc = "member" /\ req'[s].row = m
    BY <1>16 DEF MemberRead, Proceed, Answered, IInv, Requests
  <2>2. m.role # "owner" /\ m.id \in Nat /\ m.id < rows
        /\ \A n \in members : n.id = m.id => n = m
    BY <1>16 DEF MemberRead, IInv, Owned, Tables
  <2>3. rows' \in Nat /\ rows' >= rows
    BY <1>1, <2>1 DEF IInv, Owned, Tables
  <2>4. Requests'
    BY <1>1, <2>1, <2>2, <2>3, OthersRely
  <2>5. QED
    BY <1>1, <2>1, <2>4 DEF IInv
<1>17. ASSUME NEW role, ChangeRole(s, role) PROVE IInv'
  <2>1. Owned' /\ \A m \in members' : m.role = "owner" => m \in members
    BY <1>17, OwnedChangeRole
  <2>2. Answered(s) /\ req'[s].pc \notin {"open", "invite", "member"}
        /\ UNCHANGED <<orgs, rows>>
    BY <1>17 DEF ChangeRole, Finish, Proceed, Idle, Answered, IInv, Requests
  <2>3. Requests'
    BY <2>1, <2>2, Unbound
  <2>4. QED
    BY <2>1, <2>3 DEF IInv
<1>18. CASE Remove(s)
  <2>1. Owned' /\ members' \subseteq members
    BY <1>18, OwnedRemove
  <2>2. Answered(s) /\ req'[s].pc \notin {"open", "invite", "member"}
        /\ UNCHANGED <<orgs, rows>>
    BY <1>18 DEF Remove, Finish, Proceed, Idle, Answered, IInv, Requests
  <2>3. Requests'
    BY <2>1, <2>2, Unbound
  <2>4. QED
    BY <2>1, <2>3 DEF IInv
<1>19. CASE DeleteOrg(s)
  <2>1. orgs' = [orgs EXCEPT ![req[s].org].active = FALSE] /\ Finish(s)
        /\ UNCHANGED <<members, rows>>
    BY <1>19 DEF DeleteOrg
  <2>2. ASSUME NEW o \in Org
        PROVE  /\ OrgRow(orgs'[o])
               /\ orgs'[o].made = orgs[o].made /\ orgs'[o].owner = orgs[o].owner
    <3>1. orgs'[o] = orgs[o] \/ orgs'[o] = [orgs[o] EXCEPT !.active = FALSE]
      BY <2>1 DEF IInv, Owned, Tables
    <3>2. OrgRow(orgs[o])
      BY DEF IInv, Owned, Tables
    <3>3. QED
      BY <3>1, <3>2, RowMarked
  <2>3. orgs' = [o \in Org |-> orgs'[o]]
    BY <2>1 DEF IInv, Owned, Tables
  <2>4. QED
    BY <1>3, <2>1, <2>2, <2>3
<1>20. ASSUME \/ \E staging, lab : CreateProject(s, staging, lab)
              \/ \E p, staging, lab : UpdateProject(s, p, staging, lab)
              \/ \E p : DeleteProject(s, p)
              \/ Leave(s) \/ GiveGrant(s)
       PROVE  IInv'
  <2>1. Finish(s) /\ UNCHANGED <<orgs, members, rows>>
    BY <1>20 DEF CreateProject, UpdateProject, DeleteProject, Leave, GiveGrant
  <2>2. QED
    BY <1>5, <2>1
<1>21. ASSUME NEW u, NEW o, NEW to, AskGrant(s, u, o, to) PROVE IInv'
  <2>1. UNCHANGED <<orgs, members, rows>> /\ Answered(s)
                 /\ req'[s].pc = "grant"
    BY <1>21 DEF AskGrant, Start, Answered, IInv, Requests
  <2>2. QED
    BY <1>4, <2>1
<1>22. QED
  BY <1>6, <1>7, <1>8, <1>9, <1>10, <1>11, <1>12, <1>13, <1>14, <1>15, <1>16, <1>17,
     <1>18, <1>19, <1>20, <1>21 DEF Request

\* The invariant of the tables and of what the requests rely on.
THEOREM TenancyInvariance == Spec => []IInv
<1>1. Init => IInv
  BY InitOwned
<1>2. IInv /\ [Next]_vars => IInv'
  <2> SUFFICES ASSUME IInv, [Next]_vars PROVE IInv'
    OBVIOUS
  <2>1. ASSUME NEW s \in Slot, Request(s) PROVE IInv'
    BY <2>1, RequestStep
  <2>2. ASSUME UNCHANGED <<orgs, members, rows, req>> PROVE IInv'
    BY <2>2 DEF IInv, Owned, Tables, Requests, OneOwner, MemberOnce, OrgRow, MemberRow
  <2>3. ASSUME NEW g \in Grant, RevokeGrant(g) \/ Expire(g) PROVE IInv'
    BY <2>2, <2>3 DEF RevokeGrant, Expire
  <2>4. ASSUME NEW o \in Org, NEW active, UpdatePilot(o, active) PROVE IInv'
    <3>1. orgs' = [orgs EXCEPT ![o].active = active] /\ UNCHANGED <<members, rows, req>>
      BY <2>4 DEF UpdatePilot
    <3>2. \A w \in Org : /\ OrgRow(orgs'[w])
                         /\ orgs'[w].made = orgs[w].made /\ orgs'[w].owner = orgs[w].owner
      BY <3>1 DEF IInv, Owned, Tables, OrgRow
    <3>3. orgs' = [w \in Org |-> orgs'[w]]
      BY <3>1 DEF IInv, Owned, Tables
    <3>4. Owned'
      BY <3>1, <3>2, <3>3, OwnersKept DEF IInv
    <3>5. Requests'
      BY <3>1, <3>2 DEF IInv, Requests
    <3>6. QED
      BY <3>4, <3>5 DEF IInv
  <2>5. CASE UNCHANGED vars
    BY <2>2, <2>5 DEF vars
  <2>6. QED
    BY <2>1, <2>3, <2>4, <2>5 DEF Next
<1>3. QED
  BY <1>1, <1>2, PTL DEF Spec

\* Whatever requests overlap, every organization keeps exactly one owner's row, that of
\* its owner_id.
THEOREM OwnershipKept == Spec => []OneOwner
<1>1. IInv => OneOwner
  BY DEF IInv, Owned
<1>2. QED
  BY <1>1, TenancyInvariance, PTL

\* However invitations overlap, nobody is a member of an organization twice.
THEOREM MembershipUnique == Spec => []MemberOnce
<1>1. IInv => MemberOnce
  BY DEF IInv, Owned
<1>2. QED
  BY <1>1, TenancyInvariance, PTL
-----------------------------------------------------------------------------
(* Tenants do not change each other: the invariant above with what         *)
(* requests have in hand of their organization.                            *)

ProjectRow(r) == r = [made |-> r.made, org |-> r.org, active |-> r.active, staging |-> r.staging,
                      lab |-> r.lab]

\* The tables as TenantsApart reads them.
Shapes ==
    /\ projects = [p \in Project |-> projects[p]]
    /\ \A p \in Project : ProjectRow(projects[p])
    /\ \A m \in members : m.role \in Role

Manages(held) == held \cap {"admin", "owner"} # {}

\* What request s has in hand: a role that was a membership's when it started, a
\* membership row of its own organization, at most one workspace, an organization with the
\* slug of the benchmark's.
Hand(s) ==
    /\ req[s].pc = "open" => /\ AtLeast(req[s].role, "admin") => Manages(req[s].held)
                             /\ AtLeast(req[s].role, "owner") => "owner" \in req[s].held
    /\ req[s].pc \in {"invite", "member"} => Manages(req[s].held)
    /\ req[s].pc = "invite" => req[s].row.role \in Role /\ req[s].row.org = req[s].org
    /\ req[s].pc = "member" => \A m \in members : m.id = req[s].row.id => m.org = req[s].org
    /\ req[s].pc \in {"quick_look", "quick"} => req[s].org = {} \/ \E o \in Org : req[s].org = {o}
    /\ req[s].pc \in {"lab", "lab_project"} =>
         \A o \in req[s].found : o \in Org /\ orgs[o].made /\ orgs[o].slug = LabSlug

TInv == IInv /\ Shapes /\ \A s \in Slot : Hand(s)

\* Who is admin or owner by rank is so by name.
LEMMA Ranked ==
    ASSUME NEW role \in Role \cup {"refused"}
    PROVE  /\ AtLeast(role, "admin") => role \in {"admin", "owner"}
           /\ AtLeast(role, "owner") => role = "owner"
<1>1. role \in {"refused", "viewer", "developer", "security_analyst", "admin", "owner"}
  BY DEF Role, Rank
<1>2. QED
  BY <1>1 DEF AtLeast, Rank

\* A row of the table that stays one keeps its organization, or is new; an organization
\* keeps its slug.
RowsStay ==
    /\ \A m \in members' : m.id = rows \/ \E n \in members : n.id = m.id /\ n.org = m.org
    /\ \A o \in Org : orgs[o].made => orgs'[o].made /\ orgs'[o].slug = orgs[o].slug

\* What the other requests have in hand is kept with the rows.
LEMMA HandsKept ==
    ASSUME TInv, NEW s \in Slot, Answered(s), RowsStay, Hand(s)'
    PROVE  \A t \in Slot : Hand(t)'
<1> SUFFICES ASSUME NEW t \in Slot, t # s PROVE Hand(t)'
  OBVIOUS
<1>1. req'[t] = req[t]
  BY DEF Answered
<1>2. Hand(t)
  BY DEF TInv
<1>3. ASSUME req[t].pc = "member", NEW m \in members', m.id = req[t].row.id
      PROVE  m.org = req[t].org
  <2>1. req[t].row.id < rows /\ req[t].row.id \in Nat /\ rows \in Nat
    BY <1>3 DEF TInv, IInv, Owned, Tables, Requests
  <2>2. PICK n \in members : n.id = m.id /\ n.org = m.org
    BY <1>3, <2>1 DEF RowsStay
  <2>3. QED
    BY <1>2, <1>3, <2>2 DEF Hand
<1>4. ASSUME req[t].pc \in {"lab", "lab_project"}, NEW o \in req[t].found
      PROVE  o \in Org /\ orgs'[o].made /\ orgs'[o].slug = LabSlug
  BY <1>2, <1>4 DEF Hand, RowsStay
<1>5. QED
  BY <1>1, <1>2, <1>3, <1>4 DEF Hand

\* A request that is over has nothing in hand.
LEMMA Over ==
    ASSUME TInv, NEW s \in Slot, Finish(s), RowsStay
    PROVE  /\ req'[s] = Idle
           /\ \A t \in Slot : Hand(t)'
<1>1. Answered(s) /\ req'[s] = Idle
  BY DEF Finish, Proceed, Answered, TInv, IInv, Requests
<1>2. Hand(s)'
  BY <1>1 DEF Hand, Idle
<1>3. QED
  BY <1>1, <1>2, HandsKept

\* What a step of a request does to a tenant.
Apart(s) == \A o \in Org : (orgs[o].made /\ Changed(o)) =>
                req'[s] = Idle /\ (ByAdmin(s, o) \/ ByQuickScan(s, o) \/ ByRunner(s, o))

\* A step of a request keeps the invariant and leaves the other tenants alone.
KeptApart(s) == Shapes' /\ (\A t \in Slot : Hand(t)') /\ Apart(s)

\* No tenant is changed by a step that writes neither memberships nor projects and
\* deactivates nothing.
LEMMA Untouched ==
    ASSUME UNCHANGED <<members, projects>>,
           NEW o \in Org, orgs[o].active => orgs'[o].active
    PROVE  ~Changed(o)
BY DEF Changed, RowsIn, ProjectsIn, Deleted

\* Reading requests.
LEMMA ReadingStep ==
    ASSUME TInv, NEW s \in Slot, UNCHANGED <<orgs, members, rows, projects>>,
           Answered(s), Hand(s)'
    PROVE  KeptApart(s)
<1>1. RowsStay
  BY DEF RowsStay
<1>2. Shapes'
  BY DEF TInv, Shapes
<1>3. QED
  BY <1>1, <1>2, HandsKept, Untouched DEF KeptApart, Apart

\* Requests that end with nothing that concerns a tenant.
LEMMA EndingStep ==
    ASSUME TInv, NEW s \in Slot, UNCHANGED <<orgs, members, rows, projects>>, Finish(s)
    PROVE  KeptApart(s)
<1>1. RowsStay
  BY DEF RowsStay
<1>2. Shapes'
  BY DEF TInv, Shapes
<1>3. QED
  BY <1>1, <1>2, Over, Untouched DEF KeptApart, Apart

\* A new organization changes no other, be it with a first project.
LEMMA NewOrgStep ==
    ASSUME TInv, NEW s \in Slot, Room, Finish(s), NEW r, NEW managed, NEW system,
           InsertOrg(NewOrg, r, managed, system),
           UNCHANGED projects \/ \E lab \in BOOLEAN : InsertProject(NewOrg, TRUE, lab)
    PROVE  KeptApart(s)
<1> DEFINE x == NewOrg
<1>1. x \in Org /\ ~orgs[x].made
  BY NewOrgIsNew
<1>2. \E u : members' = members \cup {[id |-> rows, org |-> x, user |-> u, role |-> "owner"]}
  BY DEF InsertOrg, OwnerRow
<1>3. \A o \in Org : orgs[o].made => orgs'[o] = orgs[o]
  BY <1>1 DEF InsertOrg, TInv, IInv, Owned, Tables
<1> HIDE DEF x
<1>4. RowsStay
  BY <1>2, <1>3 DEF RowsStay
<1>5. /\ Shapes'
      /\ \A o \in Org : orgs[o].made =>
           /\ ProjectsIn(o, projects') = ProjectsIn(o, projects)
           /\ \A p \in ProjectsIn(o, projects) : projects'[p] = projects[p]
  <2>0. \A m \in members' : m.role \in Role
    BY <1>2 DEF TInv, Shapes, Role, Rank
  <2>1. CASE UNCHANGED projects
    BY <2>0, <2>1 DEF TInv, Shapes, ProjectsIn
  <2>2. ASSUME NEW lab \in BOOLEAN, InsertProject(x, TRUE, lab)
        PROVE  /\ Shapes'
               /\ \A o \in Org : orgs[o].made =>
                    /\ ProjectsIn(o, projects') = ProjectsIn(o, projects)
                    /\ \A p \in ProjectsIn(o, projects) : projects'[p] = projects[p]
    <3>1. /\ NewProject \in Project /\ ~projects[NewProject].made
          /\ projects' = [projects EXCEPT ![NewProject] =
                            [made |-> TRUE, org |-> x, active |-> TRUE, staging |-> TRUE,
                             lab |-> lab]]
      BY <2>2 DEF InsertProject, NewProject
    <3>2. QED
      BY <1>1, <2>0, <3>1 DEF TInv, Shapes, ProjectRow, ProjectsIn
  <2>3. QED
    BY <2>1, <2>2 DEF x
<1>6. \A o \in Org : orgs[o].made => RowsIn(o, members') = RowsIn(o, members)
  BY <1>1, <1>2 DEF RowsIn
<1>7. \A o \in Org : orgs[o].made => ~Changed(o)
  BY <1>3, <1>5, <1>6 DEF Changed, Deleted
<1>8. QED
  BY <1>4, <1>5, <1>7, Over DEF KeptApart, Apart

\* A project added to an organization leaves everything else of it as it is, and the other
\* organizations.
LEMMA ProjectAdded ==
    ASSUME TInv, NEW w \in Org, NEW lab \in BOOLEAN, InsertProject(w, TRUE, lab),
           UNCHANGED members, \A o \in Org : orgs'[o].active = orgs[o].active
    PROVE  Shapes' /\ OnlyAdded(w) /\ \A o \in Org \ {w} : ~Changed(o)
<1>1. /\ NewProject \in Project /\ ~projects[NewProject].made
      /\ projects' = [projects EXCEPT ![NewProject] =
                        [made |-> TRUE, org |-> w, active |-> TRUE, staging |-> TRUE,
                         lab |-> lab]]
  BY DEF InsertProject, NewProject
<1>2. Shapes'
  BY <1>1 DEF TInv, Shapes, ProjectRow
<1>3. \A o \in Org \ {w} : ~Changed(o)
  BY <1>1 DEF Changed, Deleted, RowsIn, ProjectsIn, TInv, Shapes
<1>4. OnlyAdded(w)
  BY <1>1 DEF OnlyAdded, Deleted, RowsIn, ProjectsIn, TInv, Shapes
<1>5. QED
  BY <1>2, <1>3, <1>4

\* A one-step scan that adds a project to the workspace it has found.
LEMMA QuickStep ==
    ASSUME TInv, NEW s \in Slot, req[s].pc = "quick", NEW w \in req[s].org, w \in Org,
           InsertProject(w, TRUE, FALSE), Finish(s), UNCHANGED <<orgs, members, rows>>
    PROVE  KeptApart(s)
<1>1. Shapes' /\ OnlyAdded(w) /\ \A o \in Org \ {w} : ~Changed(o)
  BY ProjectAdded
<1>2. req[s].org = {w}
  BY DEF TInv, Hand
<1>3. RowsStay
  BY DEF RowsStay
<1>4. ByQuickScan(s, w)
  BY <1>1, <1>2 DEF ByQuickScan
<1>5. QED
  BY <1>1, <1>3, <1>4, Over DEF KeptApart, Apart

\* The benchmark's runner, in the organization that has the slug of its own.
LEMMA RunnerStep ==
    ASSUME TInv, NEW s \in Slot, req[s].pc = "lab_project", NEW w \in req[s].found,
           orgs' = [orgs EXCEPT ![w].system = TRUE], UNCHANGED <<members, rows>>, Finish(s),
           UNCHANGED projects \/ InsertProject(w, TRUE, TRUE)
    PROVE  KeptApart(s)
<1>1. w \in Org /\ orgs[w].made /\ orgs[w].slug = LabSlug
  BY DEF TInv, Hand
<1>2. \A o \in Org : /\ orgs'[o].active = orgs[o].active /\ orgs'[o].made = orgs[o].made
                     /\ orgs'[o].slug = orgs[o].slug
  BY DEF TInv, IInv, Owned, Tables, OrgRow
<1>3. RowsStay
  BY <1>2 DEF RowsStay
<1>4. CASE UNCHANGED projects
  <2>1. Shapes'
    BY <1>4 DEF TInv, Shapes
  <2>2. \A o \in Org : ~Changed(o)
    BY <1>2, <1>4, Untouched
  <2>3. QED
    BY <1>3, <2>1, <2>2, Over DEF KeptApart, Apart
<1>5. CASE InsertProject(w, TRUE, TRUE)
  <2>1. Shapes' /\ OnlyAdded(w) /\ \A o \in Org \ {w} : ~Changed(o)
    BY <1>1, <1>2, <1>5, ProjectAdded
  <2>2. ByRunner(s, w)
    BY <1>1, <2>1 DEF ByRunner
  <2>3. QED
    BY <1>3, <2>1, <2>2, Over DEF KeptApart, Apart
<1>6. QED
  BY <1>4, <1>5

\* The endpoints that change memberships.
LEMMA MemberStep ==
    ASSUME TInv, NEW s \in Slot, Invite(s) \/ Remove(s) \/ \E role \in GivenRole : ChangeRole(s, role)
    PROVE  KeptApart(s)
<1> DEFINE w == req[s].org
<1>1. Finish(s) /\ UNCHANGED <<orgs, projects>> /\ req[s].pc \in {"invite", "member"}
  BY DEF Invite, Remove, ChangeRole
<1>2. Manages(req[s].held)
  BY <1>1 DEF TInv, Hand
<1>3. /\ RowsStay /\ \A m \in members' : m.role \in Role
      /\ \A o \in Org \ {w} : RowsIn(o, members') = RowsIn(o, members)
  <2>1. CASE Invite(s)
    <3>1. /\ members' = members \cup {[id |-> rows, org |-> req[s].row.org,
                                      user |-> req[s].row.user, role |-> req[s].row.role]}
          /\ req[s].row.org = w /\ req[s].row.role \in Role
      BY <2>1 DEF Invite, TInv, Hand
    <3>2. QED
      BY <1>1, <3>1 DEF RowsStay, RowsIn, TInv, Shapes
  <2>2. CASE Remove(s)
    <3>1. /\ members' = {m \in members : m.id # req[s].row.id}
          /\ \A m \in members : m.id = req[s].row.id => m.org = w
      BY <2>2 DEF Remove, TInv, Hand
    <3>2. QED
      BY <1>1, <3>1 DEF RowsStay, RowsIn, TInv, Shapes
  <2>3. ASSUME NEW role \in GivenRole, ChangeRole(s, role)
        PROVE  /\ RowsStay /\ \A m \in members' : m.role \in Role
               /\ \A o \in Org \ {w} : RowsIn(o, members') = RowsIn(o, members)
    <3> DEFINE Written(m) == IF m.id = req[s].row.id THEN [m EXCEPT !.role = role] ELSE m
    <3>1. /\ members' = {Written(m) : m \in members}
          /\ \A m \in members : m.id = req[s].row.id => m.org = w
      BY <2>3 DEF ChangeRole, TInv, Hand
    <3>2. \A m \in members : /\ Written(m).id = m.id /\ Written(m).org = m.org
                             /\ Written(m).role \in Role
                             /\ m.org # w => Written(m) = m
      BY <3>1, RoleAssumption DEF TInv, Shapes, IInv, Owned, Tables, MemberRow
    <3> HIDE DEF Written
    <3>3. QED
      BY <1>1, <3>1, <3>2 DEF RowsStay, RowsIn
  <2>4. QED
    BY <2>1, <2>2, <2>3
<1>4. Shapes'
  BY <1>1, <1>3 DEF TInv, Shapes
<1>5. \A o \in Org \ {w} : ~Changed(o)
  BY <1>1, <1>3 DEF Changed, Deleted, ProjectsIn
<1>6. ByAdmin(s, w)
  BY <1>1, <1>2 DEF ByAdmin, Manages, Deleted
<1>7. QED
  BY <1>1, <1>3, <1>4, <1>5, <1>6, Over DEF KeptApart, Apart

\* The endpoints that change projects.
LEMMA ProjectStep ==
    ASSUME TInv, NEW s \in Slot,
           \/ \E staging, lab \in BOOLEAN : CreateProject(s, staging, lab)
           \/ \E p \in Project, staging, lab \in BOOLEAN : UpdateProject(s, p, staging, lab)
           \/ \E p \in Project : DeleteProject(s, p)
    PROVE  KeptApart(s)
<1> DEFINE w == req[s].org
           Written(p, r) == /\ projects' = [projects EXCEPT ![p] = r]
                            /\ ProjectRow(r) /\ r.org = w
                            /\ projects[p].made => projects[p].org = w
<1>1. /\ Finish(s) /\ UNCHANGED <<orgs, members, rows>>
      /\ req[s].pc = "open" /\ AtLeast(req[s].role, "admin")
  BY DEF CreateProject, UpdateProject, DeleteProject, MayEditProjects, RequireRole
<1>2. Manages(req[s].held)
  BY <1>1 DEF TInv, Hand
<1>3. PICK p \in Project : \E r : Written(p, r)
  <2>1. ASSUME NEW staging \in BOOLEAN, NEW lab \in BOOLEAN, CreateProject(s, staging, lab)
        PROVE  \E p \in Project : \E r : Written(p, r)
    <3>1. /\ NewProject \in Project /\ ~projects[NewProject].made
          /\ projects' = [projects EXCEPT ![NewProject] =
                            [made |-> TRUE, org |-> w, active |-> TRUE, staging |-> staging,
                             lab |-> lab]]
      BY <2>1 DEF CreateProject, InsertProject, NewProject
    <3>2. QED
      BY <3>1 DEF ProjectRow
  <2>2. ASSUME NEW p \in Project, NEW staging \in BOOLEAN, NEW lab \in BOOLEAN,
               UpdateProject(s, p, staging, lab) \/ DeleteProject(s, p)
        PROVE  \E r : Written(p, r)
    <3>1. /\ projects[p].org = w /\ ProjectRow(projects[p])
          /\ \/ projects' = [projects EXCEPT ![p] =
                               [projects[p] EXCEPT !.staging = staging, !.lab = lab]]
             \/ projects' = [projects EXCEPT ![p] = [projects[p] EXCEPT !.active = FALSE]]
      BY <2>2 DEF UpdateProject, DeleteProject, Gettable, Projects, TInv, Shapes
    <3>2. QED
      BY <3>1 DEF ProjectRow
  <2>3. QED
    BY <2>1, <2>2
<1> PICK r : Written(p, r)
  BY <1>3
<1>4. Shapes'
  BY <1>1 DEF TInv, Shapes
<1>5. RowsStay
  BY <1>1 DEF RowsStay
<1>6. \A o \in Org \ {w} : ~Changed(o)
  BY <1>1 DEF Changed, Deleted, RowsIn, ProjectsIn, TInv, Shapes
<1>7. ByAdmin(s, w)
  BY <1>1, <1>2 DEF ByAdmin, Manages, Deleted
<1>8. QED
  BY <1>1, <1>4, <1>5, <1>6, <1>7, Over DEF KeptApart, Apart

\* The deletion of an organization.
LEMMA DeleteStep ==
    ASSUME TInv, NEW s \in Slot, DeleteOrg(s)
    PROVE  KeptApart(s)
<1> DEFINE w == req[s].org
<1>1. /\ Finish(s) /\ UNCHANGED <<members, rows, projects>>
      /\ req[s].pc = "open" /\ AtLeast(req[s].role, "owner") /\ ~orgs[w].managed
      /\ orgs' = [orgs EXCEPT ![w].active = FALSE]
  BY DEF DeleteOrg, MayDelete, RequireRole
<1>2. "owner" \in req[s].held
  BY <1>1 DEF TInv, Hand
<1>3. RowsStay /\ Shapes'
  BY <1>1 DEF RowsStay, TInv, Shapes, IInv, Owned, Tables, OrgRow
<1>4. \A o \in Org \ {w} : ~Changed(o)
  <2>1. \A o \in Org \ {w} : orgs'[o] = orgs[o]
    BY <1>1 DEF TInv, IInv, Owned, Tables
  <2>2. QED
    BY <1>1, <2>1, Untouched
<1>5. ByAdmin(s, w)
  BY <1>1, <1>2 DEF ByAdmin
<1>6. QED
  BY <1>1, <1>3, <1>4, <1>5, Over DEF KeptApart, Apart

\* At the start nobody has anything in hand.
LEMMA InitTInv == Init => TInv
<1> SUFFICES ASSUME Init PROVE TInv
  OBVIOUS
<1>1. Shapes
  <2>1. projects = [p \in Project |-> NoProject]
    BY DEF Init
  <2>2. ProjectRow(NoProject)
    BY DEF ProjectRow, NoProject
  <2>3. \A m \in members : m.role = "owner"
    BY DEF Init, OwnerRow
  <2>4. "owner" \in Role
    BY DEF Role, Rank
  <2>5. QED
    BY <2>1, <2>2, <2>3, <2>4 DEF Shapes
<1>2. \A s \in Slot : Hand(s)
  BY DEF Init, Hand, Idle
<1>3. QED
  BY <1>1, <1>2, InitOwned DEF TInv

\* Whose membership decides is in the membership's role.
LEMMA HeldRole ==
    ASSUME TInv, NEW u, NEW o \in Org, MembershipRole(u, o) # "refused"
    PROVE  LET role == MembershipRole(u, o)
               held == IF orgs[o].active /\ ~orgs[o].system
                       THEN {m.role : m \in RowsOf(u, o)} ELSE {}
           IN  /\ AtLeast(role, "admin") => Manages(held)
               /\ AtLeast(role, "owner") => "owner" \in held
<1>1. CASE Open(o) /\ RowsOf(u, o) # {}
  <2>1. PICK m \in RowsOf(u, o) : MembershipRole(u, o) = m.role
    BY <1>1 DEF MembershipRole
  <2>2. m.role \in Role
    BY <2>1 DEF RowsOf, TInv, Shapes
  <2>3. QED
    BY <1>1, <2>1, <2>2, Ranked DEF Open, Manages
<1>2. CASE ~(Open(o) /\ RowsOf(u, o) # {})
  <2>1. MembershipRole(u, o) = "viewer"
    BY <1>2 DEF MembershipRole
  <2>2. ~AtLeast("viewer", "admin") /\ ~AtLeast("viewer", "owner")
    BY DEF AtLeast, Rank
  <2>3. QED
    BY <2>1, <2>2
<1>3. QED
  BY <1>1, <1>2

\* No request changes another tenant.
LEMMA RequestApart ==
    ASSUME TInv, NEW s \in Slot, Request(s)
    PROVE  KeptApart(s)
<1>1. ASSUME NEW r, req' = [req EXCEPT ![s] = r] PROVE Answered(s) /\ req'[s] = r
  BY <1>1 DEF Answered, TInv, IInv, Requests
<1>2. ASSUME \/ \E u \in Caller, n \in Name : AskCreate(s, u, n) \/ AskManaged(s, u, n)
             \/ \E u \in Caller, o \in Org, to \in User : AskGrant(s, u, o, to)
      PROVE  KeptApart(s)
  <2>1. /\ UNCHANGED <<orgs, members, rows, projects>> /\ Answered(s)
        /\ req'[s].pc \in {"create", "grant"}
    BY <1>1, <1>2 DEF AskCreate, AskManaged, AskGrant, Start
  <2>2. Hand(s)'
    BY <2>1 DEF Hand
  <2>3. QED
    BY <2>1, <2>2, ReadingStep
<1>3. ASSUME NEW u, NEW deep, QuickLook(s, u, deep) PROVE KeptApart(s)
  <2>1. PICK org \in IF Workspaces(u) = {} THEN {{}} ELSE {{o} : o \in Workspaces(u)} :
          Start(s, [pc |-> "quick_look", user |-> u, org |-> org, deep |-> deep,
                    saw |-> Standing])
    BY <1>3 DEF QuickLook
  <2>2. /\ UNCHANGED <<orgs, members, rows, projects>>
        /\ req' = [req EXCEPT ![s] = [pc |-> "quick_look", user |-> u, org |-> org, deep |-> deep,
                                      saw |-> Standing]]
    BY <1>3, <2>1 DEF QuickLook, Start
  <2>3. /\ UNCHANGED <<orgs, members, rows, projects>> /\ Answered(s)
        /\ req'[s].pc = "quick_look" /\ req'[s].org = org
    BY <1>1, <2>2
  <2>4. org = {} \/ \E o \in Org : org = {o}
    BY DEF Workspaces, Standing
  <2>5. Hand(s)'
    BY <2>3, <2>4 DEF Hand
  <2>6. QED
    BY <2>3, <2>5, ReadingStep
<1>4. CASE QuickRead(s)
  <2>1. req[s].pc = "quick_look" /\ UNCHANGED <<orgs, members, rows, projects>>
    BY <1>4 DEF QuickRead
  <2> DEFINE r(slug, fit) == [pc |-> "quick", user |-> req[s].user, org |-> req[s].org,
                              saw |-> req[s].saw, slug |-> slug, needs |-> fit]
  <2>2. PICK slug, fit : req' = [req EXCEPT ![s] = r(slug, fit)]
    BY <1>4 DEF QuickRead, Proceed
  <2>3. r(slug, fit).pc = "quick" /\ r(slug, fit).org = req[s].org
    OBVIOUS
  <2> HIDE DEF r
  <2>4. /\ UNCHANGED <<orgs, members, rows, projects>> /\ Answered(s)
        /\ req'[s].pc = "quick" /\ req'[s].org = req[s].org /\ req[s].pc = "quick_look"
    BY <1>1, <2>1, <2>2, <2>3
  <2>5. Hand(s)'
    BY <2>4 DEF Hand, TInv
  <2>6. QED
    BY <2>4, <2>5, ReadingStep
<1>5. ASSUME NEW u, NEW o \in Org, Authorize(s, u, o) PROVE KeptApart(s)
  <2>1. /\ UNCHANGED <<orgs, members, rows, projects>> /\ Answered(s)
        /\ req'[s] = [pc |-> "open", user |-> u, org |-> o, role |-> MembershipRole(u, o),
                      held |-> IF orgs[o].active /\ ~orgs[o].system
                               THEN {m.role : m \in RowsOf(u, o)} ELSE {}]
        /\ MembershipRole(u, o) # "refused"
    BY <1>1, <1>5 DEF Authorize, Start
  <2>2. /\ req'[s].pc = "open"
        /\ AtLeast(req'[s].role, "admin") => Manages(req'[s].held)
        /\ AtLeast(req'[s].role, "owner") => "owner" \in req'[s].held
    <3> DEFINE role == MembershipRole(u, o)
               held == IF orgs[o].active /\ ~orgs[o].system
                       THEN {m.role : m \in RowsOf(u, o)} ELSE {}
    <3>1. /\ AtLeast(role, "admin") => Manages(held)
          /\ AtLeast(role, "owner") => "owner" \in held
      BY <2>1, HeldRole
    <3>2. req'[s].pc = "open" /\ req'[s].role = role /\ req'[s].held = held
      BY <2>1
    <3>3. QED
      BY <3>1, <3>2
  <2>3. Hand(s)'
    BY <2>2 DEF Hand, AtLeast, Manages
  <2>4. QED
    BY <2>1, <2>3, ReadingStep
<1>6. ASSUME NEW u, NEW role \in GivenRole, InviteRead(s, u, role) PROVE KeptApart(s)
  <2>1. /\ UNCHANGED <<orgs, members, rows, projects>> /\ Answered(s)
        /\ req'[s] = [pc |-> "invite", org |-> req[s].org, held |-> req[s].held,
                      row |-> [org |-> req[s].org, user |-> u, role |-> role]]
        /\ req[s].pc = "open" /\ AtLeast(req[s].role, "admin")
    BY <1>1, <1>6 DEF InviteRead, MayManageMembers, RequireRole, Proceed
  <2>2. Hand(s)'
    BY <2>1, RoleAssumption DEF Hand, TInv
  <2>3. QED
    BY <2>1, <2>2, ReadingStep
<1>7. ASSUME NEW m \in members, MemberRead(s, m) PROVE KeptApart(s)
  <2>1. /\ UNCHANGED <<orgs, members, rows, projects>> /\ Answered(s)
        /\ req'[s] = [pc |-> "member", org |-> req[s].org, held |-> req[s].held, row |-> m]
        /\ req[s].pc = "open" /\ AtLeast(req[s].role, "admin") /\ m.org = req[s].org
    BY <1>1, <1>7 DEF MemberRead, MayManageMembers, RequireRole, Proceed
  <2>2. \A n \in members : n.id = m.id => n = m
    BY DEF TInv, IInv, Owned, Tables
  <2>3. Hand(s)'
    BY <2>1, <2>2 DEF Hand, TInv
  <2>4. QED
    BY <2>1, <2>3, ReadingStep
<1>8. ASSUME Leave(s) \/ GiveGrant(s) PROVE KeptApart(s)
  <2>1. Finish(s) /\ UNCHANGED <<orgs, members, rows, projects>>
    BY <1>8 DEF Leave, GiveGrant
  <2>2. QED
    BY <2>1, EndingStep
<1>9. CASE Create(s)
  <2>1. /\ Room /\ InsertOrg(NewOrg, req[s], req[s].managed, FALSE) /\ Finish(s)
        /\ UNCHANGED projects
    BY <1>9 DEF Create
  <2>2. QED
    BY <2>1, NewOrgStep
<1>10. CASE AskLab(s) \/ LabRead(s)
  <2>1. CASE AskLab(s)
    <3> DEFINE found == {o \in Org : orgs[o].made /\ orgs[o].slug = LabSlug}
    <3>1. /\ UNCHANGED <<orgs, members, rows, projects>> /\ Answered(s)
          /\ req'[s].pc = "lab" /\ req'[s].found = found
      BY <1>1, <2>1 DEF AskLab, Start
    <3>2. Hand(s)'
      BY <3>1 DEF Hand
    <3>3. QED
      BY <3>1, <3>2, ReadingStep
  <2>2. CASE LabRead(s)
    <3>1. PICK b : req' = [req EXCEPT ![s] = [req[s] EXCEPT !.pc = "lab_project", !.lacks = b]]
      BY <2>2 DEF LabRead, Proceed
    <3>2. /\ UNCHANGED <<orgs, members, rows, projects>> /\ Answered(s)
          /\ req'[s] = [req[s] EXCEPT !.pc = "lab_project", !.lacks = b] /\ req[s].pc = "lab"
      BY <1>1, <2>2, <3>1 DEF LabRead
    <3>3. /\ req'[s].pc \in {"lab", "lab_project"}
          /\ req'[s].found = req[s].found
      BY <3>2
    <3>4. \A o \in req[s].found : o \in Org /\ orgs[o].made /\ orgs[o].slug = LabSlug
      BY <3>2 DEF TInv, Hand
    <3>5. Hand(s)'
      BY <3>2, <3>3, <3>4 DEF Hand
    <3>6. QED
      BY <3>2, <3>5, ReadingStep
  <2>3. QED
    BY <1>10, <2>1, <2>2
<1>11. CASE EnsureLab(s)
  <2>1. CASE Room /\ InsertOrg(NewOrg, req[s], FALSE, TRUE) /\ InsertProject(NewOrg, TRUE, TRUE)
    BY <1>11, <2>1, NewOrgStep DEF EnsureLab
  <2>2. ASSUME NEW w \in req[s].found, orgs' = [orgs EXCEPT ![w].system = TRUE],
               UNCHANGED <<members, rows>>, UNCHANGED projects \/ InsertProject(w, TRUE, TRUE)
        PROVE  KeptApart(s)
    BY <1>11, <2>2, RunnerStep DEF EnsureLab
  <2>3. QED
    BY <1>11, <2>1, <2>2 DEF EnsureLab
<1>12. CASE Quick(s)
  <2>1. Finish(s) /\ req[s].pc = "quick"
    BY <1>12 DEF Quick
  <2>2. CASE Room /\ InsertOrg(NewOrg, req[s], FALSE, FALSE) /\ InsertProject(NewOrg, TRUE, FALSE)
    BY <2>1, <2>2, NewOrgStep
  <2>3. CASE /\ \E o \in req[s].org : InsertProject(o, TRUE, FALSE)
             /\ UNCHANGED <<orgs, members, rows>>
    <3>1. PICK w \in req[s].org : InsertProject(w, TRUE, FALSE)
      BY <2>3
    <3>2. w \in Org
      BY <2>1, <3>1 DEF TInv, Hand
    <3>3. QED
      BY <2>1, <2>3, <3>1, <3>2, QuickStep
  <2>4. CASE UNCHANGED <<orgs, members, rows, projects>>
    BY <2>1, <2>4, EndingStep
  <2>5. QED
    BY <1>12, <2>2, <2>3, <2>4 DEF Quick
<1>13. ASSUME Invite(s) \/ Remove(s) \/ \E role \in GivenRole : ChangeRole(s, role)
       PROVE  KeptApart(s)
  BY <1>13, MemberStep
<1>14. ASSUME \/ \E staging, lab \in BOOLEAN : CreateProject(s, staging, lab)
              \/ \E p \in Project, staging, lab \in BOOLEAN : UpdateProject(s, p, staging, lab)
              \/ \E p \in Project : DeleteProject(s, p)
       PROVE  KeptApart(s)
  BY <1>14, ProjectStep
<1>15. CASE DeleteOrg(s)
  BY <1>15, DeleteStep
<1>16. QED
  BY <1>2, <1>3, <1>4, <1>5, <1>6, <1>7, <1>8, <1>9, <1>10, <1>11, <1>12, <1>13, <1>14, <1>15
     DEF Request

\* What no request does: grants end, and the platform switches organizations on and off.
LEMMA PlatformApart ==
    ASSUME TInv, UNCHANGED <<members, rows, projects, req>>,
           \A o \in Org : orgs'[o].made = orgs[o].made /\ orgs'[o].slug = orgs[o].slug
    PROVE  Shapes' /\ (\A t \in Slot : Hand(t)') /\ \A o \in Org : ~Changed(o)
<1>1. \A t \in Slot : Hand(t)'
  BY DEF TInv, Hand
<1>2. QED
  BY <1>1 DEF TInv, Shapes, Changed, RowsIn, ProjectsIn, Deleted

\* Every step keeps the invariant and changes a tenant only as TenantsApart allows.
LEMMA StepApart ==
    ASSUME TInv, [Next]_vars
    PROVE  /\ Shapes' /\ \A t \in Slot : Hand(t)'
           /\ \A o \in Org : (orgs[o].made /\ Changed(o)) =>
                 \E s \in Slot : req'[s] = Idle /\ (ByAdmin(s, o) \/ ByQuickScan(s, o) \/ ByRunner(s, o))
<1>1. ASSUME NEW s \in Slot, Request(s)
      PROVE  KeptApart(s)
  BY <1>1, RequestApart
<1>2. CASE \E g \in Grant : RevokeGrant(g) \/ Expire(g)
  BY <1>2, PlatformApart DEF RevokeGrant, Expire
<1>3. ASSUME NEW o \in Org, NEW active \in BOOLEAN, UpdatePilot(o, active)
      PROVE  Shapes' /\ (\A t \in Slot : Hand(t)') /\ \A w \in Org : ~Changed(w)
  <2>1. \A w \in Org : orgs'[w].made = orgs[w].made /\ orgs'[w].slug = orgs[w].slug
    BY <1>3 DEF UpdatePilot, TInv, IInv, Owned, Tables, OrgRow
  <2>2. QED
    BY <1>3, <2>1, PlatformApart DEF UpdatePilot
<1>4. CASE UNCHANGED vars
  BY <1>4, PlatformApart DEF vars
<1>5. QED
  BY <1>1, <1>2, <1>3, <1>4 DEF Next, KeptApart, Apart

\* What requests have in hand of their organization, for every interleaving.
THEOREM TInvariance == Spec => []TInv
<1>1. TInv /\ IInv' /\ [Next]_vars => TInv'
  BY StepApart DEF TInv
<1>2. QED
  BY <1>1, InitTInv, TenancyInvariance, PTL DEF Spec

\* However requests overlap, an organization's members and projects change, and it is
\* deactivated by a request, only through one by its admin or owner, or by a one-step scan
\* or, in the organization with its slug, the benchmark's runner, which add a project.
THEOREM TenantsKeptApart == Spec => TenantsApart
<1>1. TInv /\ [Next]_vars =>
        [\A o \in Org : (orgs[o].made /\ Changed(o)) =>
            \E s \in Slot : req'[s] = Idle /\ (ByAdmin(s, o) \/ ByQuickScan(s, o) \/ ByRunner(s, o))]_vars
  BY StepApart
<1>2. QED
  BY <1>1, TInvariance, PTL DEF Spec, TenantsApart
-----------------------------------------------------------------------------
(* Lists and access agree, and what is double was asked for by requests    *)
(* that overlapped: the invariant above with what requests have seen.      *)

OrgTable == [Org -> [made : BOOLEAN, owner : User, slug : Slug, active : BOOLEAN,
                     managed : BOOLEAN, system : BOOLEAN, quick : BOOLEAN, saw : SUBSET Org]]
ProjectTable == [Project -> [made : BOOLEAN, org : Org, active : BOOLEAN, staging : BOOLEAN,
                             lab : BOOLEAN]]
GrantTable == [Grant -> [made : BOOLEAN, org : Org, user : User, revoked : BOOLEAN,
                         expired : BOOLEAN, saw : SUBSET Grant]]
Typed == /\ orgs \in OrgTable /\ members \subseteq Member /\ rows \in 0..MaxRows
         /\ projects \in ProjectTable /\ grants \in GrantTable

\* The grants and the workspaces seen before one was made exist, and are not for the
\* same organization and admin, not the same user's.
GrantElsewhere(g, o, u) == grants[g].made /\ (grants[g].org # o \/ grants[g].user # u)
OrgOfOther(o, u) == orgs[o].made /\ orgs[o].owner # u
GrantsSeen == \A h \in Grant : grants[h].made =>
    \A g \in grants[h].saw : GrantElsewhere(g, grants[h].org, grants[h].user)
WorkspacesSeen == \A w \in Org : (orgs[w].made /\ orgs[w].quick) =>
    \A o \in orgs[w].saw : OrgOfOther(o, orgs[w].owner)

\* What a request writes is of its type, and what it has seen was not the caller's.
Seen(s) ==
    /\ req[s].pc \in {"idle", "create", "lab", "lab_project", "quick_look", "quick",
                      "open", "invite", "member", "grant"}
    /\ req[s].pc \in {"create", "lab", "lab_project", "quick"} => req[s].slug \in Slug
    /\ req[s].pc \in {"create", "lab", "lab_project", "quick", "quick_look"} =>
         req[s].user \in User /\ req[s].saw \subseteq Org
    /\ req[s].pc = "create" => req[s].managed \in BOOLEAN
    /\ req[s].pc \in {"quick", "quick_look"} /\ req[s].org = {} =>
         \A o \in req[s].saw : OrgOfOther(o, req[s].user)
    /\ req[s].pc = "invite" => req[s].row.user \in User
    /\ req[s].pc = "grant" =>
         /\ req[s].org \in Org /\ req[s].to \in User /\ req[s].saw \subseteq Grant
         /\ \A g \in req[s].saw : GrantElsewhere(g, req[s].org, req[s].to)

AInv == Typed /\ GrantsSeen /\ WorkspacesSeen /\ \A s \in Slot : Seen(s)

\* A slug is found: one suffix of the candidates is not taken, and one of those is the
\* least.
LEMMA SlugFound == ASSUME NEW n \in Name PROVE UniqueSlug(n) \in Slug
<1> DEFINE K == 1..(Cardinality(Org) + 1)
           free == {k \in K : ~Taken(<<n, k>>)}
<1>1. Cardinality(Org) \in Nat
  BY FiniteAssumption, FS_CardinalityType
<1>2. free # {}
  <2> SUFFICES ASSUME \A k \in K : Taken(<<n, k>>) PROVE FALSE
    OBVIOUS
  <2> DEFINE f == [k \in K |-> CHOOSE o \in Org : orgs[o].made /\ orgs[o].slug = <<n, k>>]
  <2>1. \A k \in K : f[k] \in Org /\ orgs[f[k]].slug = <<n, k>>
    BY DEF Taken
  <2>2. f \in [K -> Org]
    BY <2>1
  <2>3. IsFiniteSet(K) /\ Cardinality(K) = Cardinality(Org) + 1
    BY <1>1, FS_Interval
  <2> HIDE DEF f, K
  <2>4. PICK j, k \in K : j # k /\ f[j] = f[k]
    BY <1>1, <2>2, <2>3, FiniteAssumption, FS_PigeonHole
  <2>5. <<n, j>> = <<n, k>>
    BY <2>1, <2>4
  <2>6. QED
    BY <2>4, <2>5
<1>3. PICK k \in free : \A j \in free : ~(<<j, k>> \in OpToRel(<, Nat))
  <2>1. free \subseteq Nat
    BY <1>1
  <2>2. QED
    BY <1>2, <2>1, NatLessThanWellFounded, WFMin
<1>4. ASSUME NEW j \in 1..(k - 1) PROVE Taken(<<n, j>>)
  <2>1. j \in K /\ j < k /\ j \in Nat /\ k \in Nat
    BY <1>1
  <2>2. <<j, k>> \in OpToRel(<, Nat)
    BY <2>1 DEF OpToRel
  <2>3. QED
    BY <1>3, <2>1, <2>2
<1>5. k \in K /\ ~Taken(<<n, k>>)
  OBVIOUS
<1>6. QED
  BY <1>4, <1>5 DEF UniqueSlug, Slug

LEMMA InitAInv == Init => AInv
<1> SUFFICES ASSUME Init PROVE AInv
  OBVIOUS
<1>1. Cardinality(Org) \in Nat
  BY FiniteAssumption, FS_CardinalityType
<1>2. \A n \in Name : <<n, 1>> \in Slug
  BY <1>1 DEF Slug
<1>3. LabSlug \in Slug
  BY <1>2, TenancyAssumption DEF LabSlug
<1>4. orgs \in OrgTable /\ \A o \in Org : ~orgs[o].quick
  <2> DEFINE Row == [made : BOOLEAN, owner : User, slug : Slug, active : BOOLEAN,
                     managed : BOOLEAN, system : BOOLEAN, quick : BOOLEAN, saw : SUBSET Org]
  <2>1. PICK n \in Name \ {LabName} :
          orgs = [o \in Org |-> IF o = Home THEN [NoOrg EXCEPT !.made = TRUE, !.active = TRUE,
                                                              !.slug = <<n, 1>>]
                                ELSE NoOrg]
    BY DEF Init
  <2>2. NoOrg \in Row /\ ~NoOrg.quick
    BY <1>3, TenancyAssumption DEF NoOrg
  <2>3. LET h == [NoOrg EXCEPT !.made = TRUE, !.active = TRUE, !.slug = <<n, 1>>]
        IN  h \in Row /\ ~h.quick
    BY <1>2, <2>2 DEF NoOrg
  <2>4. QED
    BY <2>1, <2>2, <2>3 DEF OrgTable
<1>5. members \subseteq Member /\ rows \in 0..MaxRows
  <2>1. OwnerRow(0, Home, Founder) \in Member
    BY TenancyAssumption DEF OwnerRow, Member, Role, Rank
  <2>2. 1 \in 0..MaxRows
    BY TenancyAssumption
  <2>3. QED
    BY <2>1, <2>2 DEF Init
<1>6. projects \in ProjectTable
  BY TenancyAssumption DEF Init, NoProject, ProjectTable
<1>7. grants \in GrantTable /\ \A g \in Grant : ~grants[g].made
  BY TenancyAssumption DEF Init, NoGrant, GrantTable
<1>8. \A s \in Slot : Seen(s)
  BY DEF Init, Seen, Idle
<1>9. QED
  BY <1>4, <1>5, <1>6, <1>7, <1>8 DEF AInv, Typed, GrantsSeen, WorkspacesSeen

\* Rows are never forgotten, and change neither owner nor what they grant to whom.
Grows ==
    /\ \A o \in Org : orgs[o].made => orgs'[o].made /\ orgs'[o].owner = orgs[o].owner
    /\ \A g \in Grant : grants[g].made =>
         grants'[g].made /\ grants'[g].org = grants[g].org /\ grants'[g].user = grants[g].user

\* What the tables are after a step.
TablesSeen == Typed' /\ GrantsSeen' /\ WorkspacesSeen' /\ Grows

LEMMA SeenKept ==
    ASSUME AInv, NEW t \in Slot, Grows, req'[t] = req[t]
    PROVE  Seen(t)'
<1>1. ASSUME NEW o \in Org, NEW u, OrgOfOther(o, u) PROVE OrgOfOther(o, u)'
  BY <1>1 DEF OrgOfOther, Grows
<1>2. ASSUME NEW g \in Grant, NEW o, NEW u, GrantElsewhere(g, o, u) PROVE GrantElsewhere(g, o, u)'
  BY <1>2 DEF GrantElsewhere, Grows
<1>3. Seen(t)
  BY DEF AInv
<1>4. /\ req[t].pc \in {"quick", "quick_look"} /\ req[t].org = {} =>
           \A o \in req[t].saw : OrgOfOther(o, req[t].user)'
      /\ req[t].pc = "grant" => \A g \in req[t].saw : GrantElsewhere(g, req[t].org, req[t].to)'
  BY <1>1, <1>2, <1>3 DEF Seen
<1>5. QED
  BY <1>3, <1>4 DEF Seen, OrgOfOther, GrantElsewhere

\* A request that ends, or goes on with what it may rely on.
LEMMA EndSeen ==
    ASSUME TInv, AInv, NEW s \in Slot, TablesSeen, Finish(s)
    PROVE  AInv'
<1>1. req'[s] = Idle /\ \A t \in Slot \ {s} : req'[t] = req[t]
  BY DEF Finish, Proceed, TInv, IInv, Requests
<1>2. Seen(s)'
  BY <1>1 DEF Seen, Idle
<1>3. QED
  BY <1>1, <1>2, SeenKept DEF AInv, TablesSeen

LEMMA SameTables ==
    ASSUME AInv, UNCHANGED <<orgs, members, rows, projects, grants>>
    PROVE  TablesSeen
BY DEF AInv, TablesSeen, Typed, Grows, GrantsSeen, WorkspacesSeen, GrantElsewhere, OrgOfOther

LEMMA ReadSeen ==
    ASSUME TInv, AInv, NEW s \in Slot, NEW r, req' = [req EXCEPT ![s] = r],
           UNCHANGED <<orgs, members, rows, projects, grants>>, req'[s] = r => Seen(s)'
    PROVE  AInv'
<1>1. req'[s] = r /\ \A t \in Slot \ {s} : req'[t] = req[t]
  BY DEF TInv, IInv, Requests
<1>2. QED
  BY <1>1, SeenKept, SameTables DEF AInv, TablesSeen

\* A new organization, made by a request that has its slug and knows whom it is for.
LEMMA InsertSeen ==
    ASSUME TInv, AInv, NEW s \in Slot, Room, NEW managed \in BOOLEAN, NEW system \in BOOLEAN,
           req[s].pc \in {"create", "lab_project", "quick"}, req[s].pc = "quick" => req[s].org = {},
           InsertOrg(NewOrg, req[s], managed, system), UNCHANGED grants,
           projects' \in ProjectTable
    PROVE  TablesSeen
<1> DEFINE x == NewOrg
           r == req[s]
           new == [made |-> TRUE, owner |-> r.user, slug |-> r.slug, active |-> TRUE,
                   managed |-> managed, system |-> system,
                   quick |-> r.pc = "quick", saw |-> r.saw]
<1>1. x \in Org /\ ~orgs[x].made
  BY NewOrgIsNew
<1>2. /\ r.user \in User /\ r.slug \in Slug /\ r.saw \subseteq Org
      /\ r.pc = "quick" => \A o \in r.saw : OrgOfOther(o, r.user)
  BY DEF AInv, Seen
<1>3. /\ orgs' = [orgs EXCEPT ![x] = new]
      /\ members' = members \cup {OwnerRow(rows, x, r.user)} /\ rows' = rows + 1
  BY DEF InsertOrg
<1> HIDE DEF x, r
<1>4. orgs' \in OrgTable
  <2>1. new \in [made : BOOLEAN, owner : User, slug : Slug, active : BOOLEAN,
                 managed : BOOLEAN, system : BOOLEAN, quick : BOOLEAN, saw : SUBSET Org]
    BY <1>2
  <2>2. QED
    BY <1>3, <2>1 DEF AInv, Typed, OrgTable
<1>5. rows \in 0..MaxRows /\ rows < MaxRows /\ rows + 1 \in 0..MaxRows
  BY TenancyAssumption DEF AInv, Typed, Room
<1>6. OwnerRow(rows, x, r.user) \in Member
  BY <1>1, <1>2, <1>5 DEF OwnerRow, Member, Role, Rank
<1>7. Typed'
  BY <1>3, <1>4, <1>5, <1>6 DEF AInv, Typed
<1>8. orgs'[x] = new /\ \A o \in Org \ {x} : orgs'[o] = orgs[o]
  BY <1>1, <1>3 DEF AInv, Typed, OrgTable
<1>9. \A o \in Org : \A u : OrgOfOther(o, u) => o # x /\ OrgOfOther(o, u)'
  BY <1>1, <1>8 DEF OrgOfOther
<1>10. WorkspacesSeen'
  <2> SUFFICES ASSUME NEW w \in Org, orgs'[w].made, orgs'[w].quick, NEW o \in orgs'[w].saw
               PROVE  OrgOfOther(o, orgs[w].owner)'
    BY DEF WorkspacesSeen
  <2>1. CASE w = x
    <3>1. orgs'[w].owner = r.user /\ o \in r.saw /\ r.pc = "quick"
      <4>1. orgs'[w].owner = r.user /\ o \in r.saw /\ new.quick
        BY <1>8, <2>1
      <4>2. new.quick = (r.pc = "quick")
        OBVIOUS
      <4>3. QED
        BY <4>1, <4>2
    <3>2. o \in Org /\ OrgOfOther(o, r.user)
      BY <1>2, <3>1
    <3>3. o # x
      BY <1>9, <3>2
    <3>4. QED
      BY <1>8, <2>1, <3>1, <3>2, <3>3 DEF OrgOfOther
  <2>2. CASE w # x
    <3>1. orgs'[w] = orgs[w]
      BY <1>8, <2>2
    <3>2. o \in Org /\ OrgOfOther(o, orgs[w].owner)
      BY <3>1 DEF AInv, WorkspacesSeen, Typed, OrgTable
    <3>3. o # x
      BY <1>1, <3>2 DEF OrgOfOther
    <3>4. QED
      BY <1>8, <3>1, <3>2, <3>3 DEF OrgOfOther
  <2>3. QED
    BY <2>1, <2>2
<1>11. Grows
  BY <1>1, <1>8 DEF Grows
<1>12. GrantsSeen'
  BY DEF AInv, GrantsSeen, GrantElsewhere
<1>13. QED
  BY <1>7, <1>10, <1>11, <1>12 DEF TablesSeen

\* Organizations marked, or switched on and off.
LEMMA MarkSeen ==
    ASSUME AInv, UNCHANGED <<members, rows, grants>>, projects' \in ProjectTable,
           orgs' = [o \in Org |-> orgs'[o]],
           \A o \in Org : \/ orgs'[o] = orgs[o]
                          \/ \E b \in BOOLEAN : \/ orgs'[o] = [orgs[o] EXCEPT !.active = b]
                                                \/ orgs'[o] = [orgs[o] EXCEPT !.system = b]
    PROVE  TablesSeen
<1> DEFINE Row == [made : BOOLEAN, owner : User, slug : Slug, active : BOOLEAN,
                   managed : BOOLEAN, system : BOOLEAN, quick : BOOLEAN, saw : SUBSET Org]
<1>1. ASSUME NEW o \in Org
      PROVE  /\ orgs'[o] \in Row
             /\ orgs'[o].made = orgs[o].made /\ orgs'[o].owner = orgs[o].owner
             /\ orgs'[o].quick = orgs[o].quick /\ orgs'[o].saw = orgs[o].saw
  <2>1. orgs[o] \in Row
    BY DEF AInv, Typed, OrgTable
  <2>2. CASE orgs'[o] = orgs[o]
    BY <2>1, <2>2
  <2>3. ASSUME NEW b \in BOOLEAN, \/ orgs'[o] = [orgs[o] EXCEPT !.active = b]
                                  \/ orgs'[o] = [orgs[o] EXCEPT !.system = b]
        PROVE  /\ orgs'[o] \in Row
               /\ orgs'[o].made = orgs[o].made /\ orgs'[o].owner = orgs[o].owner
               /\ orgs'[o].quick = orgs[o].quick /\ orgs'[o].saw = orgs[o].saw
    BY <2>1, <2>3
  <2>4. QED
    BY <2>2, <2>3
<1>2. Typed'
  BY <1>1 DEF AInv, Typed, OrgTable
<1>3. WorkspacesSeen'
  <2> SUFFICES ASSUME NEW w \in Org, orgs'[w].made, orgs'[w].quick, NEW o \in orgs'[w].saw
               PROVE  orgs'[o].made /\ orgs'[o].owner # orgs'[w].owner
    BY DEF WorkspacesSeen, OrgOfOther
  <2>1. o \in Org /\ orgs[o].made /\ orgs[o].owner # orgs[w].owner
    BY <1>1 DEF AInv, Typed, OrgTable, WorkspacesSeen, OrgOfOther
  <2>2. QED
    BY <1>1, <2>1
<1>4. Grows /\ GrantsSeen'
  BY <1>1 DEF Grows, AInv, GrantsSeen, GrantElsewhere
<1>5. QED
  BY <1>2, <1>3, <1>4 DEF TablesSeen

\* Memberships, or projects, in an organization.
LEMMA RowsSeen ==
    ASSUME AInv, UNCHANGED <<orgs, grants>>, members' \subseteq Member, rows' \in 0..MaxRows,
           projects' \in ProjectTable
    PROVE  TablesSeen
<1>1. Typed'
  BY DEF AInv, Typed
<1>2. WorkspacesSeen' /\ GrantsSeen' /\ Grows
  BY DEF AInv, WorkspacesSeen, GrantsSeen, Grows, OrgOfOther, GrantElsewhere
<1>3. QED
  BY <1>1, <1>2 DEF TablesSeen

LEMMA ProjectInserted ==
    ASSUME AInv, NEW o \in Org, NEW staging \in BOOLEAN, NEW lab \in BOOLEAN,
           InsertProject(o, staging, lab)
    PROVE  projects' \in ProjectTable
BY DEF InsertProject, AInv, Typed, ProjectTable

\* A grant, made by a request that has seen none for its organization and admin.
LEMMA GrantSeen ==
    ASSUME TInv, AInv, NEW s \in Slot, GiveGrant(s)
    PROVE  TablesSeen
<1> DEFINE x == CHOOSE g \in Grant : ~grants[g].made
           r == req[s]
           new == [made |-> TRUE, org |-> r.org, user |-> r.to, revoked |-> FALSE,
                   expired |-> FALSE, saw |-> r.saw]
<1>1. x \in Grant /\ ~grants[x].made
  BY DEF GiveGrant
<1>2. /\ r.org \in Org /\ r.to \in User /\ r.saw \subseteq Grant
      /\ \A g \in r.saw : GrantElsewhere(g, r.org, r.to)
  BY DEF GiveGrant, AInv, Seen
<1>3. grants' = [grants EXCEPT ![x] = new] /\ UNCHANGED <<orgs, members, rows, projects>>
  BY DEF GiveGrant
<1> HIDE DEF x, r
<1>4. Typed'
  <2>1. new \in [made : BOOLEAN, org : Org, user : User, revoked : BOOLEAN,
                 expired : BOOLEAN, saw : SUBSET Grant]
    BY <1>2
  <2>2. grants' \in GrantTable
    BY <1>3, <2>1 DEF AInv, Typed, GrantTable
  <2>3. QED
    BY <1>3, <2>2 DEF AInv, Typed
<1>5. grants'[x] = new /\ \A g \in Grant \ {x} : grants'[g] = grants[g]
  BY <1>1, <1>3 DEF AInv, Typed, GrantTable
<1>6. ASSUME NEW g \in Grant, NEW o, NEW u, GrantElsewhere(g, o, u)
      PROVE  grants'[g].made /\ (grants'[g].org # o \/ grants'[g].user # u)
  <2>1. g # x
    BY <1>1, <1>6 DEF GrantElsewhere
  <2>2. QED
    BY <1>5, <1>6, <2>1 DEF GrantElsewhere
<1>7. GrantsSeen'
  <2> SUFFICES ASSUME NEW h \in Grant, grants'[h].made, NEW g \in grants'[h].saw
               PROVE  /\ grants'[g].made
                      /\ grants'[g].org # grants'[h].org \/ grants'[g].user # grants'[h].user
    BY DEF GrantsSeen, GrantElsewhere
  <2>1. CASE h = x
    BY <1>2, <1>5, <1>6, <2>1
  <2>2. CASE h # x
    <3>1. grants'[h] = grants[h]
      BY <1>5, <2>2
    <3>2. g \in Grant /\ GrantElsewhere(g, grants[h].org, grants[h].user)
      BY <3>1 DEF AInv, GrantsSeen, Typed, GrantTable
    <3>3. QED
      BY <1>6, <3>1, <3>2
  <2>3. QED
    BY <2>1, <2>2
<1>8. Grows
  BY <1>1, <1>3, <1>5 DEF Grows
<1>9. WorkspacesSeen'
  BY <1>3 DEF AInv, WorkspacesSeen, OrgOfOther
<1>10. QED
  BY <1>4, <1>7, <1>8, <1>9 DEF TablesSeen

\* A grant that ends.
LEMMA GrantEndSeen ==
    ASSUME AInv, NEW g \in Grant, RevokeGrant(g) \/ Expire(g)
    PROVE  TablesSeen
<1> DEFINE Row == [made : BOOLEAN, org : Org, user : User, revoked : BOOLEAN,
                   expired : BOOLEAN, saw : SUBSET Grant]
<1>1. /\ \/ grants' = [grants EXCEPT ![g].revoked = TRUE]
         \/ grants' = [grants EXCEPT ![g].expired = TRUE]
      /\ UNCHANGED <<orgs, members, rows, projects>>
  BY DEF RevokeGrant, Expire
<1>2. ASSUME NEW h \in Grant
      PROVE  /\ grants'[h] \in Row
             /\ grants'[h].made = grants[h].made /\ grants'[h].saw = grants[h].saw
             /\ grants'[h].org = grants[h].org /\ grants'[h].user = grants[h].user
  <2>1. grants[h] \in Row
    BY DEF AInv, Typed, GrantTable
  <2>2. \/ grants'[h] = grants[h]
        \/ grants'[h] = [grants[h] EXCEPT !.revoked = TRUE]
        \/ grants'[h] = [grants[h] EXCEPT !.expired = TRUE]
    BY <1>1 DEF AInv, Typed, GrantTable
  <2>3. QED
    BY <2>1, <2>2
<1>3. Typed'
  <2>1. grants' \in GrantTable
    <3>1. grants' = [h \in Grant |-> grants'[h]]
      BY <1>1 DEF AInv, Typed, GrantTable
    <3>2. QED
      BY <1>2, <3>1 DEF GrantTable
  <2>2. QED
    BY <1>1, <2>1 DEF AInv, Typed
<1>4. GrantsSeen'
  <2> SUFFICES ASSUME NEW h \in Grant, grants'[h].made, NEW k \in grants'[h].saw
               PROVE  /\ grants'[k].made
                      /\ grants'[k].org # grants'[h].org \/ grants'[k].user # grants'[h].user
    BY DEF GrantsSeen, GrantElsewhere
  <2>1. k \in Grant /\ GrantElsewhere(k, grants[h].org, grants[h].user)
    BY <1>2 DEF AInv, GrantsSeen, Typed, GrantTable
  <2>2. QED
    BY <1>2, <2>1 DEF GrantElsewhere
<1>5. Grows /\ WorkspacesSeen'
  BY <1>1, <1>2 DEF AInv, Grows, WorkspacesSeen, OrgOfOther
<1>6. QED
  BY <1>3, <1>4, <1>5 DEF TablesSeen

\* What each request reads, and what it has seen when it has.
LEMMA AskSeen ==
    ASSUME TInv, AInv, NEW s \in Slot,
           \/ \E u \in Caller, n \in Name : AskCreate(s, u, n) \/ AskManaged(s, u, n)
           \/ AskLab(s) \/ LabRead(s)
           \/ \E u \in Caller, deep \in BOOLEAN : QuickLook(s, u, deep)
           \/ QuickRead(s)
           \/ \E u \in Caller, o \in Org, to \in User : AskGrant(s, u, o, to)
    PROVE  AInv'
<1>1. ASSUME NEW u \in Caller, NEW n \in Name, AskCreate(s, u, n) \/ AskManaged(s, u, n)
      PROVE  AInv'
  <2>1. PICK managed \in BOOLEAN :
          req' = [req EXCEPT ![s] = [pc |-> "create", user |-> u, slug |-> UniqueSlug(n),
                                     managed |-> managed, saw |-> {}]]
    BY <1>1 DEF AskCreate, AskManaged, Start
  <2>2. UNCHANGED <<orgs, members, rows, projects, grants>>
    BY <1>1 DEF AskCreate, AskManaged
  <2>3. UniqueSlug(n) \in Slug /\ u \in User
    BY SlugFound DEF Caller
  <2>4. ASSUME req'[s] = [pc |-> "create", user |-> u, slug |-> UniqueSlug(n),
                          managed |-> managed, saw |-> {}]
        PROVE  Seen(s)'
    BY <2>3, <2>4 DEF Seen
  <2>5. QED
    BY <2>1, <2>2, <2>4, ReadSeen
<1>2. CASE AskLab(s)
  <2>1. /\ req' = [req EXCEPT ![s] =
                     [pc |-> "lab", user |-> Runner, slug |-> LabSlug, saw |-> {}, lacks |-> FALSE,
                      found |-> {o \in Org : orgs[o].made /\ orgs[o].slug = LabSlug}]]
        /\ UNCHANGED <<orgs, members, rows, projects, grants>>
    BY <1>2 DEF AskLab, Start
  <2>2. Runner \in User /\ LabSlug \in Slug
    BY TenancyAssumption, FiniteAssumption, FS_CardinalityType DEF LabSlug, Slug
  <2>3. ASSUME req'[s] = [pc |-> "lab", user |-> Runner, slug |-> LabSlug, saw |-> {}, lacks |-> FALSE,
                          found |-> {o \in Org : orgs[o].made /\ orgs[o].slug = LabSlug}]
        PROVE  Seen(s)'
    BY <2>2, <2>3 DEF Seen
  <2>4. QED
    BY <2>1, <2>3, ReadSeen
<1>3. CASE LabRead(s)
  <2>1. PICK b : req' = [req EXCEPT ![s] = [req[s] EXCEPT !.pc = "lab_project", !.lacks = b]]
    BY <1>3 DEF LabRead, Proceed
  <2>2. req[s].pc = "lab" /\ UNCHANGED <<orgs, members, rows, projects, grants>> /\ Seen(s)
    BY <1>3 DEF LabRead, AInv
  <2>3. ASSUME req'[s] = [req[s] EXCEPT !.pc = "lab_project", !.lacks = b] PROVE Seen(s)'
    <3>1. /\ req'[s].pc \in {"lab", "lab_project"}
          /\ req'[s].slug = req[s].slug /\ req'[s].user = req[s].user /\ req'[s].saw = req[s].saw
      BY <2>2, <2>3
    <3>2. QED
      BY <2>2, <3>1 DEF Seen
  <2>4. QED
    BY <2>1, <2>2, <2>3, ReadSeen
<1>4. ASSUME NEW u \in Caller, NEW deep \in BOOLEAN, QuickLook(s, u, deep) PROVE AInv'
  <2>1. PICK org \in IF Workspaces(u) = {} THEN {{}} ELSE {{o} : o \in Workspaces(u)} :
          req' = [req EXCEPT ![s] = [pc |-> "quick_look", user |-> u, org |-> org,
                                     deep |-> deep, saw |-> Standing]]
    BY <1>4 DEF QuickLook, Start
  <2>2. UNCHANGED <<orgs, members, rows, projects, grants>>
    BY <1>4 DEF QuickLook
  <2>3. ASSUME org = {}, NEW o \in Standing PROVE orgs[o].made /\ orgs[o].owner # u
    BY <2>1, <2>3 DEF Workspaces, Standing
  <2>4. u \in User /\ Standing \subseteq Org
    BY DEF Caller, Standing
  <2>5. ASSUME req'[s] = [pc |-> "quick_look", user |-> u, org |-> org,
                          deep |-> deep, saw |-> Standing]
        PROVE  Seen(s)'
    BY <2>2, <2>3, <2>4, <2>5 DEF Seen, OrgOfOther
  <2>6. QED
    BY <2>1, <2>2, <2>5, ReadSeen
<1>5. CASE QuickRead(s)
  <2>1. /\ req[s].pc = "quick_look"
        /\ \E needs : req' = [req EXCEPT ![s] =
             [pc |-> "quick", user |-> req[s].user, org |-> req[s].org, saw |-> req[s].saw,
              slug |-> UniqueSlug(QuickName), needs |-> needs]]
        /\ UNCHANGED <<orgs, members, rows, projects, grants>>
    BY <1>5 DEF QuickRead, Proceed
  <2>2. PICK needs : req' = [req EXCEPT ![s] =
             [pc |-> "quick", user |-> req[s].user, org |-> req[s].org, saw |-> req[s].saw,
              slug |-> UniqueSlug(QuickName), needs |-> needs]]
    BY <2>1
  <2>3. UniqueSlug(QuickName) \in Slug
    BY SlugFound, TenancyAssumption
  <2>4. Seen(s)
    BY DEF AInv
  <2>5. ASSUME req'[s] = [pc |-> "quick", user |-> req[s].user, org |-> req[s].org,
                          saw |-> req[s].saw, slug |-> UniqueSlug(QuickName), needs |-> needs]
        PROVE  Seen(s)'
    BY <2>1, <2>3, <2>4, <2>5 DEF Seen, OrgOfOther
  <2>6. QED
    BY <2>1, <2>2, <2>5, ReadSeen
<1>6. ASSUME NEW u \in Caller, NEW o \in Org, NEW to \in User, AskGrant(s, u, o, to)
      PROVE  AInv'
  <2>1. /\ req' = [req EXCEPT ![s] = [pc |-> "grant", org |-> o, to |-> to,
                                      saw |-> {g \in Grant : Active(g)}]]
        /\ UNCHANGED <<orgs, members, rows, projects, grants>>
        /\ \A g \in Grant : Active(g) => grants[g].org # o \/ grants[g].user # to
    BY <1>6 DEF AskGrant, Start, ActiveGrants
  <2>2. ASSUME req'[s] = [pc |-> "grant", org |-> o, to |-> to, saw |-> {g \in Grant : Active(g)}]
        PROVE  Seen(s)'
    <3>1. \A g \in req'[s].saw : g \in Grant /\ GrantElsewhere(g, o, to)'
      BY <2>1, <2>2 DEF GrantElsewhere, Active
    <3>2. QED
      BY <2>2, <3>1 DEF Seen, GrantElsewhere
  <2>3. QED
    BY <2>1, <2>2, ReadSeen
<1>7. QED
  BY <1>1, <1>2, <1>3, <1>4, <1>5, <1>6

\* The endpoints of an organization.
LEMMA OpenSeen ==
    ASSUME TInv, AInv, NEW s \in Slot,
           \/ \E u \in Caller, o \in Org : Authorize(s, u, o)
           \/ \E u \in User, role \in GivenRole : InviteRead(s, u, role)
           \/ \E m \in members : MemberRead(s, m)
           \/ Leave(s)
    PROVE  AInv'
<1>1. ASSUME NEW u \in Caller, NEW o \in Org, Authorize(s, u, o) PROVE AInv'
  <2> DEFINE r == [pc |-> "open", user |-> u, org |-> o, role |-> MembershipRole(u, o),
                   held |-> IF orgs[o].active /\ ~orgs[o].system
                            THEN {m.role : m \in RowsOf(u, o)} ELSE {}]
  <2>1. req' = [req EXCEPT ![s] = r] /\ UNCHANGED <<orgs, members, rows, projects, grants>>
    BY <1>1 DEF Authorize, Start
  <2>2. r.pc = "open"
    OBVIOUS
  <2> HIDE DEF r
  <2>3. ASSUME req'[s] = r PROVE Seen(s)'
    BY <2>2, <2>3 DEF Seen
  <2>4. QED
    BY <2>1, <2>3, ReadSeen
<1>2. ASSUME NEW u \in User, NEW role \in GivenRole, InviteRead(s, u, role) PROVE AInv'
  <2>1. /\ req' = [req EXCEPT ![s] = [pc |-> "invite", org |-> req[s].org, held |-> req[s].held,
                                      row |-> [org |-> req[s].org, user |-> u, role |-> role]]]
        /\ UNCHANGED <<orgs, members, rows, projects, grants>>
    BY <1>2 DEF InviteRead, Proceed
  <2>2. ASSUME req'[s] = [pc |-> "invite", org |-> req[s].org, held |-> req[s].held,
                          row |-> [org |-> req[s].org, user |-> u, role |-> role]]
        PROVE  Seen(s)'
    BY <2>2 DEF Seen
  <2>3. QED
    BY <2>1, <2>2, ReadSeen
<1>3. ASSUME NEW m \in members, MemberRead(s, m) PROVE AInv'
  <2>1. /\ req' = [req EXCEPT ![s] = [pc |-> "member", org |-> req[s].org,
                                      held |-> req[s].held, row |-> m]]
        /\ UNCHANGED <<orgs, members, rows, projects, grants>>
    BY <1>3 DEF MemberRead, Proceed
  <2>2. ASSUME req'[s] = [pc |-> "member", org |-> req[s].org, held |-> req[s].held, row |-> m]
        PROVE  Seen(s)'
    BY <2>2 DEF Seen
  <2>3. QED
    BY <2>1, <2>2, ReadSeen
<1>4. CASE Leave(s)
  BY <1>4, SameTables, EndSeen DEF Leave
<1>5. QED
  BY <1>1, <1>2, <1>3, <1>4

\* The requests that write.
LEMMA WriteSeen ==
    ASSUME TInv, AInv, NEW s \in Slot,
           \/ Create(s) \/ EnsureLab(s) \/ Quick(s)
           \/ Invite(s) \/ (\E role \in GivenRole : ChangeRole(s, role)) \/ Remove(s)
           \/ \E staging, lab \in BOOLEAN : CreateProject(s, staging, lab)
           \/ \E p \in Project, staging, lab \in BOOLEAN : UpdateProject(s, p, staging, lab)
           \/ \E p \in Project : DeleteProject(s, p)
           \/ DeleteOrg(s) \/ GiveGrant(s)
    PROVE  AInv'
<1>0. projects \in ProjectTable /\ members \subseteq Member /\ rows \in 0..MaxRows
  BY DEF AInv, Typed
<1>1. CASE Create(s)
  <2>1. req[s].managed \in BOOLEAN
    BY <1>1 DEF Create, AInv, Seen
  <2>2. TablesSeen
    BY <1>0, <1>1, <2>1, InsertSeen DEF Create
  <2>3. QED
    BY <1>1, <2>2, EndSeen DEF Create
<1>2. CASE EnsureLab(s)
  <2>0. req[s].pc = "lab_project" /\ Finish(s) /\ UNCHANGED grants
    BY <1>2 DEF EnsureLab
  <2>1. CASE Room /\ InsertOrg(NewOrg, req[s], FALSE, TRUE) /\ InsertProject(NewOrg, TRUE, TRUE)
    <3>1. projects' \in ProjectTable
      BY <2>1, NewOrgIsNew, ProjectInserted
    <3>2. QED
      BY <2>0, <2>1, <3>1, InsertSeen, EndSeen
  <2>2. ASSUME NEW w \in req[s].found, orgs' = [orgs EXCEPT ![w].system = TRUE],
               UNCHANGED <<members, rows>>, UNCHANGED projects \/ InsertProject(w, TRUE, TRUE)
        PROVE  AInv'
    <3>1. w \in Org
      BY <2>0 DEF TInv, Hand
    <3>2. projects' \in ProjectTable
      BY <1>0, <2>2, <3>1, ProjectInserted
    <3>3. /\ orgs' = [o \in Org |-> orgs'[o]]
          /\ \A o \in Org : orgs'[o] = orgs[o] \/ orgs'[o] = [orgs[o] EXCEPT !.system = TRUE]
      BY <2>2 DEF AInv, Typed, OrgTable
    <3>4. QED
      BY <2>0, <2>2, <3>2, <3>3, MarkSeen, EndSeen
  <2>3. QED
    BY <1>2, <2>1, <2>2 DEF EnsureLab
<1>3. CASE Quick(s)
  <2>1. req[s].pc = "quick" /\ Finish(s) /\ UNCHANGED grants
    BY <1>3 DEF Quick
  <2>2. CASE /\ req[s].org = {} /\ Room
             /\ InsertOrg(NewOrg, req[s], FALSE, FALSE) /\ InsertProject(NewOrg, TRUE, FALSE)
    <3>1. projects' \in ProjectTable
      BY <2>2, NewOrgIsNew, ProjectInserted
    <3>2. QED
      BY <2>1, <2>2, <3>1, InsertSeen, EndSeen
  <2>3. CASE (\E o \in req[s].org : InsertProject(o, TRUE, FALSE)) /\ UNCHANGED <<orgs, members, rows>>
    <3>1. projects' \in ProjectTable
      BY <2>1, <2>3, ProjectInserted DEF TInv, Hand
    <3>2. QED
      BY <1>0, <2>1, <2>3, <3>1, RowsSeen, EndSeen
  <2>4. CASE UNCHANGED <<orgs, members, rows, projects>>
    BY <2>1, <2>4, SameTables, EndSeen
  <2>5. QED
    BY <1>3, <2>2, <2>3, <2>4 DEF Quick
<1>4. CASE Invite(s)
  <2>1. /\ members' = members \cup {[id |-> rows, org |-> req[s].row.org,
                                     user |-> req[s].row.user, role |-> req[s].row.role]}
        /\ rows < MaxRows /\ rows' = rows + 1 /\ req[s].pc = "invite"
        /\ Finish(s) /\ UNCHANGED <<orgs, projects, grants>>
    BY <1>4 DEF Invite
  <2>2. req[s].row.org \in Org /\ req[s].row.user \in User /\ req[s].row.role \in Role
    BY <2>1 DEF TInv, Hand, IInv, Requests, AInv, Seen
  <2>3. members' \subseteq Member /\ rows' \in 0..MaxRows
    BY <1>0, <2>1, <2>2, TenancyAssumption DEF Member
  <2>4. QED
    BY <1>0, <2>1, <2>3, RowsSeen, EndSeen
<1>5. ASSUME NEW role \in GivenRole, ChangeRole(s, role) PROVE AInv'
  <2>1. /\ members' = {IF m.id = req[s].row.id THEN [m EXCEPT !.role = role] ELSE m :
                         m \in members}
        /\ Finish(s) /\ UNCHANGED <<orgs, rows, projects, grants>>
    BY <1>5 DEF ChangeRole
  <2>2. \A m \in Member : [m EXCEPT !.role = role] \in Member
    BY RoleAssumption DEF Member
  <2>3. members' \subseteq Member
    BY <1>0, <2>1, <2>2
  <2>4. QED
    BY <1>0, <2>1, <2>3, RowsSeen, EndSeen
<1>6. CASE Remove(s)
  <2>1. members' \subseteq Member
    BY <1>0, <1>6 DEF Remove
  <2>2. QED
    BY <1>0, <1>6, <2>1, RowsSeen, EndSeen DEF Remove
<1>7. ASSUME NEW staging \in BOOLEAN, NEW lab \in BOOLEAN, CreateProject(s, staging, lab)
      PROVE  AInv'
  <2>1. req[s].org \in Org
    BY <1>7 DEF CreateProject, MayEditProjects, RequireRole, TInv, IInv, Requests
  <2>2. projects' \in ProjectTable
    BY <1>7, <2>1, ProjectInserted DEF CreateProject
  <2>3. QED
    BY <1>0, <1>7, <2>2, RowsSeen, EndSeen DEF CreateProject
<1>8. ASSUME NEW p \in Project, NEW staging \in BOOLEAN, NEW lab \in BOOLEAN,
             UpdateProject(s, p, staging, lab) \/ DeleteProject(s, p)
      PROVE  AInv'
  <2> DEFINE Row == [made : BOOLEAN, org : Org, active : BOOLEAN, staging : BOOLEAN,
                  lab : BOOLEAN]
  <2>1. /\ Finish(s) /\ UNCHANGED <<orgs, members, rows, grants>>
        /\ \/ projects' = [projects EXCEPT ![p].staging = staging, ![p].lab = lab]
           \/ projects' = [projects EXCEPT ![p].active = FALSE]
    BY <1>8 DEF UpdateProject, DeleteProject
  <2>2. projects[p] \in Row
    BY <1>0 DEF ProjectTable
  <2>3. /\ [projects[p] EXCEPT !.staging = staging, !.lab = lab] \in Row
        /\ [projects[p] EXCEPT !.active = FALSE] \in Row
    BY <2>2
  <2>4. projects' \in ProjectTable
    BY <1>0, <2>1, <2>3 DEF ProjectTable
  <2>5. QED
    BY <1>0, <2>1, <2>4, RowsSeen, EndSeen
<1>9. CASE DeleteOrg(s)
  <2>1. /\ orgs' = [orgs EXCEPT ![req[s].org].active = FALSE]
        /\ Finish(s) /\ UNCHANGED <<members, rows, projects, grants>>
    BY <1>9 DEF DeleteOrg
  <2>2. /\ orgs' = [o \in Org |-> orgs'[o]]
        /\ \A o \in Org : orgs'[o] = orgs[o] \/ orgs'[o] = [orgs[o] EXCEPT !.active = FALSE]
    BY <2>1 DEF AInv, Typed, OrgTable
  <2>3. QED
    BY <1>0, <2>1, <2>2, MarkSeen, EndSeen
<1>10. CASE GiveGrant(s)
  BY <1>10, GrantSeen, EndSeen DEF GiveGrant
<1>11. QED
  BY <1>1, <1>2, <1>3, <1>4, <1>5, <1>6, <1>7, <1>8, <1>9, <1>10

LEMMA StepSeen == ASSUME TInv, AInv, [Next]_vars PROVE AInv'
<1>1. ASSUME NEW s \in Slot, Request(s) PROVE AInv'
  <2>1. \/ \/ \E u \in Caller, n \in Name : AskCreate(s, u, n) \/ AskManaged(s, u, n)
           \/ AskLab(s) \/ LabRead(s)
           \/ \E u \in Caller, deep \in BOOLEAN : QuickLook(s, u, deep)
           \/ QuickRead(s)
           \/ \E u \in Caller, o \in Org, to \in User : AskGrant(s, u, o, to)
        \/ \/ \E u \in Caller, o \in Org : Authorize(s, u, o)
           \/ \E u \in User, role \in GivenRole : InviteRead(s, u, role)
           \/ \E m \in members : MemberRead(s, m)
           \/ Leave(s)
        \/ \/ Create(s) \/ EnsureLab(s) \/ Quick(s)
           \/ Invite(s) \/ (\E role \in GivenRole : ChangeRole(s, role)) \/ Remove(s)
           \/ \E staging, lab \in BOOLEAN : CreateProject(s, staging, lab)
           \/ \E p \in Project, staging, lab \in BOOLEAN : UpdateProject(s, p, staging, lab)
           \/ \E p \in Project : DeleteProject(s, p)
           \/ DeleteOrg(s) \/ GiveGrant(s)
    BY <1>1 DEF Request
  <2>2. QED
    BY <2>1, AskSeen, OpenSeen, WriteSeen
<1>2. ASSUME TablesSeen, UNCHANGED req PROVE AInv'
  BY <1>2, SeenKept DEF AInv, TablesSeen
<1>3. ASSUME NEW g \in Grant, RevokeGrant(g) \/ Expire(g) PROVE AInv'
  BY <1>2, <1>3, GrantEndSeen DEF RevokeGrant, Expire
<1>4. ASSUME NEW o \in Org, NEW active \in BOOLEAN, UpdatePilot(o, active) PROVE AInv'
  <2>1. /\ orgs' = [orgs EXCEPT ![o].active = active]
        /\ UNCHANGED <<members, rows, projects, grants, req>>
    BY <1>4 DEF UpdatePilot
  <2>2. /\ orgs' = [w \in Org |-> orgs'[w]]
        /\ \A w \in Org : orgs'[w] = orgs[w] \/ orgs'[w] = [orgs[w] EXCEPT !.active = active]
    BY <2>1 DEF AInv, Typed, OrgTable
  <2>3. QED
    BY <1>2, <2>1, <2>2, MarkSeen DEF AInv, Typed
<1>5. CASE UNCHANGED vars
  BY <1>2, <1>5, SameTables DEF vars
<1>6. QED
  BY <1>1, <1>3, <1>4, <1>5 DEF Next

\* A membership's role is one, so it is no refusal; one active grant is one.
LEMMA ListsAgree == ASSUME TInv PROVE ListMatchesAccess
<1> SUFFICES ASSUME NEW u \in User, NEW o \in Org, ~(Cardinality(ActiveGrants(o, u)) > 1)
             PROVE  (o \in ListForUser(u)) <=> (MembershipRole(u, o) # "refused")
  BY DEF ListMatchesAccess
<1>1. CASE Open(o) /\ RowsOf(u, o) # {}
  <2>1. PICK m \in RowsOf(u, o) : MembershipRole(u, o) = m.role
    BY <1>1 DEF MembershipRole
  <2>2. m.role \in Role /\ "refused" \notin Role
    BY <2>1 DEF RowsOf, TInv, Shapes, Role
  <2>3. QED
    BY <1>1, <2>1, <2>2 DEF ListForUser
<1>2. CASE ~Open(o)
  BY <1>2 DEF ListForUser, MembershipRole
<1>3. CASE Open(o) /\ RowsOf(u, o) = {}
  <2>1. IsFiniteSet(ActiveGrants(o, u)) /\ Cardinality(ActiveGrants(o, u)) \in Nat
    BY FiniteAssumption, FS_Subset, FS_CardinalityType DEF ActiveGrants
  <2>2. ActiveGrants(o, u) # {} <=> Cardinality(ActiveGrants(o, u)) = 1
    BY <2>1, FS_EmptySet
  <2>3. QED
    BY <1>3, <2>2 DEF ListForUser, MembershipRole
<1>4. QED
  BY <1>1, <1>2, <1>3

\* What is seen of grants and workspaces, for every interleaving of requests.
THEOREM AccessInvariance == Spec => []AInv
<1>1. TInv /\ AInv /\ [Next]_vars => AInv'
  BY StepSeen
<1>2. QED
  BY <1>1, InitAInv, TInvariance, PTL DEF Spec

\* However requests overlap: memberships are unique, an organization is listed for whom it
\* opens, and two grants or workspaces where one is meant come from requests that overlapped.
THEOREM AccessKeptSound == Spec => []AccessSound
<1>1. TInv /\ AInv => AccessSound
  <2> SUFFICES ASSUME TInv, AInv PROVE AccessSound
    OBVIOUS
  <2>1. TypeOK
    BY DEF AInv, Typed, Seen, TypeOK, OrgTable, ProjectTable, GrantTable
  <2>2. MemberOnce
    BY DEF TInv, IInv, Owned
  <2>3. GrantsOverlap
    BY DEF AInv, GrantsSeen, GrantElsewhere, GrantsOverlap, Active
  <2>4. WorkspacesOverlap
    BY DEF AInv, WorkspacesSeen, OrgOfOther, WorkspacesOverlap
  <2>5. QED
    BY <2>1, <2>2, <2>3, <2>4, ListsAgree DEF AccessSound
<1>2. QED
  BY <1>1, TInvariance, AccessInvariance, PTL
=============================================================================

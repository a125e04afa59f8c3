------------------------------ MODULE Domains ------------------------------
(***************************************************************************)
(* One hostname of one project: its row in domains, the tokens that prove  *)
(* who owns it, the test assignment an operator may give for it, and the   *)
(* requests of its owner, of the organization's admins and of the platform *)
(* on that row.  A request SELECTs the row (and the token it will check), may   *)
(* wait for DNS, and commits.  SQLAlchemy writes the columns whose value   *)
(* differs from what was loaded, so two requests merge column by column.   *)
(***************************************************************************)
EXTENDS Naturals, FiniteSetsExt

CONSTANTS
    Sessions,  \* the database sessions of the API
    Owner,     \* the session the owner of the host works with
    Duties,    \* which operations a session is asked for
    MaxToken   \* bound: domain_verifications rows

\* The platform's verification comes with an approval of active scanning
\* ("platform") or without one ("confirm")
Operations == {"add", "show", "verify", "approve", "suspend", "platform", "confirm",
               "revoke", "delete"}

ASSUME DomainAssumption ==
    /\ Owner \in Sessions
    /\ Duties \in [Sessions -> SUBSET Operations]
    /\ MaxToken \in Nat

VARIABLES
    row,       \* the row of the host
    token,     \* domain_verifications, in the order they were created
    relaxed,   \* the setting skip_domain_verification outside production
    assigned,  \* the owner has an active assignment for the host
    exempt,    \* the owner is an admin with dns_verification_exempt
    published, \* the token the owner was shown last and puts in DNS, 0 for none
    doing,     \* the operation of each session, "nothing" between requests
    snap,      \* the row as its request loaded it
    tok,       \* the token its request loaded or will insert
    verdict    \* what its verification has come to

environment == << relaxed, assigned, exempt >>
request == << doing, snap, tok, verdict >>
\* A scan has state of its own beside that of its host: what both would call
\* by one name is named for the host here.
hostVars == << row, token, environment, published, request >>

Tokens == 1..MaxToken
Methods == {"none", "dns", "assigned", "exempt", "skip", "manual"}
Rows == [here : BOOLEAN, verified : BOOLEAN, method : Methods, revoked : BOOLEAN,
         active : BOOLEAN, aged : BOOLEAN]
NoRow == [here |-> FALSE, verified |-> FALSE, method |-> "none", revoked |-> FALSE,
          active |-> FALSE, aged |-> FALSE]

HostTypeOK ==
    /\ row \in Rows
    /\ token \in [Tokens -> {"none", "open", "spent"}]
    /\ relaxed \in BOOLEAN /\ assigned \in BOOLEAN /\ exempt \in BOOLEAN
    /\ published \in 0..MaxToken
    /\ doing \in [Sessions -> Operations \cup {"nothing"}]
    /\ snap \in [Sessions -> Rows]
    /\ tok \in [Sessions -> 0..MaxToken]
    /\ verdict \in [Sessions -> {"none", "proved", "exempt", "failed"}]
    /\ \A s \in Sessions : verdict[s] # "none" => doing[s] = "verify"
    /\ row.active => row.here /\ row.method # "none"

HostInit ==
    /\ row = NoRow /\ token = [t \in Tokens |-> "none"]
    /\ relaxed \in BOOLEAN /\ exempt = ~relaxed /\ assigned = FALSE
    /\ published = 0
    /\ doing = [s \in Sessions |-> "nothing"] /\ snap = [s \in Sessions |-> NoRow]
    /\ tok = [s \in Sessions |-> 0] /\ verdict = [s \in Sessions |-> "none"]

-----------------------------------------------------------------------------
(* Tokens                                                                  *)

Open == {t \in Tokens : token[t] = "open"}
Unissued == {t \in Tokens : token[t] = "none" /\ \A s \in Sessions : tok[s] # t}

\* Bound: what is not needed to get verified leaves a token to get verified with
Spare == \E t, u \in Unissued : t # u

ActiveIgnoringUse == {t \in Tokens : token[t] \in {"open", "spent"}}

\* _active_verification: neither verified nor expired, the newest of them
Active == Open

\* The token a request works with: an active one, or one it inserts
NextToken == IF Active # {} THEN Max(Active) ELSE Min(Unissued)

Issued(t, to) == IF t = 0 THEN token ELSE [token EXCEPT ![t] = to]

-----------------------------------------------------------------------------
(* verification_status and resolve_scan_authorization                      *)

Status(r) ==
    CASE r.revoked -> "revoked"
      [] ~r.revoked /\ ~r.verified -> "unverified"
      [] ~r.revoked /\ r.verified /\ r.aged -> "expired"
      [] OTHER -> "verified"

ByAssignment(r) == r.verified /\ r.method = "assigned"

\* Who has an assignment scans by it and by nothing else
Authorized(r, profile) ==
    \/ relaxed
    \/ /\ ~r.revoked
       /\ \/ assigned /\ ByAssignment(r)
          \/ /\ ~assigned /\ ~ByAssignment(r) /\ Status(r) = "verified"
             /\ \/ r.method = "exempt" /\ exempt
                \/ r.method \in {"dns", "manual"} /\ (profile = "deep" => r.active)

-----------------------------------------------------------------------------
(* What an operation assigns to the row it has loaded                      *)

\* _mark_domain_verified
Verified(r, method, active) ==
    [r EXCEPT !.verified = TRUE, !.method = method, !.revoked = FALSE,
              !.active = active, !.aged = FALSE]

\* DomainService.add
Added ==
    LET new == [NoRow EXCEPT !.here = TRUE]
    IN CASE assigned -> Verified(new, "assigned", FALSE)
         [] ~assigned /\ relaxed -> Verified(new, "skip", TRUE)
         [] OTHER -> new

VerifiedBy(r, result) ==
    CASE relaxed -> Verified(r, "skip", TRUE)
      [] ~relaxed /\ result = "exempt" -> Verified(r, "exempt", FALSE)
      [] ~relaxed /\ result = "proved" -> Verified(r, "dns", r.active)
      [] OTHER -> r

Assigned(s) ==
    LET r == snap[s]
    IN CASE doing[s] = "verify" -> VerifiedBy(r, verdict[s])
         [] doing[s] = "approve" -> [r EXCEPT !.active = TRUE]
         [] doing[s] = "suspend" -> [r EXCEPT !.active = FALSE]
         [] doing[s] = "platform" -> Verified(r, "manual", TRUE)
         [] doing[s] = "confirm" -> Verified(r, "manual", r.active)
         [] doing[s] = "revoke" ->
                [r EXCEPT !.verified = FALSE, !.revoked = TRUE, !.active = FALSE]
         [] OTHER -> r

MergedClearing(s) ==
    [c \in DOMAIN row |->
        IF Assigned(s)[c] # snap[s][c] \/ c = "revoked" THEN Assigned(s)[c] ELSE row[c]]

\* The UPDATE of a commit: the columns that differ from what was loaded
Merged(s) ==
    [c \in DOMAIN row |->
        IF Assigned(s)[c] # snap[s][c] THEN Assigned(s)[c] ELSE row[c]]

-----------------------------------------------------------------------------
(* Requests                                                                *)

AdmittedOnce(o) ==
    CASE o = "add" -> ~row.here
      [] o = "verify" -> row.here /\ ~row.revoked /\ ~row.verified
      [] o = "approve" -> row.here /\ row.verified
      [] o = "show" -> row.here /\ ~relaxed /\ ~ByAssignment(row)
      [] OTHER -> row.here

\* The early returns of each operation, on the row as it is loaded
Admitted(o) ==
    CASE o = "add" -> ~row.here
      [] o = "verify" -> row.here /\ ~row.revoked
      [] o = "approve" -> row.here /\ row.verified
      [] o = "show" -> row.here /\ ~relaxed /\ ~ByAssignment(row)
      [] OTHER -> row.here

NeedsToken(o) == o \in {"add", "show"} \/ (o = "verify" /\ ~relaxed)

\* An owner who can scan asks for another token only while there are some
Bounded(o) ==
    NeedsToken(o) => \/ Spare
                     \/ ~relaxed /\ ~Authorized(row, "safe") /\ (Active # {} \/ Unissued # {})

\* Of the row a request loads, the columns it may leave as they are.  The
\* others are times, which never equal what was loaded.
Loaded(o) ==
    LET columns == CASE o \in {"verify", "platform", "confirm"} -> DOMAIN row
                     [] o = "revoke" -> {"verified", "active"}
                     [] o \in {"approve", "suspend"} -> {"active"}
                     [] OTHER -> {}
    IN [c \in DOMAIN row |-> IF c \in columns THEN row[c] ELSE NoRow[c]]

\* The request loads the row, then the token it will check or show
Begin(s, o) ==
    /\ doing[s] = "nothing" /\ o \in Duties[s]
    /\ Admitted(o) /\ Bounded(o)
    /\ doing' = [doing EXCEPT ![s] = o]
    /\ snap' = [snap EXCEPT ![s] = Loaded(o)]
    /\ tok' = [tok EXCEPT ![s] =
                 IF o = "add" THEN Min(Unissued)
                 ELSE IF NeedsToken(o) THEN NextToken
                 ELSE IF o = "verify" /\ Active # {} THEN Max(Active) ELSE 0]
    /\ UNCHANGED << row, token, environment, published, verdict >>

Done(s) ==
    /\ doing' = [doing EXCEPT ![s] = "nothing"]
    /\ snap' = [snap EXCEPT ![s] = NoRow]
    /\ tok' = [tok EXCEPT ![s] = 0]
    /\ verdict' = [verdict EXCEPT ![s] = "none"]

\* add: INSERT of the row with its token, refused by uq_project_hostname
\* where another request was first.  An assignment or the relaxed setting
\* verifies both.
CommitAdd(s) ==
    /\ doing[s] = "add"
    /\ row' = IF row.here THEN row ELSE Added
    /\ token' = IF row.here THEN token
                ELSE Issued(tok[s], IF assigned \/ relaxed THEN "spent" ELSE "open")
    /\ Done(s)
    /\ UNCHANGED << environment, published >>

\* QuickScanService adds the host in the transaction of its scan: a refusal
\* other than _reject_scan's takes the host with it
UndoAdd(s) ==
    /\ doing[s] = "add"
    /\ Done(s)
    /\ UNCHANGED << row, token, environment, published >>

\* get_instructions
CommitShow(s) ==
    /\ doing[s] = "show" /\ row.here
    /\ token' = IF token[tok[s]] = "none" THEN Issued(tok[s], "open") ELSE token
    /\ published' = IF s = Owner THEN tok[s] ELSE published
    /\ Done(s)
    /\ UNCHANGED << row, environment >>

\* verify: the exemption, or what DNS answers for the token
Exempted(s) ==
    /\ doing[s] = "verify" /\ verdict[s] = "none" /\ ~relaxed
    /\ s = Owner /\ exempt
    /\ verdict' = [verdict EXCEPT ![s] = "exempt"]
    /\ UNCHANGED << row, token, environment, published, doing, snap, tok >>

Asked(s) ==
    /\ doing[s] = "verify" /\ verdict[s] = "none" /\ ~relaxed
    /\ ~(s = Owner /\ exempt)
    /\ verdict' = [verdict EXCEPT ![s] = IF published = tok[s] THEN "proved" ELSE "failed"]
    /\ UNCHANGED << row, token, environment, published, doing, snap, tok >>

\* NETWORK_ERROR, or the record has not propagated yet
Unanswered(s) ==
    /\ doing[s] = "verify" /\ verdict[s] = "none" /\ ~relaxed
    /\ ~(s = Owner /\ exempt)
    /\ verdict' = [verdict EXCEPT ![s] = "failed"]
    /\ UNCHANGED << row, token, environment, published, doing, snap, tok >>

\* The token stays open though it has proved the host
CommitVerifyKeepsToken(s) ==
    /\ doing[s] = "verify" /\ row.here
    /\ relaxed \/ verdict[s] # "none"
    /\ row' = Merged(s)
    /\ token' = IF tok[s] # 0 /\ token[tok[s]] = "none" THEN Issued(tok[s], "open") ELSE token
    /\ Done(s)
    /\ UNCHANGED << environment, published >>

\* A token the request has inserted is committed with it, proved or not
CommitVerify(s) ==
    /\ doing[s] = "verify" /\ row.here
    /\ relaxed \/ verdict[s] # "none"
    /\ row' = Merged(s)
    /\ token' = IF relaxed \/ verdict[s] \in {"proved", "exempt"} THEN Issued(tok[s], "spent")
                ELSE IF token[tok[s]] = "none" THEN Issued(tok[s], "open") ELSE token
    /\ Done(s)
    /\ UNCHANGED << environment, published >>

\* admin_approve_active_scan, revoke_active_scan, platform_admin_verify_domain,
\* revoke_verification
CommitDecision(s) ==
    /\ doing[s] \in {"approve", "suspend", "platform", "confirm", "revoke"} /\ row.here
    /\ row' = Merged(s)
    /\ Done(s)
    /\ UNCHANGED << token, environment, published >>

\* delete: one DELETE, which the foreign key of domain_verifications refuses
\* as long as the row has a token
CommitDelete(s) ==
    /\ doing[s] = "delete"
    /\ row' = IF \A t \in Tokens : token[t] = "none" THEN NoRow ELSE row
    /\ Done(s)
    /\ UNCHANGED << token, environment, published >>

-----------------------------------------------------------------------------
(* The owner's DNS, the operator's assignments and flags, time             *)

\* ScanTargetService.create_assignment; its end, its revocation
Assign ==
    /\ ~assigned
    /\ assigned' = TRUE
    /\ UNCHANGED << row, token, relaxed, exempt, published, request >>

Unassign ==
    /\ assigned
    /\ assigned' = FALSE
    /\ UNCHANGED << row, token, relaxed, exempt, published, request >>

Quiet == \A s \in Sessions : doing[s] = "nothing"

\* The owner stops being an admin of the organization
LoseExemption ==
    /\ exempt /\ Quiet /\ Spare
    /\ exempt' = FALSE
    /\ UNCHANGED << row, token, relaxed, assigned, published, request >>

\* Days pass: domain_verification_ttl_days (no request lasts as long)
Age ==
    /\ Quiet /\ Spare
    /\ row.verified /\ ~row.aged /\ row.method # "assigned"
    /\ row' = [row EXCEPT !.aged = TRUE]
    /\ UNCHANGED << token, environment, published, request >>

\* TOKEN_TTL_HOURS
ExpireToken(t) ==
    /\ Quiet /\ Spare /\ token[t] = "open"
    /\ token' = [token EXCEPT ![t] = "spent"]
    /\ UNCHANGED << row, environment, published, request >>

Time == Age \/ \E t \in Tokens : ExpireToken(t)

Step(s) ==
    \/ \E o \in Operations : Begin(s, o)
    \/ CommitAdd(s) \/ UndoAdd(s) \/ CommitShow(s)
    \/ Exempted(s) \/ Asked(s) \/ Unanswered(s) \/ CommitVerify(s)
    \/ CommitDecision(s) \/ CommitDelete(s)

HostNext == Assign \/ Unassign \/ LoseExemption \/ Time \/ \E s \in Sessions : Step(s)

HostSpec == HostInit /\ [][HostNext]_hostVars

\* The requests of the owner end.  The owner keeps at it: publishes the token
\* the instructions show, asks again, and DNS does not fail for ever.
Fairness ==
    /\ WF_hostVars(\/ CommitAdd(Owner) \/ UndoAdd(Owner) \/ CommitShow(Owner)
                   \/ CommitVerify(Owner) \/ CommitDelete(Owner)
                   \/ Exempted(Owner) \/ Asked(Owner) \/ Unanswered(Owner))
    /\ SF_hostVars(CommitAdd(Owner)) /\ SF_hostVars(Asked(Owner))
    /\ \A o \in Duties[Owner] : SF_hostVars(Begin(Owner, o))

FairHostSpec == HostSpec /\ Fairness

-----------------------------------------------------------------------------
(* Properties                                                              *)

\* A revocation, and a suspension of active scanning, is undone only by a
\* request that had seen it: whatever a slow verification or an approval
\* begun before it writes later, the host stays revoked and suspended.
DecisionsStick ==
    [][/\ row.here /\ row.revoked /\ ~row'.revoked =>
            \E s \in Sessions : doing[s] \in {"platform", "confirm"} /\ snap[s].revoked
       /\ row.here /\ ~row.active /\ row'.active =>
            \E s \in Sessions : /\ ~snap[s].active
                                /\ \/ doing[s] \in {"approve", "platform"}
                                   \/ relaxed /\ doing[s] = "verify"]_hostVars

\* Whatever requests on the host overlap and merge, the row and its tokens tell one
\* story: a host that is there has been given a token, a token is of a host that is
\* there, and one that was verified by DNS has used one up, which therefore proves
\* nothing a second time.
TokensBehindRow ==
    /\ row.here <=> \E t \in Tokens : token[t] # "none"
    /\ row.method = "dns" => \E t \in Tokens : token[t] = "spent"

\* A verification that has expired is renewed with a token created since: the
\* record published for the old one proves nothing.
RenewedByNewToken ==
    [][row.aged /\ ~row'.aged /\ row'.method = "dns" =>
         \E s \in Sessions : doing[s] = "verify" /\ token[tok[s]] \in {"none", "open"}]_hostVars

\* An owner without an assignment who keeps following the instructions can
\* scan in the end, through races, expired tokens and expired verifications,
\* unless the host is revoked.
OwnerGetsThrough ==
    []<>(Authorized(row, "safe") \/ row.revoked \/ assigned \/ ByAssignment(row))

\* The row, its tokens and the requests are of their types and agree with each other.
HostSound == HostTypeOK /\ TokensBehindRow
=============================================================================

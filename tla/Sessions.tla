------------------------------ MODULE Sessions ------------------------------
(***************************************************************************)
(* One account, signed in from the tabs of one browser.  The tabs share a  *)
(* refresh token in localStorage and exchange it, each on its own, for a   *)
(* new one; the server revokes the old one with the exchange, and all of   *)
(* them when the password changes.  A request is one transaction: what it  *)
(* SELECTs is what it decides on, what it assigns is written, by primary   *)
(* key, when it commits.  A wrong password or a refused token raises and   *)
(* is rolled back with everything the request has assigned.                *)
(*                                                                         *)
(* Exchanges pass the limiter in Redis first: INCR, then EXPIRE for the    *)
(* request that counted first, then the decision.  A tab that is refused   *)
(* by it waits and posts once more, counted and decided on like the first  *)
(* time.  A Redis command that fails, its effect there or not, refuses the *)
(* request in production and lets it through elsewhere.                    *)
(***************************************************************************)
EXTENDS Naturals, FiniteSets

CONSTANTS
    Tabs,
    Tokens,      \* refresh tokens the run may issue (a bound)
    NoToken,
    MaxPassword, \* bound: password changes
    Limit,       \* auth_refresh_rate_limit_per_minute
    Production,  \* environment == "production"
    MaxCount     \* bound: counts beyond it look alike

ASSUME SessionAssumption ==
    /\ NoToken \notin Tokens
    /\ MaxPassword \in Nat
    /\ Limit \in Nat \ {0}
    /\ Production \in BOOLEAN
    /\ MaxCount \in Nat /\ MaxCount > Limit

VARIABLES
    password,   \* how often it was changed
    token,      \* refresh_tokens: "none" before the INSERT
    since,      \* the password its request knew when it read the database
    crossed,    \* tokens issued across a change of the password
    stored,     \* the refresh token in localStorage
    at,         \* where the request of a tab is
    mine,       \* the token in the React state of a tab
    posted,     \* the refresh token a tab has sent
    read,       \* what its transaction has read: password, tokens to revoke
    answer,     \* the token in the answer on its way to the tab
    lost,       \* tokens whose exchange was answered to nobody
    count, ttl, \* the key of the limiter: its count, whether it expires
    passed      \* requests let through in this window

server == << password, token, since, crossed >>
browser == << stored, mine, posted, lost >>
limiter == << count, ttl, passed >>
vars == << server, browser, limiter, at, read, answer >>

\* Before a command of the limiter: the tab's first post, or the one after a 429
Counting == {"incr", "incr again"}
Expiring == {"expire", "expire again"}
At == Counting \cup Expiring \cup
      {"idle", "wait", "refresh", "rotate", "login", "issue",
       "change", "save", "logout", "signedout", "answered", "refused"}
NothingRead == [password |-> 0, revoke |-> {}]
Live == {t \in Tokens : token[t] = "live"}
Fresh == {t \in Tokens : token[t] = "none"}

TypeOK ==
    /\ password \in 0..MaxPassword
    /\ token \in [Tokens -> {"none", "live", "revoked", "expired"}]
    /\ since \in [Tokens -> 0..MaxPassword]
    /\ crossed \subseteq Tokens
    /\ stored \in Tokens \cup {NoToken}
    /\ at \in [Tabs -> At]
    /\ mine \in [Tabs -> Tokens \cup {NoToken}] /\ posted \in [Tabs -> Tokens \cup {NoToken}]
    /\ read \in [Tabs -> [password : 0..MaxPassword, revoke : SUBSET Tokens]]
    /\ answer \in [Tabs -> Tokens \cup {NoToken}]
    /\ \A b \in Tabs : at[b] = "answered" => answer[b] \notin Fresh
    /\ lost \subseteq Tokens
    /\ count \in 0..MaxCount /\ ttl \in BOOLEAN
    /\ passed \in 0..MaxCount

Init ==
    /\ password = 0 /\ stored = NoToken /\ lost = {}
    /\ token = [t \in Tokens |-> "none"] /\ since = [t \in Tokens |-> 0] /\ crossed = {}
    /\ at = [b \in Tabs |-> "idle"] /\ posted = [b \in Tabs |-> NoToken] /\ mine = posted
    /\ read = [b \in Tabs |-> NothingRead] /\ answer = [b \in Tabs |-> NoToken]
    /\ count = 0 /\ ttl = FALSE /\ passed = 0

GoTo(b, to) == at' = [at EXCEPT ![b] = to]

-----------------------------------------------------------------------------
(* The tab: refreshAccessToken, login, logout, the password form           *)

\* One exchange at a time (refreshInFlight), with what localStorage holds
StartRefresh(b) ==
    /\ at[b] = "idle" /\ stored # NoToken
    /\ posted' = [posted EXCEPT ![b] = stored]
    /\ GoTo(b, "incr")
    /\ UNCHANGED << server, stored, mine, lost, limiter, read, answer >>

StartLogin(b) ==
    /\ at[b] = "idle" /\ stored = NoToken
    /\ GoTo(b, "login")
    /\ UNCHANGED << server, browser, limiter, read, answer >>

StartChange(b) ==
    /\ at[b] = "idle" /\ stored # NoToken /\ password < MaxPassword
    /\ GoTo(b, "change")
    /\ UNCHANGED << server, browser, limiter, read, answer >>

\* The tab signs out with the token it knows: another tab may have exchanged it
StartLogout(b) ==
    /\ at[b] = "idle" /\ mine[b] # NoToken
    /\ posted' = [posted EXCEPT ![b] = mine[b]]
    /\ GoTo(b, "logout")
    /\ UNCHANGED << server, stored, mine, lost, limiter, read, answer >>

\* When the request is over, however it went, the storage is cleared
ForgetTokens(b) ==
    /\ at[b] = "signedout"
    /\ stored' = NoToken
    /\ mine' = [mine EXCEPT ![b] = NoToken]
    /\ posted' = [posted EXCEPT ![b] = NoToken]
    /\ GoTo(b, "idle")
    /\ UNCHANGED << server, lost, limiter, read, answer >>

\* The page is loaded again
Reload(b) ==
    /\ at[b] = "idle" /\ mine[b] # stored
    /\ mine' = [mine EXCEPT ![b] = stored]
    /\ UNCHANGED << server, stored, posted, lost, limiter, at, read, answer >>

\* 429: the tab sleeps and posts the token it read before once more, through the limiter
RetryAfterWait(b) ==
    /\ at[b] = "wait"
    /\ GoTo(b, "incr again")
    /\ UNCHANGED << server, browser, limiter, read, answer >>

ReceiveKeepsOld(b) ==
    /\ at[b] \in {"answered", "refused"}
    /\ stored' = IF at[b] = "answered" /\ stored = NoToken THEN answer[b] ELSE stored
    /\ mine' = IF at[b] = "answered" THEN [mine EXCEPT ![b] = answer[b]] ELSE mine
    /\ answer' = [answer EXCEPT ![b] = NoToken] /\ posted' = [posted EXCEPT ![b] = NoToken]
    /\ GoTo(b, "idle")
    /\ UNCHANGED << server, lost, limiter, read >>

\* writeStoredTokens with the new pair; a refusal leaves the storage alone
Receive(b) ==
    /\ at[b] \in {"answered", "refused"}
    /\ stored' = IF at[b] = "answered" THEN answer[b] ELSE stored
    /\ mine' = IF at[b] = "answered" THEN [mine EXCEPT ![b] = answer[b]] ELSE mine
    /\ answer' = [answer EXCEPT ![b] = NoToken] /\ posted' = [posted EXCEPT ![b] = NoToken]
    /\ GoTo(b, "idle")
    /\ UNCHANGED << server, lost, limiter, read >>

\* The answer is lost, or its tab is closed
LoseAnswer(b) ==
    /\ at[b] \in {"answered", "refused"}
    /\ lost' = IF at[b] = "answered" THEN (lost \cup {posted[b]}) \ {NoToken} ELSE lost
    /\ answer' = [answer EXCEPT ![b] = NoToken] /\ posted' = [posted EXCEPT ![b] = NoToken]
    /\ GoTo(b, "idle")
    /\ UNCHANGED << server, stored, mine, limiter, read >>

-----------------------------------------------------------------------------
(* check_rate_limit                                                        *)

\* What INCR returns: the requests of this window with this one
OverLimit == count + 1 > Limit

OneMore(n) == IF n < MaxCount THEN n + 1 ELSE n
Counted == count' = OneMore(count)
LetThrough(b) == passed' = OneMore(passed) /\ GoTo(b, "refresh")

\* 429 with Retry-After: the first one the tab sleeps through, the second ends its request
TooMany(b) ==
    /\ GoTo(b, IF at[b] \in {"incr", "expire"} THEN "wait" ELSE "refused")
    /\ UNCHANGED passed

AnyRequest == TRUE
FirstOfWindow == count = 0

Incr(b) ==
    /\ at[b] \in Counting
    /\ Counted
    /\ IF FirstOfWindow
       THEN GoTo(b, IF at[b] = "incr" THEN "expire" ELSE "expire again") /\ UNCHANGED passed
       ELSE IF OverLimit THEN TooMany(b) ELSE LetThrough(b)
    /\ UNCHANGED << server, browser, ttl, read, answer >>

\* The request that counted first sets the time to live; the limit is at least one
Expire(b) ==
    /\ at[b] \in Expiring
    /\ ttl' = TRUE
    /\ LetThrough(b)
    /\ UNCHANGED << server, browser, count, read, answer >>

\* INCR, EXPIRE or TTL raises: Redis has executed the command before, or not
RedisFails(b) ==
    /\ \/ at[b] \in Counting /\ UNCHANGED << count, ttl >>
       \/ at[b] \in Counting /\ Counted /\ UNCHANGED ttl
       \/ at[b] \in Expiring /\ ttl' \in {ttl, TRUE} /\ UNCHANGED count
    /\ IF Production THEN TooMany(b) ELSE LetThrough(b)
    /\ UNCHANGED << server, browser, read, answer >>

\* Redis drops the key
WindowEnds ==
    /\ ttl
    /\ count' = 0 /\ ttl' = FALSE /\ passed' = 0
    /\ UNCHANGED << server, browser, at, read, answer >>

-----------------------------------------------------------------------------
(* AuthService, UserService                                                *)

Acceptable(t) == token[t] = "live"

\* refresh: the token is there, not revoked and not expired
ReadRefresh(b) ==
    /\ at[b] = "refresh"
    /\ IF Acceptable(posted[b])
       THEN GoTo(b, "rotate") /\ read' = [read EXCEPT ![b].password = password]
       ELSE GoTo(b, "refused") /\ UNCHANGED read
    /\ UNCHANGED << server, browser, limiter, answer >>

ChangePending == \E b \in Tabs : at[b] = "save"

\* _issue_tokens: a new row, and the pair in the answer
Issue(b, t) ==
    /\ since' = [since EXCEPT ![t] = read[b].password]
    /\ crossed' = IF ChangePending \/ read[b].password # password THEN crossed \cup {t} ELSE crossed
    /\ answer' = [answer EXCEPT ![b] = t]
    /\ read' = [read EXCEPT ![b] = NothingRead]
    /\ GoTo(b, "answered")

Revoke(t) == [token EXCEPT ![t] = "revoked"]

\* One commit revokes the posted token and inserts the new one
Rotate(b) ==
    /\ at[b] = "rotate"
    /\ \E t \in Fresh : token' = [Revoke(posted[b]) EXCEPT ![t] = "live"] /\ Issue(b, t)
    /\ UNCHANGED << password, browser, limiter >>

\* login, register: the password is checked against the row that was read
ReadLogin(b) ==
    /\ at[b] = "login"
    /\ \/ GoTo(b, "issue") /\ read' = [read EXCEPT ![b].password = password]
       \/ GoTo(b, "refused") /\ UNCHANGED read
    /\ UNCHANGED << server, browser, limiter, answer >>

Login(b) ==
    /\ at[b] = "issue"
    /\ \E t \in Fresh : token' = [token EXCEPT ![t] = "live"] /\ Issue(b, t)
    /\ UNCHANGED << password, browser, limiter >>

ToRevokeNone == {}
\* revoked_at is null: the tokens of the user that are not revoked yet
ToRevoke == {t \in Tokens : token[t] \in {"live", "expired"}}

ReadChange(b) ==
    /\ at[b] = "change"
    /\ \/ /\ GoTo(b, "save")
          /\ read' = [read EXCEPT ![b] = [password |-> password, revoke |-> ToRevoke]]
       \/ GoTo(b, "refused") /\ UNCHANGED read
    /\ UNCHANGED << server, browser, limiter, answer >>

\* forgot_password, reset_password: of the links sent, one that is unused and
\* recent when it is read, or one that is not
ReadReset(b) ==
    /\ at[b] = "idle" /\ password < MaxPassword
    /\ \/ /\ GoTo(b, "save")
          /\ read' = [read EXCEPT ![b] = [password |-> password, revoke |-> ToRevoke]]
       \/ GoTo(b, "refused") /\ UNCHANGED read
    /\ UNCHANGED << server, browser, limiter, answer >>

\* One commit: the new hash and revoked_at on the tokens that were read
SavePassword(b) ==
    /\ at[b] = "save" /\ password < MaxPassword
    /\ password' = password + 1
    /\ token' = [t \in Tokens |-> IF t \in read[b].revoke THEN "revoked" ELSE token[t]]
    /\ read' = [read EXCEPT ![b] = NothingRead]
    /\ GoTo(b, "idle")
    /\ UNCHANGED << since, crossed, browser, limiter, answer >>

\* The user's own token, revoked if it was not; get_current_user may refuse
Logout(b) ==
    /\ at[b] = "logout"
    /\ token' \in {token, IF token[posted[b]] \in {"live", "expired"} THEN Revoke(posted[b]) ELSE token}
    /\ GoTo(b, "signedout")
    /\ UNCHANGED << password, since, crossed, browser, limiter, read, answer >>

\* refresh_token_expire_days
TokenExpires(t) ==
    /\ token[t] = "live"
    /\ token' = [token EXCEPT ![t] = "expired"]
    /\ UNCHANGED << password, since, crossed, browser, limiter, at, read, answer >>

\* The server restarts, an INSERT fails: the request is rolled back
RollBack(b) ==
    /\ at[b] \in Expiring \cup {"refresh", "rotate", "issue", "save", "login", "change"}
    /\ read' = [read EXCEPT ![b] = NothingRead]
    /\ GoTo(b, "refused")
    /\ UNCHANGED << server, browser, limiter, answer >>

-----------------------------------------------------------------------------
Next == \/ \E b \in Tabs : \/ StartRefresh(b) \/ StartLogin(b) \/ StartChange(b) \/ StartLogout(b)
                           \/ ForgetTokens(b) \/ Reload(b)
                           \/ RetryAfterWait(b) \/ Receive(b) \/ LoseAnswer(b)
                           \/ Incr(b) \/ Expire(b) \/ RedisFails(b)
                           \/ ReadRefresh(b) \/ Rotate(b) \/ ReadLogin(b) \/ Login(b)
                           \/ ReadChange(b) \/ ReadReset(b) \/ SavePassword(b) \/ Logout(b)
                           \/ RollBack(b)
        \/ WindowEnds
        \/ \E t \in Tokens : TokenExpires(t)

Spec == Init /\ [][Next]_vars

-----------------------------------------------------------------------------
\* A change of the password ends every session: a token that was issued before
\* is dead, unless its own request and the change were under way together
ChangeEndsSessions ==
    \A t \in Live : since[t] # password => t \in crossed

\* However the tabs interleave, the token they share can be exchanged, or the
\* one it was exchanged for is on its way; otherwise its exchange was answered
\* to nobody, or the password has changed since
StoredUsable ==
    stored # NoToken /\ token[stored] = "revoked" =>
        \/ \E b \in Tabs : at[b] = "answered" /\ posted[b] = stored
        \/ \E b \in Tabs : at[b] = "signedout" /\ posted[b] = stored
        \/ stored \in lost
        \/ since[stored] # password

\* Whatever Redis commands fail and however often the tabs come back: in
\* production one window lets no more requests through than the limit, and its
\* end is set by the one request that found no key and never put off by another
WindowBounded ==
    /\ Production => passed <= Limit
    /\ \A b, c \in Tabs : at[b] \in Expiring /\ at[c] \in Expiring => b = c
    /\ (\E b \in Tabs : at[b] \in Expiring) => count > 0 /\ ~ttl

\* Tokens, tabs and limiter are of their types, and what the tabs share is usable.
StorageSound == TypeOK /\ StoredUsable
=============================================================================

--------------------- MODULE SessionsAndSuites_proofs ----------------------
(***************************************************************************)
(* Proofs about two modules that share no state: Sessions, for every       *)
(* number of tabs, tokens and password changes and every limit; and        *)
(* BenchmarkRuns, for every target, page, list of alerts, ground truth,    *)
(* APK and gate mode.  The verdicts of the benchmark come first, then its  *)
(* analysis and its match, each from lemmas about the operators to the     *)
(* invariant of the run.                                                   *)
(***************************************************************************)
EXTENDS Sessions, BenchmarkRuns, FiniteSetTheorems, TLAPS

-----------------------------------------------------------------------------
(* Sessions                                                                *)

\* Nobody knows a token that was not issued yet.
Known == /\ stored \notin Fresh
         /\ \A b \in Tabs : mine[b] \notin Fresh /\ posted[b] \notin Fresh

\* The token in an answer is known to its tab alone, so only a change of the password revokes it.
Sent == \A b \in Tabs : at[b] = "answered" =>
    /\ answer[b] \in Tokens
    /\ token[answer[b]] = "revoked" => since[answer[b]] # password
    /\ answer[b] # stored
    /\ \A c \in Tabs : answer[b] # mine[c] /\ answer[b] # posted[c]
    /\ \A c \in Tabs \ {b} : at[c] = "answered" => answer[b] # answer[c]

\* What was read is not newer than what is.
Times == /\ \A t \in Tokens : since[t] <= password
         /\ \A b \in Tabs : read[b].password <= password

\* A change under way will revoke every live token, except those issued across a change.
Pending == \A b \in Tabs : at[b] = "save" => Live \subseteq read[b].revoke \cup crossed

\* In production a request is let through after it was counted, and the one that is about
\* to set the time to live is counted and not let through yet.
Tally ==
    /\ ttl => count > 0
    /\ Production =>
       /\ passed <= count
       /\ (\E b \in Tabs : at[b] \in Expiring) => passed < count /\ passed < Limit
Window == WindowBounded /\ Tally

IInv == /\ TypeOK /\ StoredUsable /\ ChangeEndsSessions /\ Window
        /\ Known /\ Sent /\ Times /\ Pending

\* A step outside the limiter leaves its window alone.
LEMMA WindowAlone ==
    ASSUME Window, UNCHANGED limiter,
           \A b \in Tabs : at'[b] \in Expiring => at[b] \in Expiring
    PROVE  Window'
BY DEF Window, WindowBounded, Tally, limiter

-----------------------------------------------------------------------------
LEMMA InitIInv == Init => IInv
<1> SUFFICES ASSUME Init PROVE IInv
  OBVIOUS
<1> USE SessionAssumption DEF Init
<1>1. TypeOK
  <2>1. MaxPassword \in Nat /\ MaxCount \in Nat /\ 0 \in 0..MaxPassword /\ 0 \in 0..MaxCount /\ 0 \in 0..0
    OBVIOUS
  <2>2. /\ read \in [Tabs -> [password : 0..MaxPassword, revoke : SUBSET Tokens]]
        /\ since \in [Tokens -> 0..MaxPassword] /\ token \in [Tokens -> {"none", "live", "revoked", "expired"}]
    BY <2>1 DEF NothingRead
  <2>3. /\ at \in [Tabs -> At] /\ mine \in [Tabs -> Tokens \cup {NoToken}]
        /\ posted \in [Tabs -> Tokens \cup {NoToken}] /\ answer \in [Tabs -> Tokens \cup {NoToken}]
        /\ \A b \in Tabs : at[b] # "answered"
    BY DEF At, Counting, Expiring
  <2>4. password \in 0..MaxPassword /\ count \in 0..MaxCount /\ passed \in 0..MaxCount
    BY <2>1
  <2>5. QED
    BY <2>2, <2>3, <2>4 DEF TypeOK
<1>2. StoredUsable /\ ChangeEndsSessions /\ Window
  BY DEF StoredUsable, ChangeEndsSessions, Window, WindowBounded, Tally, Expiring, Live
<1>3. Known /\ Sent /\ Times /\ Pending
  BY DEF Known, Sent, Times, Pending, Fresh, NothingRead
<1>4. QED
  BY <1>1, <1>2, <1>3 DEF IInv

-----------------------------------------------------------------------------
\* The tab, of its own: it starts a request with a token it knows, forgets, loads the page
\* again, sleeps after a 429.
Begin(b) == StartRefresh(b) \/ StartLogin(b) \/ StartChange(b) \/ StartLogout(b)
            \/ Reload(b) \/ RetryAfterWait(b)

LEMMA BeginStep == ASSUME IInv, NEW b \in Tabs, Begin(b) PROVE IInv'
<1> USE DEF GoTo, server, browser, limiter
<1>1. /\ UNCHANGED << password, token, since, crossed, stored, lost, count, ttl, passed, read, answer >>
      /\ at[b] \in {"idle", "wait"} /\ at'[b] \in {"idle", "incr", "login", "change", "logout", "incr again"}
      /\ \A c \in Tabs \ {b} : at'[c] = at[c] /\ mine'[c] = mine[c] /\ posted'[c] = posted[c]
      /\ mine'[b] \in {mine[b], stored} /\ posted'[b] \in {posted[b], stored, mine[b]}
  BY DEF IInv, TypeOK, Begin, StartRefresh, StartLogin, StartChange, StartLogout, Reload, RetryAfterWait
<1>2. TypeOK'
  <2>1. \/ at' = at
        \/ \E to \in {"incr", "login", "change", "logout", "incr again"} : at' = [at EXCEPT ![b] = to]
    BY DEF Begin, StartRefresh, StartLogin, StartChange, StartLogout, Reload, RetryAfterWait
  <2>2. at' \in [Tabs -> At]
    BY <2>1 DEF IInv, TypeOK, At, Counting
  <2>3. /\ mine' \in [Tabs -> Tokens \cup {NoToken}]
        /\ posted' \in [Tabs -> Tokens \cup {NoToken}]
    <3>1. mine' = mine \/ mine' = [mine EXCEPT ![b] = stored]
      BY DEF Begin, StartRefresh, StartLogin, StartChange, StartLogout, Reload, RetryAfterWait
    <3>2. \/ posted' = posted
          \/ posted' = [posted EXCEPT ![b] = stored]
          \/ posted' = [posted EXCEPT ![b] = mine[b]]
      BY DEF Begin, StartRefresh, StartLogin, StartChange, StartLogout, Reload, RetryAfterWait
    <3>3. /\ mine \in [Tabs -> Tokens \cup {NoToken}] /\ posted \in [Tabs -> Tokens \cup {NoToken}]
          /\ stored \in Tokens \cup {NoToken} /\ mine[b] \in Tokens \cup {NoToken}
      BY DEF IInv, TypeOK
    <3>4. mine' \in [Tabs -> Tokens \cup {NoToken}]
      BY <3>1, <3>3
    <3>5. posted' \in [Tabs -> Tokens \cup {NoToken}]
      BY <3>2, <3>3
    <3>6. QED
      BY <3>4, <3>5
  <2>4. QED
    BY <1>1, <2>2, <2>3 DEF IInv, TypeOK, Fresh
<1>3. StoredUsable'
  BY <1>1 DEF IInv, StoredUsable
<1>4. ChangeEndsSessions' /\ Window' /\ Pending' /\ Times'
  BY <1>1, WindowAlone DEF IInv, ChangeEndsSessions, Pending, Times, Live, Expiring
<1>5. Known'
  BY <1>1 DEF IInv, Known, Fresh
<1>6. Sent'
  <2>1. \A c \in Tabs : at'[c] = "answered" => c # b /\ at[c] = "answered"
    BY <1>1
  <2>2. Sent
    BY DEF IInv
  <2>3. \A c \in Tabs : at[c] = "answered" =>
          answer[c] # stored /\ \A d \in Tabs : answer[c] # mine'[d] /\ answer[c] # posted'[d]
    <3>1. SUFFICES ASSUME NEW c \in Tabs, at[c] = "answered", NEW d \in Tabs
                   PROVE  answer[c] # stored /\ answer[c] # mine'[d] /\ answer[c] # posted'[d]
      OBVIOUS
    <3>2. /\ answer[c] # stored /\ answer[c] # mine[d] /\ answer[c] # posted[d]
          /\ answer[c] # mine[b] /\ answer[c] # posted[b]
      BY <2>2, <3>1 DEF Sent
    <3>3. /\ mine'[d] = mine[d] \/ mine'[d] = mine[b] \/ mine'[d] = stored
          /\ \/ posted'[d] = posted[d] \/ posted'[d] = posted[b]
             \/ posted'[d] = stored \/ posted'[d] = mine[b]
      BY <1>1
    <3>4. QED
      BY <3>2, <3>3
  <2>4. QED
    BY <1>1, <2>1, <2>2, <2>3 DEF Sent
<1>7. QED
  BY <1>2, <1>3, <1>4, <1>5, <1>6 DEF IInv

\* It signs out: what it was looking at is gone, whoever wrote it.
LEMMA ForgetStep == ASSUME IInv, NEW b \in Tabs, ForgetTokens(b) PROVE IInv'
<1> USE DEF ForgetTokens, GoTo, server, limiter
<1>1. /\ UNCHANGED << password, token, since, crossed, lost, count, ttl, passed, read, answer >>
      /\ stored' = NoToken /\ at[b] = "signedout" /\ at'[b] = "idle"
      /\ mine'[b] = NoToken /\ posted'[b] = NoToken /\ NoToken \notin Tokens
      /\ \A c \in Tabs \ {b} : at'[c] = at[c] /\ mine'[c] = mine[c] /\ posted'[c] = posted[c]
  BY SessionAssumption DEF IInv, TypeOK
<1>2. TypeOK'
  BY <1>1 DEF IInv, TypeOK, At, Fresh
<1>3. StoredUsable' /\ ChangeEndsSessions' /\ Window' /\ Pending' /\ Times'
  BY <1>1, WindowAlone DEF IInv, StoredUsable, ChangeEndsSessions, Pending, Times, Live, Expiring
<1>4. Known'
  BY <1>1 DEF IInv, Known, Fresh
<1>5. Sent'
  BY <1>1 DEF IInv, Sent
<1>6. QED
  BY <1>2, <1>3, <1>4, <1>5 DEF IInv

\* It takes an answer: what it stores is usable, or the password has changed meanwhile.
LEMMA ReceiveStep == ASSUME IInv, NEW b \in Tabs, Receive(b) PROVE IInv'
<1> USE DEF Receive, GoTo, server, limiter
<1>1. /\ UNCHANGED << password, token, since, crossed, lost, count, ttl, passed, read >>
      /\ at[b] \in {"answered", "refused"} /\ at'[b] = "idle"
      /\ posted'[b] = NoToken /\ NoToken \notin Tokens
      /\ IF at[b] = "answered" THEN stored' = answer[b] /\ mine'[b] = answer[b]
                               ELSE stored' = stored /\ mine'[b] = mine[b]
      /\ \A c \in Tabs \ {b} : /\ at'[c] = at[c] /\ mine'[c] = mine[c] /\ posted'[c] = posted[c]
                               /\ answer'[c] = answer[c]
  BY SessionAssumption DEF IInv, TypeOK
<1>2. at[b] = "answered" => /\ answer[b] \in Tokens /\ answer[b] \notin Fresh
                            /\ token[answer[b]] = "revoked" => since[answer[b]] # password
                            /\ \A c \in Tabs \ {b} : at[c] = "answered" => answer[b] # answer[c]
  BY DEF IInv, TypeOK, Sent
<1>3. TypeOK'
  BY <1>1, <1>2 DEF IInv, TypeOK, At, Fresh
<1>4. StoredUsable'
  <2>1. CASE at[b] = "answered"
    BY <1>1, <1>2, <2>1 DEF StoredUsable
  <2>2. CASE at[b] = "refused"
    BY <1>1, <2>2 DEF IInv, StoredUsable
  <2>3. QED
    BY <1>1, <2>1, <2>2
<1>5. ChangeEndsSessions' /\ Window' /\ Pending' /\ Times'
  BY <1>1, WindowAlone DEF IInv, ChangeEndsSessions, Pending, Times, Live, Expiring
<1>6. Known'
  BY <1>1, <1>2 DEF IInv, Known, Fresh
<1>7. Sent'
  BY <1>1, <1>2 DEF IInv, Sent
<1>8. QED
  BY <1>3, <1>4, <1>5, <1>6, <1>7 DEF IInv

\* Nobody takes it: what was posted for it is remembered as lost.
LEMMA LoseStep == ASSUME IInv, NEW b \in Tabs, LoseAnswer(b) PROVE IInv'
<1> USE DEF LoseAnswer, GoTo, server, limiter
<1>1. /\ UNCHANGED << password, token, since, crossed, stored, mine, count, ttl, passed, read >>
      /\ at[b] \in {"answered", "refused"} /\ at'[b] = "idle"
      /\ posted'[b] = NoToken /\ NoToken \notin Tokens
      /\ lost' = IF at[b] = "answered" THEN (lost \cup {posted[b]}) \ {NoToken} ELSE lost
      /\ \A c \in Tabs \ {b} : at'[c] = at[c] /\ posted'[c] = posted[c] /\ answer'[c] = answer[c]
  BY SessionAssumption DEF IInv, TypeOK
<1>2. TypeOK'
  BY <1>1 DEF IInv, TypeOK, At, Fresh
<1>3. StoredUsable'
  BY <1>1 DEF IInv, TypeOK, StoredUsable
<1>4. ChangeEndsSessions' /\ Window' /\ Pending' /\ Times'
  BY <1>1, WindowAlone DEF IInv, ChangeEndsSessions, Pending, Times, Live, Expiring
<1>5. Known'
  BY <1>1 DEF IInv, Known, Fresh
<1>6. Sent'
  BY <1>1 DEF IInv, Sent
<1>7. QED
  BY <1>2, <1>3, <1>4, <1>5, <1>6 DEF IInv

-----------------------------------------------------------------------------
\* A step of the limiter, or one that reads: nothing changes but where a tab's request is and
\* what it has read; a change of the password now knows every token there is to revoke.
LEMMA Elsewhere ==
    ASSUME IInv, NEW b \in Tabs,
           UNCHANGED << server, browser, answer >>,
           TypeOK', Window',
           \A c \in Tabs \ {b} : at'[c] = at[c] /\ read'[c] = read[c],
           at[b] \notin {"answered", "signedout"}, at'[b] \notin {"answered", "signedout"},
           read'[b].password <= password,
           at'[b] = "save" => Live \subseteq read'[b].revoke
    PROVE  IInv'
<1> USE DEF server, browser
<1>1. StoredUsable'
  BY DEF IInv, StoredUsable
<1>2. ChangeEndsSessions' /\ Times' /\ Known'
  BY DEF IInv, ChangeEndsSessions, Times, Known, Live, Fresh
<1>3. Sent'
  BY DEF IInv, Sent
<1>4. Pending'
  BY DEF IInv, Pending, Live
<1>5. QED
  BY <1>1, <1>2, <1>3, <1>4 DEF IInv

\* The limiter counts, decides and sets the time to live, or fails on the way.
LEMMA LimiterStep ==
    ASSUME IInv, NEW b \in Tabs, Incr(b) \/ Expire(b) \/ RedisFails(b) PROVE IInv'
<1> USE DEF server, browser
<1>1. /\ at[b] \in Counting \cup Expiring
      /\ \E to \in Expiring \cup {"wait", "refused", "refresh"} : at' = [at EXCEPT ![b] = to]
      /\ UNCHANGED << server, browser, read, answer >>
  BY DEF Incr, Expire, RedisFails, GoTo, LetThrough, TooMany, Expiring
<1>2. /\ at'[b] \in Expiring \cup {"wait", "refused", "refresh"}
      /\ \A c \in Tabs \ {b} : at'[c] = at[c]
      /\ at' \in [Tabs -> At]
  BY <1>1 DEF IInv, TypeOK, At
<1>3. /\ count \in 0..MaxCount /\ passed \in 0..MaxCount /\ ttl \in BOOLEAN
      /\ Limit \in Nat \ {0} /\ MaxCount \in Nat /\ MaxCount > Limit /\ Production \in BOOLEAN
  BY SessionAssumption DEF IInv, TypeOK
<1>4. \A n \in 0..MaxCount : OneMore(n) \in 0..MaxCount /\ OneMore(n) >= n /\ OneMore(n) > 0
                            /\ (n < MaxCount => OneMore(n) = n + 1)
  BY <1>3 DEF OneMore
<1>5. /\ count' \in {count, OneMore(count)} /\ passed' \in {passed, OneMore(passed)}
      /\ ttl' \in BOOLEAN
  BY <1>3 DEF Incr, Expire, RedisFails, Counted, LetThrough, TooMany
<1>6. TypeOK'
  BY <1>1, <1>2, <1>3, <1>4, <1>5 DEF IInv, TypeOK, Fresh, Expiring
<1>7. Window'
  <2>1. CASE Incr(b) /\ FirstOfWindow
    <3>1. /\ count = 0 /\ count' = OneMore(count) /\ passed' = passed /\ ttl' = ttl
      BY <2>1 DEF Incr, Counted, FirstOfWindow
    <3>2. count' = 1 /\ \A c \in Tabs : at[c] \notin Expiring
      BY <1>3, <1>4, <3>1 DEF IInv, Window, WindowBounded
    <3>3. ~ttl
      BY <3>1, <1>3 DEF IInv, Window, Tally
    <3>4. QED
      BY <1>2, <1>3, <3>1, <3>2, <3>3 DEF IInv, Window, WindowBounded, Tally
  <2>2. CASE Incr(b) /\ ~FirstOfWindow
    <3>1. /\ at[b] \in Counting /\ count' = OneMore(count) /\ ttl' = ttl
          /\ at'[b] \notin Expiring
          /\ \/ passed' = passed
             \/ passed' = OneMore(passed) /\ count + 1 <= Limit
      <4>1. at[b] \in Counting /\ count' = OneMore(count) /\ ttl' = ttl
        BY <2>2 DEF Incr, Counted
      <4>2. CASE OverLimit
        <5>1. passed' = passed /\ at' = [at EXCEPT ![b] = IF at[b] \in {"incr", "expire"} THEN "wait" ELSE "refused"]
          BY <2>2, <4>2 DEF Incr, TooMany, GoTo
        <5>2. at'[b] \in {"wait", "refused"}
          BY <5>1 DEF IInv, TypeOK
        <5>3. QED
          BY <4>1, <5>1, <5>2 DEF Expiring
      <4>3. CASE ~OverLimit
        <5>1. passed' = OneMore(passed) /\ at' = [at EXCEPT ![b] = "refresh"]
          BY <2>2, <4>3 DEF Incr, LetThrough, GoTo
        <5>2. at'[b] = "refresh"
          BY <5>1 DEF IInv, TypeOK
        <5>3. count + 1 <= Limit
          BY <1>3, <4>3 DEF OverLimit
        <5>4. QED
          BY <4>1, <5>1, <5>2, <5>3 DEF Expiring
      <4>4. QED
        BY <4>2, <4>3
    <3>2. \A c \in Tabs : at'[c] \in Expiring => at[c] \in Expiring /\ c # b
      BY <1>2, <3>1
    <3>3. CASE passed' = passed
      BY <1>3, <1>4, <3>1, <3>2, <3>3 DEF IInv, Window, WindowBounded, Tally
    <3>4. CASE passed' = OneMore(passed) /\ count + 1 <= Limit
      <4>1. count' = count + 1
        BY <1>3, <1>4, <3>1, <3>4
      <4>2. Production => passed' = passed + 1
        BY <1>3, <1>4, <3>4 DEF IInv, Window, Tally
      <4>3. QED
        BY <1>3, <3>1, <3>2, <3>4, <4>1, <4>2 DEF IInv, Window, WindowBounded, Tally
    <3>5. QED
      BY <3>1, <3>3, <3>4
  <2>3. CASE Expire(b) \/ (RedisFails(b) /\ at[b] \in Expiring)
    <3>1. /\ at[b] \in Expiring /\ at'[b] \notin Expiring /\ count' = count
          /\ passed' = OneMore(passed) \/ (Production /\ passed' = passed)
          /\ Production => passed' \in {passed, OneMore(passed)}
      BY <1>3, <2>3 DEF IInv, TypeOK, Expire, RedisFails, LetThrough, TooMany, GoTo, Expiring, Counting
    <3>2. \A c \in Tabs : at'[c] \notin Expiring
      BY <1>2, <3>1 DEF IInv, Window, WindowBounded
    <3>3. Production => passed' <= passed + 1
      BY <1>3, <1>4, <3>1 DEF IInv, Window, Tally
    <3>4. Production => passed < count /\ passed < Limit
      BY <3>1 DEF IInv, Window, Tally
    <3>5. passed' \in Nat /\ passed \in Nat /\ count \in Nat
      BY <1>3, <1>4, <1>5
    <3>6. QED
      BY <1>3, <3>1, <3>2, <3>3, <3>4, <3>5 DEF IInv, Window, WindowBounded, Tally
  <2>4. CASE RedisFails(b) /\ at[b] \in Counting
    <3>1. /\ at'[b] \notin Expiring /\ count' \in {count, OneMore(count)} /\ ttl' = ttl
          /\ Production => passed' = passed
      BY <2>4 DEF IInv, TypeOK, RedisFails, Counted, LetThrough, TooMany, GoTo, Expiring, Counting
    <3>2. \A c \in Tabs : at'[c] \in Expiring => at[c] \in Expiring
      BY <1>2, <3>1
    <3>3. count' \in Nat /\ count \in Nat /\ passed \in Nat /\ count' >= count
      BY <1>3, <1>4, <3>1
    <3>4. QED
      BY <1>3, <3>1, <3>2, <3>3 DEF IInv, Window, WindowBounded, Tally
  <2>5. QED
    BY <1>1, <2>1, <2>2, <2>3, <2>4
<1>8. read[b].password <= password
  BY DEF IInv, Times
<1>9. QED
  BY <1>1, <1>2, <1>6, <1>7, <1>8, Elsewhere DEF Counting, Expiring

\* The key is dropped.
LEMMA WindowStep == ASSUME IInv, WindowEnds PROVE IInv'
<1> USE SessionAssumption DEF WindowEnds, server, browser
<1>1. TypeOK' /\ Window'
  <2>1. count' \in 0..MaxCount /\ ttl' \in BOOLEAN /\ passed' \in 0..MaxCount /\ passed' <= Limit
    <3>1. MaxCount \in Nat /\ Limit \in Nat /\ count' = 0 /\ passed' = 0 /\ ttl' = FALSE
      BY SessionAssumption
    <3> HIDE DEF WindowEnds
    <3>2. 0 \in 0..MaxCount /\ 0 <= Limit
      BY <3>1
    <3>3. QED
      BY <3>1, <3>2
  <2>2. Window'
    BY <2>1 DEF IInv, Window, WindowBounded, Tally
  <2>3. QED
    BY <2>1, <2>2 DEF IInv, TypeOK, Fresh
<1>2. StoredUsable' /\ ChangeEndsSessions' /\ Known' /\ Sent' /\ Times' /\ Pending'
  BY DEF IInv, StoredUsable, ChangeEndsSessions, Known, Sent, Times, Pending, Live, Fresh
<1>3. QED
  BY <1>1, <1>2 DEF IInv

\* A request reads, or is rolled back.
LEMMA ReadStep ==
    ASSUME IInv, NEW b \in Tabs,
           ReadRefresh(b) \/ ReadLogin(b) \/ ReadChange(b) \/ ReadReset(b) \/ RollBack(b)
    PROVE  IInv'
<1> USE DEF GoTo, server, browser, limiter
<1>1. /\ at[b] \in Expiring \cup {"refresh", "login", "change", "idle", "rotate", "issue", "save"}
      /\ at'[b] \in {"rotate", "issue", "save", "refused"}
      /\ \A c \in Tabs \ {b} : at'[c] = at[c] /\ read'[c] = read[c]
      /\ UNCHANGED << server, browser, limiter, answer >>
  BY DEF IInv, TypeOK, ReadRefresh, ReadLogin, ReadChange, ReadReset, RollBack
<1>2. /\ read'[b] \in [password : 0..MaxPassword, revoke : SUBSET Tokens]
      /\ read'[b].password <= password
      /\ at'[b] = "save" => Live \subseteq read'[b].revoke
  <2>1. /\ read[b] \in [password : 0..MaxPassword, revoke : SUBSET Tokens]
        /\ read[b].password <= password /\ password \in 0..MaxPassword /\ MaxPassword \in Nat
    BY SessionAssumption DEF IInv, TypeOK, Times
  <2>2. NothingRead.password = 0 /\ NothingRead \in [password : 0..MaxPassword, revoke : SUBSET Tokens]
    BY <2>1 DEF NothingRead
  <2>3. CASE ReadRefresh(b) \/ ReadLogin(b)
    BY <2>1, <2>3 DEF IInv, TypeOK, ReadRefresh, ReadLogin
  <2>4. CASE ReadChange(b) \/ ReadReset(b)
    BY <2>1, <2>4 DEF IInv, TypeOK, ReadChange, ReadReset, ToRevoke, Live
  <2>5. CASE RollBack(b)
    BY <2>1, <2>2, <2>5 DEF IInv, TypeOK, RollBack
  <2>6. QED
    BY <2>3, <2>4, <2>5
<1>3. TypeOK'
  <2>1. at' \in [Tabs -> At]
    <3>1. \E to \in {"rotate", "issue", "save", "refused"} : at' = [at EXCEPT ![b] = to]
      BY DEF ReadRefresh, ReadLogin, ReadChange, ReadReset, RollBack
    <3>2. QED
      BY <3>1 DEF IInv, TypeOK, At
  <2>2. \/ read' = read
        \/ \E r \in [password : 0..MaxPassword, revoke : SUBSET Tokens] : read' = [read EXCEPT ![b] = r]
    <3>1. \/ read' = read
          \/ read' = [read EXCEPT ![b].password = password]
          \/ read' = [read EXCEPT ![b] = [password |-> password, revoke |-> ToRevoke]]
          \/ read' = [read EXCEPT ![b] = NothingRead]
      BY DEF ReadRefresh, ReadLogin, ReadChange, ReadReset, RollBack
    <3>2. /\ password \in 0..MaxPassword /\ MaxPassword \in Nat
          /\ read[b] \in [password : 0..MaxPassword, revoke : SUBSET Tokens]
      BY SessionAssumption DEF IInv, TypeOK
    <3>3. /\ [read[b] EXCEPT !.password = password] \in [password : 0..MaxPassword, revoke : SUBSET Tokens]
          /\ [password |-> password, revoke |-> ToRevoke] \in [password : 0..MaxPassword, revoke : SUBSET Tokens]
          /\ NothingRead \in [password : 0..MaxPassword, revoke : SUBSET Tokens]
      BY <3>2 DEF ToRevoke, NothingRead
    <3>4. QED
      BY <3>1, <3>3
  <2>3. read' \in [Tabs -> [password : 0..MaxPassword, revoke : SUBSET Tokens]]
    BY <2>2 DEF IInv, TypeOK
  <2>4. QED
    BY <1>1, <2>1, <2>3 DEF IInv, TypeOK, Fresh
<1>4. Window'
  BY <1>1, WindowAlone DEF IInv, Expiring
<1>5. QED
  BY <1>1, <1>2, <1>3, <1>4, Elsewhere DEF Expiring

-----------------------------------------------------------------------------
\* A token is issued: live, known to its tab alone, and crossed if a change is under way.
LEMMA IssueStep == ASSUME IInv, NEW b \in Tabs, Rotate(b) \/ Login(b) PROVE IInv'
<1> USE DEF GoTo, browser, limiter
<1>1. PICK t \in Fresh : /\ Issue(b, t)
                         /\ \/ token' = [Revoke(posted[b]) EXCEPT ![t] = "live"]
                            \/ token' = [token EXCEPT ![t] = "live"] /\ at[b] = "issue"
  BY DEF Rotate, Login
<1>2. /\ UNCHANGED << password, stored, mine, posted, lost, count, ttl, passed >>
      /\ at[b] \in {"rotate", "issue"} /\ at'[b] = "answered"
      /\ answer'[b] = t /\ read'[b] = NothingRead
      /\ \A c \in Tabs \ {b} : at'[c] = at[c] /\ answer'[c] = answer[c] /\ read'[c] = read[c]
      /\ t \in Tokens /\ token[t] = "none" /\ token'[t] = "live"
      /\ since'[t] = read[b].password /\ \A u \in Tokens \ {t} : since'[u] = since[u]
      /\ \A u \in Tokens \ {t} : token'[u] = token[u] \/ (u = posted[b] /\ token'[u] = "revoked")
      /\ crossed \subseteq crossed'
      /\ ChangePending \/ read[b].password # password => t \in crossed'
  BY <1>1 DEF IInv, TypeOK, Rotate, Login, Issue, Revoke, Fresh
<1>3. TypeOK'
  <2>1. token' \in [Tokens -> {"none", "live", "revoked", "expired"}]
    BY <1>1, <1>2 DEF IInv, TypeOK, Revoke
  <2>2. /\ since' \in [Tokens -> 0..MaxPassword] /\ crossed' \subseteq Tokens
        /\ answer' \in [Tabs -> Tokens \cup {NoToken}]
        /\ read' \in [Tabs -> [password : 0..MaxPassword, revoke : SUBSET Tokens]]
        /\ at' \in [Tabs -> At]
    <3>1. NothingRead \in [password : 0..MaxPassword, revoke : SUBSET Tokens]
      BY SessionAssumption DEF NothingRead
    <3>2. read[b].password \in 0..MaxPassword
      BY DEF IInv, TypeOK
    <3>3. QED
      BY <1>1, <1>2, <3>1, <3>2 DEF IInv, TypeOK, Issue, At
  <2>3. \A c \in Tabs : at'[c] = "answered" => answer'[c] \notin Fresh'
    BY <1>2 DEF IInv, TypeOK, Fresh, Sent
  <2>4. QED
    BY <1>2, <2>1, <2>2, <2>3 DEF IInv, TypeOK
<1>4. stored # t /\ \A c \in Tabs : mine[c] # t /\ posted[c] # t /\ (at[c] = "answered" => answer[c] # t)
  BY <1>2 DEF IInv, TypeOK, Known, Sent, Fresh
<1>5. StoredUsable'
  <2> SUFFICES ASSUME stored # NoToken, token'[stored] = "revoked"
               PROVE  \/ \E c \in Tabs : at'[c] = "answered" /\ posted[c] = stored
                      \/ \E c \in Tabs : at'[c] = "signedout" /\ posted[c] = stored
                      \/ stored \in lost \/ since'[stored] # password
    BY <1>2 DEF StoredUsable
  <2>1. stored \in Tokens \ {t}
    BY <1>4 DEF IInv, TypeOK
  <2>2. since'[stored] = since[stored]
    BY <1>2, <2>1
  <2>3. CASE posted[b] = stored
    BY <1>2, <2>3
  <2>4. CASE token[stored] = "revoked" /\ posted[b] # stored
    <3>1. \/ \E c \in Tabs : at[c] \in {"answered", "signedout"} /\ posted[c] = stored
          \/ stored \in lost \/ since[stored] # password
      BY <2>4 DEF IInv, StoredUsable
    <3>2. \A c \in Tabs : posted[c] = stored => at'[c] = at[c]
      BY <1>2, <2>4
    <3>3. QED
      BY <2>2, <3>1, <3>2
  <2>5. QED
    BY <1>2, <2>1, <2>3, <2>4
<1>6. ChangeEndsSessions'
  BY <1>2 DEF IInv, TypeOK, ChangeEndsSessions, Live
<1>7. Window'
  BY <1>2, WindowAlone DEF IInv, Expiring
<1>8. Known'
  <2>1. \A u \in Tokens : token'[u] = "none" => token[u] = "none"
    BY <1>2
  <2>2. Fresh' \subseteq Fresh
    BY <2>1 DEF Fresh
  <2>3. QED
    BY <1>2, <2>2 DEF IInv, Known
<1>9. Sent'
  <2> SUFFICES ASSUME NEW c \in Tabs, at'[c] = "answered"
               PROVE  /\ answer'[c] \in Tokens
                      /\ token'[answer'[c]] = "revoked" => since'[answer'[c]] # password
                      /\ answer'[c] # stored
                      /\ \A d \in Tabs : answer'[c] # mine[d] /\ answer'[c] # posted[d]
                      /\ \A d \in Tabs \ {c} : at'[d] = "answered" => answer'[c] # answer'[d]
    BY <1>2 DEF Sent
  <2>1. CASE c = b
    BY <1>2, <1>4, <2>1
  <2>2. CASE c # b
    <3>1. /\ at[c] = "answered" /\ answer'[c] = answer[c] /\ answer[c] # t /\ answer[c] \in Tokens
          /\ token[answer[c]] = "revoked" => since[answer[c]] # password
          /\ answer[c] # stored
          /\ \A d \in Tabs : answer[c] # mine[d] /\ answer[c] # posted[d]
          /\ \A d \in Tabs \ {c} : at[d] = "answered" => answer[c] # answer[d]
      BY <1>2, <1>4, <2>2 DEF IInv, Sent
    <3>2. token'[answer[c]] = token[answer[c]] /\ since'[answer[c]] = since[answer[c]]
      BY <1>2, <3>1
    <3>3. QED
      BY <1>2, <2>2, <3>1, <3>2
  <2>3. QED
    BY <2>1, <2>2
<1>10. Times'
  <2>1. 0 <= password /\ NothingRead.password = 0
    BY SessionAssumption DEF IInv, TypeOK, NothingRead
  <2>2. QED
    BY <1>2, <2>1 DEF IInv, Times
<1>11. Pending'
  <2> SUFFICES ASSUME NEW c \in Tabs, at'[c] = "save", NEW u \in Tokens, token'[u] = "live"
               PROVE  u \in read'[c].revoke \cup crossed'
    BY DEF Pending, Live
  <2>1. c # b /\ at[c] = "save" /\ read'[c] = read[c] /\ ChangePending
    BY <1>2 DEF ChangePending
  <2>2. CASE u = t
    BY <1>2, <2>1, <2>2
  <2>3. CASE u # t
    BY <1>2, <2>1, <2>3 DEF IInv, Pending, Live
  <2>4. QED
    BY <2>2, <2>3
<1>12. QED
  BY <1>3, <1>5, <1>6, <1>7, <1>8, <1>9, <1>10, <1>11 DEF IInv

\* The password changes: what is still live was issued across a change.
LEMMA SaveStep == ASSUME IInv, NEW b \in Tabs, SavePassword(b) PROVE IInv'
<1> USE DEF SavePassword, GoTo, browser, limiter
<1>1. /\ UNCHANGED << since, crossed, stored, mine, posted, lost, count, ttl, passed, answer >>
      /\ at[b] = "save" /\ at'[b] = "idle" /\ password' = password + 1
      /\ password \in Nat /\ \A t \in Tokens : since[t] \in Nat /\ since[t] <= password
      /\ read'[b] = NothingRead /\ \A c \in Tabs \ {b} : at'[c] = at[c] /\ read'[c] = read[c]
      /\ \A t \in Tokens : token'[t] = IF t \in read[b].revoke THEN "revoked" ELSE token[t]
      /\ \A t \in Tokens : token'[t] = "none" => token[t] = "none"
      /\ \A t \in Tokens : token'[t] = "live" => token[t] = "live"
  BY SessionAssumption DEF IInv, TypeOK, Times
<1>2. TypeOK'
  <2>1. password' \in 0..MaxPassword
    BY SessionAssumption DEF IInv, TypeOK
  <2>2. /\ token' \in [Tokens -> {"none", "live", "revoked", "expired"}]
        /\ read' \in [Tabs -> [password : 0..MaxPassword, revoke : SUBSET Tokens]]
        /\ at' \in [Tabs -> At]
    BY SessionAssumption DEF IInv, TypeOK, At, NothingRead
  <2>3. \A c \in Tabs : at'[c] = "answered" => answer'[c] \notin Fresh'
    BY <1>1 DEF IInv, TypeOK, Fresh
  <2>4. QED
    BY <1>1, <2>1, <2>2, <2>3 DEF IInv, TypeOK
<1>3. StoredUsable'
  BY <1>1 DEF IInv, TypeOK, StoredUsable
<1>4. ChangeEndsSessions'
  BY <1>1 DEF IInv, ChangeEndsSessions, Pending, Live
<1>5. Window'
  BY <1>1, WindowAlone DEF IInv, Expiring
<1>6. Known'
  BY <1>1 DEF IInv, Known, Fresh
<1>7. Sent'
  BY <1>1 DEF IInv, Sent
<1>8. Times'
  <2>1. \A c \in Tabs : read[c].password \in Nat /\ read[c].password <= password
    BY SessionAssumption DEF IInv, TypeOK, Times
  <2>2. QED
    BY <1>1, <2>1 DEF Times, NothingRead
<1>9. Pending'
  BY <1>1 DEF IInv, Pending, Live
<1>10. QED
  BY <1>2, <1>3, <1>4, <1>5, <1>6, <1>7, <1>8, <1>9 DEF IInv

\* A sign-out revokes the token it posted, and a token may expire.
LEMMA EndStep ==
    ASSUME IInv, \/ \E b \in Tabs : Logout(b)
                 \/ \E t \in Tokens : TokenExpires(t)
    PROVE  IInv'
<1> USE DEF GoTo, browser, limiter
<1>1. /\ UNCHANGED << password, since, crossed, stored, mine, posted, lost, count, ttl, passed, read, answer >>
      /\ \A c \in Tabs : at'[c] = at[c] \/ (at[c] = "logout" /\ at'[c] = "signedout")
      /\ \A u \in Tokens : \/ token'[u] = token[u]
                           \/ token[u] = "live" /\ token'[u] = "expired"
                           \/ /\ token[u] \in {"live", "expired"} /\ token'[u] = "revoked"
                              /\ \E c \in Tabs : posted[c] = u /\ at'[c] = "signedout"
  BY DEF IInv, TypeOK, Logout, TokenExpires, Revoke
<1>2. TypeOK'
  <2>1. /\ token' \in [Tokens -> {"none", "live", "revoked", "expired"}]
        /\ at' \in [Tabs -> At]
    BY SMTT(30) DEF IInv, TypeOK, At, Logout, TokenExpires, Revoke
  <2>2. \A c \in Tabs : at'[c] = "answered" => answer'[c] \notin Fresh'
    BY <1>1 DEF IInv, TypeOK, Fresh
  <2>3. QED
    BY <1>1, <2>1, <2>2 DEF IInv, TypeOK
<1>3. StoredUsable'
  <2>1. SUFFICES ASSUME stored # NoToken, token'[stored] = "revoked"
                 PROVE  \/ \E c \in Tabs : at'[c] = "answered" /\ posted[c] = stored
                        \/ \E c \in Tabs : at'[c] = "signedout" /\ posted[c] = stored
                        \/ stored \in lost
                        \/ since[stored] # password
    BY <1>1 DEF StoredUsable
  <2>2. stored \in Tokens
    BY <2>1 DEF IInv, TypeOK
  <2>3. CASE token[stored] = "revoked"
    <3>1. \/ \E c \in Tabs : at[c] = "answered" /\ posted[c] = stored
          \/ \E c \in Tabs : at[c] = "signedout" /\ posted[c] = stored
          \/ stored \in lost
          \/ since[stored] # password
      BY <2>1, <2>3 DEF IInv, StoredUsable
    <3>2. \A c \in Tabs : at[c] \in {"answered", "signedout"} => at'[c] = at[c]
      BY <1>1
    <3>3. QED
      BY <3>1, <3>2
  <2>4. CASE token[stored] # "revoked"
    <3>1. token'[stored] # token[stored] /\ token'[stored] # "expired"
      BY <2>1, <2>4
    <3>2. \E c \in Tabs : posted[c] = stored /\ at'[c] = "signedout"
      BY <1>1, <2>2, <3>1
    <3>3. QED
      BY <3>2
  <2>5. QED
    BY <2>3, <2>4
<1>4. ChangeEndsSessions' /\ Pending'
  BY <1>1 DEF IInv, TypeOK, ChangeEndsSessions, Pending, Live
<1>5. Window' /\ Times'
  BY <1>1, WindowAlone DEF IInv, Times, Expiring
<1>6. Known'
  BY <1>1 DEF IInv, Known, Fresh
<1>7. Sent'
  <2>1. \A c \in Tabs : at'[c] = "answered" => at[c] = "answered"
    BY <1>1
  <2>2. Sent /\ \A c \in Tabs : at[c] = "answered" => answer[c] \notin Fresh
    BY DEF IInv, TypeOK
  <2>3. \A c \in Tabs : at[c] = "answered" /\ token'[answer[c]] = "revoked"
          => since[answer[c]] # password
    BY <1>1, <2>2 DEF Sent
  <2>4. QED
    BY <1>1, <2>1, <2>2, <2>3 DEF Sent
<1>8. QED
  BY <1>2, <1>3, <1>4, <1>5, <1>6, <1>7 DEF IInv

-----------------------------------------------------------------------------
LEMMA NextIInv == IInv /\ [Next]_vars => IInv'
<1> SUFFICES ASSUME IInv, [Next]_vars PROVE IInv'
  OBVIOUS
<1>1. ASSUME NEW b \in Tabs,
             \/ StartRefresh(b) \/ StartLogin(b) \/ StartChange(b) \/ StartLogout(b)
             \/ ForgetTokens(b) \/ Reload(b) \/ RetryAfterWait(b) \/ Receive(b) \/ LoseAnswer(b)
      PROVE  IInv'
  BY <1>1, BeginStep, ForgetStep, ReceiveStep, LoseStep DEF Begin
<1>2. ASSUME NEW b \in Tabs, Incr(b) \/ Expire(b) \/ RedisFails(b) PROVE IInv'
  BY <1>2, LimiterStep
<1>3. ASSUME NEW b \in Tabs,
             ReadRefresh(b) \/ ReadLogin(b) \/ ReadChange(b) \/ ReadReset(b) \/ RollBack(b)
      PROVE  IInv'
  BY <1>3, ReadStep
<1>4. ASSUME NEW b \in Tabs, Rotate(b) \/ Login(b) \/ SavePassword(b) \/ Logout(b) PROVE IInv'
  BY <1>4, IssueStep, SaveStep, EndStep
<1>5. CASE WindowEnds \/ \E t \in Tokens : TokenExpires(t)
  BY <1>5, WindowStep, EndStep
<1>6. CASE UNCHANGED vars
  <2> USE <1>6 DEF vars, server, browser, limiter
  <2>1. TypeOK' /\ Window' /\ StoredUsable' /\ ChangeEndsSessions'
    BY WindowAlone DEF IInv, TypeOK, StoredUsable, ChangeEndsSessions, Live, Fresh
  <2>2. Known' /\ Sent' /\ Times' /\ Pending'
    BY DEF IInv, Known, Sent, Times, Pending, Live, Fresh
  <2>3. QED
    BY <2>1, <2>2 DEF IInv
<1>7. QED
  BY <1>1, <1>2, <1>3, <1>4, <1>5, <1>6 DEF Next

\* However the requests of the tabs interleave with each other and with changes of the
\* password, the invariant holds.
THEOREM Invariance == Spec => []IInv
  BY InitIInv, NextIInv, PTL DEF Spec

\* What the tabs share in localStorage can be exchanged, or the one it was exchanged for is
\* on its way, was answered to nobody, or the password has changed (refreshAccessToken, refresh).
THEOREM StorageKeptSound == Spec => []StorageSound
<1>1. IInv => StorageSound
  BY DEF IInv, StorageSound
<1>2. QED
  BY <1>1, Invariance, PTL

\* A change of the password ends every session that began before, unless its request and the
\* change were under way together (change_password, reset_password).
THEOREM ChangesEndSessions == Spec => []ChangeEndsSessions
<1>1. IInv => ChangeEndsSessions
  BY DEF IInv
<1>2. QED
  BY <1>1, Invariance, PTL

\* In production one window lets no more requests through than the limit, and its end is set
\* once, by the request that found no key (check_rate_limit).
THEOREM WindowsBounded == Spec => []WindowBounded
<1>1. IInv => WindowBounded
  BY DEF IInv, Window
<1>2. QED
  BY <1>1, Invariance, PTL

-----------------------------------------------------------------------------
(* The suites of the benchmark                                             *)

\* A measurement, or none, passes its two thresholds.
Reaches(q, precision, recall) ==
    q = None \/ (q[1].precision >= precision /\ q[1].recall >= recall)

\* The gates of a suite pass exactly if its measurement reaches the thresholds.
LEMMA SuiteGatesPass ==
    ASSUME NEW s, NEW q, NEW p, NEW r
    PROVE  /\ AllPass(SuiteGates(s, q, p, r)) <=> Reaches(q, p, r)
           /\ q # None => SuiteGates(s, q, p, r) # {}
           /\ q = None => SuiteGates(s, q, p, r) = {}
<1>1. CASE q = None
  BY <1>1 DEF AllPass, SuiteGates, Reaches
<1>2. CASE q # None
  <2> DEFINE precise == Gate(<< s, "precision" >>, q[1].precision >= p)
             complete == Gate(<< s, "recall" >>, q[1].recall >= r)
  <2>1. SuiteGates(s, q, p, r) = {precise, complete}
    BY <1>2 DEF SuiteGates
  <2>2. (precise.passed <=> q[1].precision >= p) /\ (complete.passed <=> q[1].recall >= r)
    BY Zenon DEF Gate
  <2> HIDE DEF precise, complete
  <2>3. AllPass({precise, complete}) <=> precise.passed /\ complete.passed
    BY DEF AllPass
  <2> QED
    BY <1>2, <2>1, <2>2, <2>3 DEF Reaches
<1> QED
  BY <1>1, <1>2

\* Gates of two kinds pass together exactly if those of each kind pass.
LEMMA AllPassUnion ==
    ASSUME NEW A, NEW B
    PROVE  AllPass(A \cup B) <=> AllPass(A) /\ AllPass(B)
BY DEF AllPass

\* The measurements of a release: none, or a precision and a recall in thousandths.
Measurement == {None} \cup {<< q >> : q \in [precision : Nat, recall : Nat]}
BlindResults == {None, << FALSE >>, << TRUE >>}

RawPass(web, api) == Reaches(web, 800, 700) /\ Reaches(api, 800, 700)
CustomerPass(customer) == Reaches(customer, 700, 700)
BlindPass(blind) == blind # << FALSE >>

LEMMA RawGatesPass ==
    ASSUME NEW web, NEW api
    PROVE  AllPass(RawGates(web, api, None, None)) <=> RawPass(web, api)
<1>1. AllPass(SuiteGates("passive_web", web, 800, 700)) <=> Reaches(web, 800, 700)
  BY SuiteGatesPass
<1>2. AllPass(SuiteGates("passive_api", api, 800, 700)) <=> Reaches(api, 800, 700)
  BY SuiteGatesPass
<1>3. /\ SuiteGates("active_web", None, 700, 700) = {} /\ SuiteGates("active_api", None, 700, 600) = {}
  BY DEF SuiteGates
<1> QED
  BY <1>1, <1>2, <1>3, AllPassUnion DEF RawGates, RawPass

LEMMA CustomerGatesPass ==
    ASSUME NEW customer
    PROVE  /\ AllPass(CustomerGates(customer, None, None)) <=> CustomerPass(customer)
           /\ CustomerGates(customer, None, None) = {} <=> customer = None
<1>1. CustomerGates(customer, None, None) = SuiteGates("customer_web", customer, 700, 700)
  BY DEF CustomerGates, SuiteGates
<1> QED
  BY <1>1, SuiteGatesPass DEF CustomerPass

LEMMA OperationalGatesPass ==
    ASSUME NEW blind \in BlindResults
    PROVE  AllPass(OperationalGates(0, blind)) <=> BlindPass(blind)
<1> DEFINE sent == Gate(<< "operational", "external" >>, 0 = 0)
           risk == Gate(<< "operational", "risk_labels" >>, TRUE)
           ai == Gate(<< "operational", "ai_labels" >>, TRUE)
           eval == Gate(<< "operational", "blind" >>, blind[1])
<1>1. sent.passed /\ risk.passed /\ ai.passed /\ (eval.passed <=> blind[1])
  BY Zenon DEF Gate
<1>2. OperationalGates(0, blind) = {sent, risk, ai} \cup (IF blind = None THEN {} ELSE {eval})
  BY DEF OperationalGates
<1> HIDE DEF sent, risk, ai, eval
<1>3. AllPass({sent, risk, ai}) /\ AllPass({}) /\ (AllPass({eval}) <=> eval.passed)
  BY <1>1 DEF AllPass
<1>4. CASE blind = None
  <2>1. BlindPass(blind)
    BY <1>4 DEF BlindPass, None
  <2> QED
    BY <1>2, <1>3, <1>4, <2>1, AllPassUnion
<1>5. CASE blind = << TRUE >>
  <2>1. BlindPass(blind) /\ blind[1] /\ blind # None
    BY <1>5 DEF BlindPass, None
  <2> QED
    BY <1>1, <1>2, <1>3, <2>1, AllPassUnion
<1>6. CASE blind = << FALSE >>
  <2>1. ~BlindPass(blind) /\ ~blind[1] /\ blind # None
    BY <1>6 DEF BlindPass, None
  <2> QED
    BY <1>1, <1>2, <1>3, <2>1, AllPassUnion
<1> QED
  BY <1>4, <1>5, <1>6 DEF BlindResults

\* How ready a release is, by what passes: everything, or only what a customer sees.
LEMMA ReleaseRank ==
    ASSUME NEW web, NEW api, NEW customer, NEW blind \in BlindResults
    PROVE  Release(web, api, customer, blind) =
             IF CustomerPass(customer) /\ BlindPass(blind)
             THEN IF RawPass(web, api) THEN 2 ELSE IF customer # None THEN 1 ELSE 0
             ELSE 0
<1> DEFINE raw == RawGates(web, api, None, None)
           cust == CustomerGates(customer, None, None)
           oper == OperationalGates(0, blind)
<1>1. AllPass(raw) <=> RawPass(web, api)
  BY RawGatesPass
<1>2. AllPass(cust) <=> CustomerPass(customer)
  BY CustomerGatesPass
<1>3. AllPass(oper) <=> BlindPass(blind)
  BY OperationalGatesPass
<1>4. cust # {} <=> customer # None
  BY CustomerGatesPass
<1>5. AllPass(raw \cup cust \cup oper) <=> AllPass(raw) /\ AllPass(cust) /\ AllPass(oper)
  BY AllPassUnion
<1>6. AllPass(cust \cup oper) <=> AllPass(cust) /\ AllPass(oper)
  BY AllPassUnion
<1>7. Release(web, api, customer, blind) = Readiness[ReadyFor(raw, cust, oper)]
  BY DEF Release
<1> HIDE DEF raw, cust, oper
<1>8. ReadyFor(raw, cust, oper) =
        IF CustomerPass(customer) /\ BlindPass(blind)
        THEN IF RawPass(web, api) THEN "closed_pilot"
             ELSE IF customer # None THEN "closed_pilot_candidate" ELSE "internal_alpha"
        ELSE "internal_alpha"
  BY <1>1, <1>2, <1>3, <1>4, <1>5, <1>6 DEF ReadyFor
<1> QED
  BY <1>7, <1>8 DEF Readiness

\* A better measurement reaches every threshold that the worse one reaches.
LEMMA BetterReaches ==
    ASSUME NEW a \in Measurement, NEW b \in Measurement, Better(a, b),
           NEW p \in Nat, NEW r \in Nat, Reaches(a, p, r)
    PROVE  Reaches(b, p, r)
<1>1. a # None /\ b # None
  BY DEF Better
<1>2. PICK x \in [precision : Nat, recall : Nat] : a = << x >>
  BY <1>1 DEF Measurement
<1>3. PICK y \in [precision : Nat, recall : Nat] : b = << y >>
  BY <1>1 DEF Measurement
<1>4. x.precision <= y.precision /\ x.recall <= y.recall
  BY <1>2, <1>3 DEF Better
<1>5. x.precision >= p /\ x.recall >= r
  BY <1>1, <1>2 DEF Reaches
<1> QED
  BY <1>3, <1>4, <1>5 DEF Reaches

\* For all measurements, not only those of a run: one that is better in the raw web or
\* API suite or in the customer's view, or a blind evaluation that passes, never makes
\* the verdict of release_gates.py worse, and a suite below its threshold, or a failed
\* blind evaluation, always costs the closed pilot.
THEOREM VerdictMonotone ==
    ASSUME NEW web \in Measurement, NEW api \in Measurement, NEW customer \in Measurement,
           NEW blind \in BlindResults
    PROVE  MonotoneAt(web, api, customer, blind, Measurement)
<1> DEFINE ready == Release(web, api, customer, blind)
<1>1. ASSUME NEW q \in Measurement
      PROVE  /\ Better(web, q) => Release(q, api, customer, blind) >= ready
             /\ Better(api, q) => Release(web, q, customer, blind) >= ready
             /\ Better(customer, q) => Release(web, api, q, blind) >= ready
  <2>1. /\ Better(web, q) => (RawPass(web, api) => RawPass(q, api))
        /\ Better(api, q) => (RawPass(web, api) => RawPass(web, q))
        /\ Better(customer, q) => (CustomerPass(customer) => CustomerPass(q))
    BY BetterReaches DEF RawPass, CustomerPass
  <2>2. Better(customer, q) => customer # None /\ q # None
    BY DEF Better
  <2> QED
    BY <2>1, <2>2, ReleaseRank
<1>2. blind = << FALSE >> => Release(web, api, customer, << TRUE >>) >= ready
  <2>1. << TRUE >> \in BlindResults /\ ~BlindPass(<< FALSE >>)
    BY DEF BlindResults, BlindPass
  <2> QED
    BY <2>1, ReleaseRank
<1>3. ready = 2 => /\ \A q \in {web, api} : q # None => q[1].precision >= 800
                   /\ blind # << FALSE >>
  <2> SUFFICES ASSUME ready = 2
               PROVE  /\ \A q \in {web, api} : q # None => q[1].precision >= 800
                      /\ blind # << FALSE >>
    OBVIOUS
  <2>1. RawPass(web, api) /\ BlindPass(blind)
    BY ReleaseRank
  <2>2. /\ web # None => web[1].precision >= 800
        /\ api # None => api[1].precision >= 800
    BY <2>1 DEF RawPass, Reaches
  <2>3. blind # << FALSE >>
    BY <2>1 DEF BlindPass
  <2>4. ASSUME NEW q \in {web, api}, q # None
        PROVE  q[1].precision >= 800
    <3>1. CASE q = web
      BY <2>2, <2>4, <3>1
    <3>2. CASE q = api
      BY <2>2, <2>4, <3>2
    <3> QED
      BY <3>1, <3>2
  <2> QED
    BY <2>3, <2>4
<1> QED
  BY <1>1, <1>2, <1>3 DEF MonotoneAt

-----------------------------------------------------------------------------
\* Places that only one kind of suite comes to.
Places ==
    /\ pc \in {"starting", "syncing", "creating", "scanning", "verifying", "scanned"} => suite = "web"
    /\ pc \in InsideAndroid => suite = "android"
    /\ pc = "persisted" => app = "completed"

\* What is there at which place.
Phases ==
    /\ result # None => pc \in {"published", "judged", "stopping"}
    /\ pc = "judged" => result # None /\ report # None
    /\ exit # None => pc = "stopping"

\* An APK's result is that of its first run.
FirstRun == suite = "android" /\ result # None => linked = 1 /\ app = "completed"

\* What an enforced gate without failures says of a run.
NothingCritical == suite = "web" => Critical(MissedItems) = {}
NoDrop ==
    baseline # None =>
        \/ baseline[1].recall = result[1].metrics.recall
        \/ ~(Delta(result[1].metrics, baseline).drop > RecallDropLimit)
FairlyJudged ==
    pc = "judged" /\ GateMode = "enforce" /\ report[1].failures = {} => NothingCritical /\ NoDrop

SuiteInv == SuiteTypeOK /\ Places /\ Phases /\ FirstRun /\ FairlyJudged /\ ZeroMeansJudged

LEMMA SomeIsNotNone == \A x : << x >> # None /\ << x >>[1] = x
BY DEF None

LEMMA CodesDiffer == << 0 >> # None /\ << 1 >> # None /\ << 0 >> # << 1 >>
BY DEF None

LEMMA SuiteInitInv == SuiteInit => SuiteInv
<1> SUFFICES ASSUME SuiteInit PROVE SuiteInv
  OBVIOUS
<1>1. SuiteTypeOK
  <2>1. services \in BOOLEAN /\ pc \notin Inside
    BY DEF SuiteInit, Inside, InsideAndroid
  <2>2. (status = "COMPLETED") = (result # None)
    BY DEF SuiteInit
  <2> QED
    BY <2>1, <2>2 DEF SuiteInit, SuiteTypeOK, InsideAndroid, Inside
<1>2. Places /\ Phases /\ FirstRun /\ FairlyJudged
  BY DEF SuiteInit, Places, Phases, FirstRun, FairlyJudged, InsideAndroid
<1>3. ZeroMeansJudged
  BY CodesDiffer DEF SuiteInit, ZeroMeansJudged
<1> QED
  BY <1>1, <1>2, <1>3 DEF SuiteInv

\* A suite ends with code 1, whatever it has got.
LEMMA EndsBadly ==
    ASSUME SuiteInv, Ends(1), status' = status \/ (status' = "FAILED" /\ pc \in {"scanning", "verifying"}),
           pc # "idle", services' \in BOOLEAN
    PROVE  SuiteInv'
BY CodesDiffer DEF Ends, ScanForgotten, SuiteInv, SuiteTypeOK, Places, Phases, FirstRun,
   FairlyJudged, ZeroMeansJudged, InsideAndroid, Inside, android, verdictVars

\* A step that neither ends the suite nor writes a result or a report.
LEMMA MovesOn ==
    ASSUME SuiteInv, SuiteTypeOK', Places', result' = result, report' = report, exit' = exit,
           pc' \notin {"idle", "judged"}, pc \notin {"judged", "stopping"},
           result # None => pc' = pc, suite' = suite,
           result # None => app' = app /\ linked' = linked
    PROVE  SuiteInv'
BY CodesDiffer DEF SuiteInv, Phases, FirstRun, FairlyJudged, ZeroMeansJudged

LEMMA PublishInv ==
    ASSUME SuiteInv, PublishResult, pc = "scanned" \/ (pc = "persisted" /\ linked = 1)
    PROVE  SuiteInv'
<1>1. PICK x : result' = << x >>
  BY DEF PublishResult
<1>2. result' # None
  BY <1>1, SomeIsNotNone
<1>3. SuiteTypeOK'
  <2>1. services' \in BOOLEAN /\ (suite' = "web" /\ pc' \in Inside => services')
    BY DEF PublishResult, SuiteInv, SuiteTypeOK, Inside, InsideAndroid
  <2>2. (status' = "COMPLETED") = (result' # None)
    BY <1>2 DEF PublishResult
  <2> QED
    BY <2>1, <2>2 DEF PublishResult, SuiteInv, SuiteTypeOK, Inside, InsideAndroid, android, scanVars
<1>4. Places' /\ Phases' /\ FirstRun' /\ FairlyJudged' /\ ZeroMeansJudged'
  BY <1>2, CodesDiffer DEF PublishResult, SuiteInv, Places, Phases, FirstRun, FairlyJudged,
     ZeroMeansJudged, InsideAndroid, android
<1> QED
  BY <1>3, <1>4 DEF SuiteInv

\* The ground truths are finite sets, so no critical item was missed if none was counted.
LEMMA NoneCounted ==
    ASSUME SuiteInv, IsFiniteSet(GroundTruth[suite]), ~(Cardinality(Critical(MissedItems)) > 0)
    PROVE  Critical(MissedItems) = {}
<1>1. Critical(MissedItems) \subseteq GroundTruth[suite]
  BY DEF SuiteInv, SuiteTypeOK, Critical, MissedItems
<1>2. IsFiniteSet(Critical(MissedItems))
  BY <1>1, FS_Subset
<1>3. Cardinality(Critical(MissedItems)) \in Nat
  BY <1>2, FS_CardinalityType
<1>4. Cardinality(Critical(MissedItems)) = 0
  BY <1>3
<1> QED
  BY <1>2, <1>4, FS_EmptySet

LEMMA JudgesInv ==
    ASSUME SuiteInv, NEW n, NEW found, Judges(n, found),
           suite = "web" => (~(n > 0) => Critical(MissedItems) = {})
    PROVE  SuiteInv'
<1>1. PICK slow \in BOOLEAN :
        report' = << [failures |-> GateFailures(result[1].metrics,
                                                Delta(result[1].metrics, baseline), FALSE,
                                                n, slow, FailOnDuration),
                      views |-> CustomerViews(found),
                      customer |-> CustomerMetrics(result[1].metrics, found)] >>
  BY DEF Judges
<1> DEFINE failures == GateFailures(result[1].metrics, Delta(result[1].metrics, baseline), FALSE,
                                    n, slow, FailOnDuration)
<1>2. report' # None /\ report'[1].failures = failures
  BY <1>1, SomeIsNotNone
<1>3. failures = {} => ~(n > 0)
  BY DEF GateFailures
<1>4. failures = {} =>
        ~(Delta(result[1].metrics, baseline).available
          /\ Delta(result[1].metrics, baseline).drop > RecallDropLimit)
  BY DEF GateFailures
<1> HIDE DEF failures
<1>5. /\ suite' = suite /\ expected' = expected /\ result' = result /\ pc' = "judged"
      /\ pc = "published" /\ result # None
      /\ status' = status /\ services' = services /\ app' = app /\ linked' = linked /\ exit' = exit
  BY DEF Judges, android
<1>6. SuiteTypeOK'
  <2>1. services' \in BOOLEAN /\ (suite' = "web" /\ pc' \in Inside => services')
    BY <1>5 DEF SuiteInv, SuiteTypeOK, Inside, InsideAndroid
  <2>2. (status' = "COMPLETED") = (result' # None)
    BY <1>5 DEF SuiteInv, SuiteTypeOK
  <2> QED
    BY <1>5, <2>1, <2>2 DEF Judges, SuiteInv, SuiteTypeOK, Inside, InsideAndroid, scanVars
<1>7. Places' /\ Phases' /\ FirstRun'
  BY <1>2, <1>5 DEF SuiteInv, Places, Phases, FirstRun, InsideAndroid
<1>8. ZeroMeansJudged'
  BY <1>5, CodesDiffer DEF SuiteInv, Phases, ZeroMeansJudged
<1>9. ASSUME failures = {} PROVE NothingCritical' /\ NoDrop'
  <2>1. NothingCritical'
    <3>1. Critical(MissedItems)' = Critical(MissedItems)
      BY <1>5 DEF Critical, MissedItems
    <3> QED
      BY <1>3, <1>5, <1>9, <3>1 DEF NothingCritical
  <2>2. CASE baseline' = baseline
    <3>1. baseline # None => Delta(result[1].metrics, baseline).available
      BY DEF Delta
    <3> QED
      BY <1>4, <1>5, <1>9, <2>1, <2>2, <3>1 DEF NoDrop
  <2>3. CASE baseline' = << [m \in Measured |-> result[1].metrics[m]] >>
    <3>1. baseline'[1].recall = result[1].metrics.recall
      BY <2>3 DEF Measured
    <3> QED
      BY <1>5, <2>1, <3>1 DEF NoDrop
  <2> QED
    BY <2>2, <2>3 DEF Judges
<1>10. FairlyJudged'
  BY <1>2, <1>9 DEF FairlyJudged
<1> QED
  BY <1>6, <1>7, <1>8, <1>10 DEF SuiteInv

LEMMA FinishInv ==
    ASSUME SuiteInv, Finish
    PROVE  SuiteInv'
<1> DEFINE code == GateExit(GateMode, report[1].failures, FALSE)
<1>1. /\ pc = "judged" /\ pc' = "stopping" /\ exit' = << code >>
      /\ UNCHANGED << suite, expected, result, report, baseline, status, services, app, linked >>
      /\ reported' = {}
  BY DEF Finish, Ends, ScanForgotten, android, verdictVars
<1>2. code \in {0, 1} /\ (code = 0 /\ GateMode = "enforce" => report[1].failures = {})
  BY DEF GateExit
<1>3. << code >> = << 0 >> => code = 0
  OBVIOUS
<1> HIDE DEF code
<1>4. exit' \in {None, << 0 >>, << 1 >>} /\ exit' # None
  BY <1>1, <1>2, SomeIsNotNone
<1>5. SuiteTypeOK'
  <2>1. services' \in BOOLEAN /\ pc' \notin Inside
    BY <1>1 DEF SuiteInv, SuiteTypeOK, Inside, InsideAndroid
  <2>2. (status' = "COMPLETED") = (result' # None)
    BY <1>1 DEF SuiteInv, SuiteTypeOK
  <2> QED
    BY <1>1, <1>4, <2>1, <2>2 DEF SuiteInv, SuiteTypeOK, Inside, InsideAndroid
<1>6. Places' /\ Phases' /\ FirstRun' /\ FairlyJudged'
  BY <1>1 DEF SuiteInv, Places, Phases, FirstRun, FairlyJudged, InsideAndroid
<1>7. ASSUME exit' = << 0 >> PROVE ZeroMeansJudged'
  <2>1. status = "COMPLETED" /\ report # None /\ (suite = "android" => linked = 1 /\ app = "completed")
    BY <1>1 DEF SuiteInv, SuiteTypeOK, Phases, FirstRun
  <2>2. GateMode = "enforce" => NothingCritical /\ NoDrop
    BY <1>1, <1>2, <1>3, <1>7 DEF SuiteInv, FairlyJudged
  <2>3. Critical(MissedItems)' = Critical(MissedItems)
    BY <1>1 DEF Critical, MissedItems
  <2> QED
    BY <1>1, <2>1, <2>2, <2>3 DEF ZeroMeansJudged, NothingCritical, NoDrop
<1> QED
  BY <1>5, <1>6, <1>7 DEF SuiteInv, ZeroMeansJudged

LEMMA SuiteStep == SuiteInv /\ [SuiteNext]_suiteVars => SuiteInv'
<1> SUFFICES ASSUME SuiteInv, [SuiteNext]_suiteVars PROVE SuiteInv'
  OBVIOUS
<1> USE DEF android, scanVars, verdictVars
<1>1. CASE Start
  <2>1. SuiteTypeOK'
    <3>1. services' \in BOOLEAN /\ (suite' = "web" => pc' \notin Inside)
      BY <1>1 DEF Start, SuiteInv, SuiteTypeOK, Inside, InsideAndroid
    <3>2. (status' = "COMPLETED") = (result' # None)
      BY <1>1 DEF Start, SuiteInv, SuiteTypeOK
    <3> QED
      BY <1>1, <3>1, <3>2 DEF Start, SuiteInv, SuiteTypeOK, Inside, InsideAndroid
  <2>2. Places'
    BY <1>1 DEF Start, SuiteInv, SuiteTypeOK, Places, InsideAndroid
  <2> QED
    BY <1>1, <2>1, <2>2, MovesOn DEF Start, SuiteInv, Phases
<1>2. CASE ServicesReady \/ Sync \/ CreateRun
  <2>1. result = None
    BY <1>2 DEF ServicesReady, Sync, CreateRun, SuiteInv, Phases
  <2>2. SuiteTypeOK' /\ Places'
    <3>1. CASE ServicesReady
      BY <3>1 DEF ServicesReady, SuiteInv, SuiteTypeOK, Places, Inside, InsideAndroid
    <3>2. CASE Sync
      BY <3>2 DEF Sync, SuiteInv, SuiteTypeOK, Places, Inside, InsideAndroid
    <3>3. CASE CreateRun
      BY <2>1, <3>3 DEF CreateRun, SuiteInv, SuiteTypeOK, Places, Inside, InsideAndroid
    <3> QED
      BY <1>2, <3>1, <3>2, <3>3
  <2> QED
    BY <1>2, <2>2, MovesOn DEF ServicesReady, Sync, CreateRun, SuiteInv, Phases
<1>3. CASE PassiveReports \/ SensitiveReports \/ ZapReports \/ ScannerFails
  <2>1. PICK s \in Scanners : Reports(s)
    BY <1>3 DEF PassiveReports, SensitiveReports, ZapReports, ScannerFails, Scanners
  <2>2. SuiteTypeOK' /\ Places'
    BY <2>1 DEF Reports, SuiteInv, SuiteTypeOK, Places, Inside, InsideAndroid
  <2> QED
    BY <2>1, <2>2, MovesOn DEF Reports, SuiteInv, Phases
<1>4. CASE Analyze \/ Store \/ MatchFails
  <2>1. SuiteTypeOK' /\ Places'
    BY <1>4 DEF Analyze, Store, ScanForgotten, MatchFails, SuiteInv, SuiteTypeOK, Places, Inside,
       InsideAndroid
  <2> QED
    BY <1>4, <2>1, MovesOn DEF Analyze, Store, MatchFails, SuiteInv, Phases
<1>5. CASE Verify
  <2>1. UNCHANGED << suite, pc, services, expected, status, reported, result, report, exit, app, linked >>
    BY <1>5 DEF Verify
  <2>2. pc = "verifying"
    BY <1>5 DEF Verify
  <2>3. SuiteTypeOK' /\ Places'
    BY <2>1 DEF SuiteInv, SuiteTypeOK, Places, Inside, InsideAndroid
  <2> QED
    BY <2>1, <2>2, <2>3, MovesOn
<1>6. CASE UploadFixture
  <2>1. SuiteTypeOK'
    BY <1>6 DEF UploadFixture, SuiteInv, SuiteTypeOK, Phases, Inside, InsideAndroid
  <2>2. Places'
    BY <1>6 DEF UploadFixture, SuiteInv, Places, InsideAndroid
  <2> QED
    BY <1>6, <2>1, <2>2, MovesOn DEF UploadFixture, SuiteInv, Phases
<1>7. CASE SkipAnalysis \/ AnalyzeApk \/ AnalysisFails
  <2>1. SuiteTypeOK' /\ Places'
    BY <1>7 DEF SkipAnalysis, AnalyzeApk, AnalysisFails, SuiteInv, SuiteTypeOK, Places, Inside,
       InsideAndroid
  <2> QED
    BY <1>7, <2>1, MovesOn DEF SkipAnalysis, AnalyzeApk, AnalysisFails, SuiteInv, Phases
<1>8. CASE Match \/ MatchApk
  BY <1>8, PublishInv DEF Match, MatchApk
<1>9. CASE Judge
  <2>1. suite = "web" /\ IsFiniteSet(GroundTruth[suite])
    BY <1>9, GroundTruthAssumption DEF Judge
  <2>2. ~(Cardinality(Critical(MissedItems)) > 0) => Critical(MissedItems) = {}
    BY <2>1, NoneCounted
  <2> QED
    BY <1>9, <2>2, JudgesInv DEF Judge
<1>10. CASE JudgeApk
  BY <1>10, JudgesInv DEF JudgeApk
<1>11. CASE Finish
  BY <1>11, FinishInv
<1>12. CASE ServicesLate \/ ScanFails \/ NoResult \/ SuiteEnds
  <2>1. services' \in BOOLEAN
    BY <1>12 DEF ServicesLate, ScanFails, NoResult, SuiteEnds, SuiteInv, SuiteTypeOK
  <2> QED
    BY <1>12, <2>1, EndsBadly DEF ServicesLate, ScanFails, NoResult, SuiteEnds, Inside, InsideAndroid
<1>13. CASE Stop \/ Die
  <2>1. Leaves /\ services' \in BOOLEAN
    BY <1>13 DEF Stop, Die, SuiteInv, SuiteTypeOK
  <2>2. (status' = "COMPLETED") = (result' # None)
    BY <2>1 DEF Leaves
  <2>3. SuiteTypeOK'
    BY <2>1, <2>2 DEF Leaves, ScanForgotten, SuiteInv, SuiteTypeOK, Inside, InsideAndroid
  <2> QED
    BY <2>1, <2>3, CodesDiffer DEF Leaves, SuiteInv, Places, Phases, FirstRun, FairlyJudged,
       ZeroMeansJudged, InsideAndroid
<1>14. CASE UNCHANGED suiteVars
  <2>1. UNCHANGED << suite, pc, services, expected, status, reported, result, report, baseline,
                     exit, app, linked >>
    BY <1>14 DEF suiteVars
  <2>2. SuiteTypeOK' /\ Places' /\ Phases' /\ FirstRun'
    BY <2>1 DEF SuiteInv, SuiteTypeOK, Places, Phases, FirstRun
  <2>3. Critical(MissedItems)' = Critical(MissedItems)
    BY <2>1 DEF Critical, MissedItems
  <2>4. FairlyJudged' /\ ZeroMeansJudged'
    BY <2>1, <2>3 DEF SuiteInv, FairlyJudged, NothingCritical, NoDrop, ZeroMeansJudged
  <2> QED
    BY <2>2, <2>4 DEF SuiteInv
<1> QED
  BY <1>1, <1>2, <1>3, <1>4, <1>5, <1>6, <1>7, <1>8, <1>9, <1>10, <1>11, <1>12, <1>13, <1>14
     DEF SuiteNext

LEMMA VerdictsMonotone == ReleaseMonotone
<1>1. Quality \subseteq Measurement
  BY DEF Quality, Measurement
<1>2. ASSUME NEW web \in Quality, NEW api \in Quality, NEW customer \in Quality,
             NEW blind \in {None, << FALSE >>, << TRUE >>}
      PROVE  MonotoneAt(web, api, customer, blind, Quality)
  <2>1. MonotoneAt(web, api, customer, blind, Measurement)
    BY <1>1, VerdictMonotone DEF BlindResults
  <2> QED
    BY <1>1, <2>1, ZenonT(30) DEF MonotoneAt
<1>3. \A web, api, customer \in Quality, blind \in {None, << FALSE >>, << TRUE >>} :
        MonotoneAt(web, api, customer, blind, Quality)
  BY <1>2
<1> QED
  BY <1>3 DEF ReleaseMonotone

\* A suite of the runner that ends with 0 was measured and judged, of an APK only its
\* first run; under an enforced gate nothing critical was missed and recall has not
\* dropped; better measurements are judged no worse.
THEOREM VerdictsEarned == SuiteSpec => []VerdictEarned
<1>1. SuiteInv => VerdictEarned
  BY VerdictsMonotone DEF SuiteInv, VerdictEarned
<1> QED
  BY <1>1, SuiteInitInv, SuiteStep, PTL DEF SuiteSpec

-----------------------------------------------------------------------------
(* What the analysis and the matching are built from: least elements, sets *)
(* of one size, enumerations.                                              *)

LEMMA MinOfNats ==
    ASSUME NEW S \in SUBSET Nat, S # {}
    PROVE  Min(S) \in S /\ \A x \in S : Min(S) <= x
<1>1. PICK x \in S : \A y \in S : ~(<< y, x >> \in OpToRel(<, Nat))
  BY NatLessThanWellFounded, WFMin
<1>2. ASSUME NEW y \in S PROVE x <= y
  <2>1. x \in Nat /\ y \in Nat
    OBVIOUS
  <2>2. y < x => << y, x >> \in OpToRel(<, Nat)
    BY <2>1 DEF OpToRel
  <2>3. ~(y < x)
    BY <1>1, <2>2
  <2> QED
    BY <2>1, <2>3
<1> QED
  BY <1>2 DEF Min

\* The first of some positions of a list.
LEMMA FirstOf ==
    ASSUME NEW n \in Nat, NEW S \in SUBSET (1..n), S # {}
    PROVE  Min(S) \in S /\ \A x \in S : Min(S) <= x
BY MinOfNats, 1..n \subseteq Nat

\* A map onto a set whose elements it tells apart keeps the size.
LEMMA SameSize ==
    ASSUME NEW S, NEW T, IsFiniteSet(S), NEW f \in [S -> T],
           \A a, b \in S : f[a] = f[b] => a = b,
           \A t \in T : \E s \in S : f[s] = t
    PROVE  IsFiniteSet(T) /\ Cardinality(T) = Cardinality(S)
<1>1. f \in Injection(S, T)
  BY DEF Injection, IsInjective
<1>2. f \in Surjection(S, T)
  BY DEF Surjection
<1>3. ExistsBijection(S, T)
  BY <1>1, <1>2 DEF ExistsBijection, Bijection
<1> QED
  BY <1>3, FS_Bijection

LEMMA FiniteImage ==
    ASSUME NEW S, NEW T, IsFiniteSet(S), NEW f \in [S -> T], \A t \in T : \E s \in S : f[s] = t
    PROVE  IsFiniteSet(T) /\ Cardinality(T) <= Cardinality(S)
<1>1. f \in Surjection(S, T)
  BY DEF Surjection
<1> QED
  BY <1>1, FS_Surjection

\* Every finite set can be listed, and a list of it has exactly its elements.
LEMMA ListOf ==
    ASSUME NEW S, IsFiniteSet(S)
    PROVE  /\ SetToSeq(S) \in SetToSeqs(S)
           /\ \A s \in SetToSeqs(S) : /\ s \in Seq(S) /\ Range(s) = S
                                      /\ Len(s) = Cardinality(S)
                                      /\ \A i, j \in DOMAIN s : s[i] = s[j] => i = j
<1> DEFINE n == Cardinality(S)
<1>1. n \in Nat /\ ExistsBijection(1..n, S)
  BY FS_CardinalityType
<1>2. PICK b \in [1..n -> S] : IsInjective(b)
  BY <1>1 DEF ExistsBijection, Bijection, Injection
<1>3. SetToSeq(S) \in [1..n -> S] /\ IsInjective(SetToSeq(S))
  BY <1>2 DEF SetToSeq
<1>4. SetToSeq(S) \in SetToSeqs(S)
  BY <1>3 DEF SetToSeqs, IsInjective
<1>5. ASSUME NEW s \in SetToSeqs(S)
      PROVE  /\ s \in Seq(S) /\ Range(s) = S /\ Len(s) = Cardinality(S)
             /\ \A i, j \in DOMAIN s : s[i] = s[j] => i = j
  <2>1. s \in [1..n -> S] /\ \A i, j \in 1..n : i # j => s[i] # s[j]
    BY <1>5 DEF SetToSeqs
  <2>2. s \in Seq(S) /\ Len(s) = n
    BY <1>1, <2>1
  <2>3. IsFiniteSet(1..n) /\ Cardinality(1..n) = n
    BY <1>1, FS_Interval
  <2>4. s \in Injection(1..n, S)
    BY <2>1 DEF Injection, IsInjective
  <2>5. s \in Surjection(1..n, S)
    BY <2>3, <2>4, FS_Injection
  <2>6. Range(s) = S
    BY <2>1, <2>5 DEF Range, Surjection
  <2> QED
    BY <2>1, <2>2, <2>6
<1> QED
  BY <1>4, <1>5

-----------------------------------------------------------------------------
(* Addresses, severities and keys of raw findings.                         *)

\* What is known of a raw finding of one of the scanners.
Reportable(r) ==
    /\ Address(r.url)
    /\ r.severity \in DOMAIN SeverityRank
    /\ "masked_sample" \in DOMAIN r.evidence => "pattern" \in DOMAIN r.evidence
    /\ CorrelationKey(r) \in SecretKeys => r.severity = SecretSeverity[CorrelationKey(r)[2]]

LEMMA Ranks ==
    \A s \in DOMAIN SeverityRank : SeverityRank[s] \in 1..5
BY DEF SeverityRank

LEMMA CanonicalAddress ==
    ASSUME NEW u, Address(u)
    PROVE  /\ Address(Canonical(u)) /\ Canonical(u) = << u[1], u[2], 0 >>
           /\ Canonical(Canonical(u)) = Canonical(u)
BY DEF Address, Canonical

\* Of some canonical addresses one comes first.
LEMMA LeastUrlIn ==
    ASSUME NEW U, U # {}, \A u \in U : Address(u) /\ Canonical(u) = u
    PROVE  LeastUrl(U) \in U
<1> DEFINE H == {u \in U : u[1] = "http"}
           pool == IF H # {} THEN H ELSE U
           paths == {u[2] : u \in pool}
<1>1. pool # {} /\ pool \subseteq U
  OBVIOUS
<1>2. \A u, v \in pool : u[1] = v[1]
  BY DEF Address
<1>3. paths \in SUBSET Nat /\ paths # {}
  BY <1>1 DEF Address
<1>4. PICK u \in pool : u[2] = Min(paths)
  BY <1>3, MinOfNats
<1>5. ASSUME NEW v \in U \ {u} PROVE UrlBefore(u, v)
  <2>1. CASE v \in pool
    <3>1. u[2] <= v[2]
      BY <1>3, <1>4, <2>1, MinOfNats
    <3>2. u[1] = v[1]
      BY <1>2, <1>4, <2>1
    <3>3. u = << u[1], u[2], 0 >> /\ v = << v[1], v[2], 0 >>
      BY <1>1, <1>4, CanonicalAddress
    <3>4. u[2] # v[2]
      BY <1>5, <3>2, <3>3
    <3> QED
      BY <1>1, <3>1, <3>2, <3>4 DEF UrlBefore, Address
  <2>2. CASE v \notin pool
    BY <1>5, <1>4, <2>2 DEF UrlBefore, Address
  <2> QED
    BY <2>1, <2>2
<1> QED
  BY <1>1, <1>5 DEF LeastUrl

\* Of some findings one is the severest.
LEMMA SeverestIn ==
    ASSUME NEW S, S # {}, \A r \in S : r.severity \in DOMAIN SeverityRank
    PROVE  /\ \E r \in S : r.severity = Severest(S)
           /\ \A r \in S : SeverityRank[r.severity] <= SeverityRank[Severest(S)]
<1> DEFINE missing == {5 - SeverityRank[r.severity] : r \in S}
<1>1. missing \in SUBSET Nat /\ missing # {}
  BY Ranks
<1>2. PICK r \in S : 5 - SeverityRank[r.severity] = Min(missing)
  BY <1>1, MinOfNats
<1>3. ASSUME NEW q \in S PROVE SeverityRank[q.severity] <= SeverityRank[r.severity]
  <2>1. 5 - SeverityRank[q.severity] \in missing
    OBVIOUS
  <2>2. Min(missing) <= 5 - SeverityRank[q.severity]
    BY <1>1, <2>1, MinOfNats
  <2> QED
    BY <1>2, <2>2, Ranks
<1>4. r.severity \in {q.severity : q \in S}
  OBVIOUS
<1>5. \E s \in {q.severity : q \in S} : \A q \in S : SeverityRank[q.severity] <= SeverityRank[s]
  BY <1>3, <1>4
<1>6. /\ Severest(S) \in {q.severity : q \in S}
      /\ \A q \in S : SeverityRank[q.severity] <= SeverityRank[Severest(S)]
  BY <1>5 DEF Severest
<1> QED
  BY <1>6

LEMMA PriorityType == \A t : ToolPriority(t) \in 1..99 /\ (ToolPriority(t) = 1 <=> t = "passive_http")
<1> TAKE t
<1>1. DOMAIN PreferredTools = 1..6
  BY DEF PreferredTools
<1>2. CASE \E i \in DOMAIN PreferredTools : PreferredTools[i] = t
  <2>1. ToolPriority(t) \in 1..6 /\ PreferredTools[ToolPriority(t)] = t
    BY <1>1, <1>2 DEF ToolPriority
  <2>2. \A i \in 2..6 : PreferredTools[i] # PreferredTools[1]
    BY DEF PreferredTools
  <2>3. PreferredTools[1] = "passive_http"
    BY DEF PreferredTools
  <2> QED
    BY <2>1, <2>2, <2>3
<1>3. CASE ~\E i \in DOMAIN PreferredTools : PreferredTools[i] = t
  <2>1. PreferredTools[1] = "passive_http" /\ 1 \in DOMAIN PreferredTools
    BY <1>1 DEF PreferredTools
  <2> QED
    BY <1>3, <2>1 DEF ToolPriority
<1> QED
  BY <1>2, <1>3

\* The members of a group: its raw findings at some positions of a list.
Members(items) ==
    /\ DOMAIN items \subseteq Nat /\ DOMAIN items # {}
    /\ \A r \in Range(items) : Reportable(r)

LEMMA PrimaryIn ==
    ASSUME NEW items, Members(items)
    PROVE  Primary(items) \in Range(items)
<1> DEFINE ranks == {ToolPriority(r.tool) : r \in Range(items)}
           best == Min(ranks)
           pool == {i \in DOMAIN items : ToolPriority(items[i].tool) = best}
           trusted == {items[i] : i \in pool}
           worst == Severest(trusted)
           leading == {i \in pool : items[i].severity = worst}
<1>1. ranks \in SUBSET Nat /\ ranks # {}
  BY PriorityType DEF Members, Range
<1>2. pool # {}
  <2>1. best \in ranks
    BY <1>1, MinOfNats
  <2> QED
    BY <2>1 DEF Range
<1>3. trusted # {} /\ \A r \in trusted : r.severity \in DOMAIN SeverityRank
  BY <1>2 DEF Members, Range, Reportable
<1>4. \E r \in trusted : r.severity = worst
  BY <1>3, SeverestIn
<1>5. leading # {} /\ leading \in SUBSET Nat
  BY <1>4 DEF Members
<1>6. Min(leading) \in leading
  BY <1>5, MinOfNats
<1>7. Primary(items) = items[Min(leading)]
  BY DEF Primary
<1> QED
  BY <1>6, <1>7 DEF Range

-----------------------------------------------------------------------------
(* Correlation: a merged finding has the identity of its group.            *)

LEMMA TokenOf ==
    \A key, evidence :
        /\ SecretToken(key, evidence) # None <=> key \in SecretKeys /\ "masked_sample" \in DOMAIN evidence
        /\ SecretToken(key, evidence) # None =>
             SecretToken(key, evidence) =
                << IF "pattern" \in DOMAIN evidence THEN evidence["pattern"] ELSE key,
                   evidence["masked_sample"] >>
BY DEF SecretToken, None

\* Every field of a merged evidence, and nothing else, is that of a member.
LEMMA MergedFields ==
    ASSUME NEW items, Members(items)
    PROVE  /\ DOMAIN MergedEvidence(items) = UNION {DOMAIN r.evidence : r \in Range(items)}
           /\ \A f \in DOMAIN MergedEvidence(items) : \E r \in Range(items) :
                f \in DOMAIN r.evidence /\ MergedEvidence(items)[f] = r.evidence[f]
<1> DEFINE fields == UNION {DOMAIN r.evidence : r \in Range(items)}
           having(f) == {i \in DOMAIN items : f \in DOMAIN items[i].evidence}
           lead == Primary(items).evidence
<1>1. MergedEvidence(items) = [f \in fields |-> IF f \in DOMAIN lead THEN lead[f]
                                                ELSE items[Min(having(f))].evidence[f]]
  BY DEF MergedEvidence
<1>2. ASSUME NEW f \in fields
      PROVE  \E r \in Range(items) :
                f \in DOMAIN r.evidence /\ MergedEvidence(items)[f] = r.evidence[f]
  <2>1. CASE f \in DOMAIN lead
    <3>1. MergedEvidence(items)[f] = lead[f]
      BY <1>1, <2>1
    <3> QED
      BY <2>1, <3>1, PrimaryIn
  <2>2. CASE f \notin DOMAIN lead
    <3>1. having(f) \in SUBSET Nat /\ having(f) # {}
      BY <1>2 DEF Members, Range
    <3>2. Min(having(f)) \in having(f)
      BY <3>1, MinOfNats
    <3>3. MergedEvidence(items)[f] = items[Min(having(f))].evidence[f]
      BY <1>1, <2>2
    <3> QED
      BY <3>2, <3>3 DEF Range
  <2> QED
    BY <2>1, <2>2
<1>3. DOMAIN MergedEvidence(items) = fields
  BY <1>1
<1> QED
  BY <1>2, <1>3

LEMMA MergedUrl ==
    ASSUME NEW items, Members(items)
    PROVE  LET url == MergeGroup(<< >>, items).url
           IN  /\ url \in {Canonical(r.url) : r \in Range(items)}
               /\ url = LeastUrl({Canonical(r.url) : r \in Range(items)})
               /\ Address(url) /\ Canonical(url) = url
<1> DEFINE urls == {Canonical(r.url) : r \in Range(items)}
<1>1. MergeGroup(<< >>, items).url = LeastUrl(urls)
  BY DEF MergeGroup
<1>2. urls # {} /\ \A u \in urls : Address(u) /\ Canonical(u) = u
  BY CanonicalAddress DEF Members, Range, Reportable
<1>3. LeastUrl(urls) \in urls
  BY <1>2, LeastUrlIn
<1> QED
  BY <1>1, <1>2, <1>3

LEMMA MergedIdentity ==
    ASSUME NEW items, Members(items), NEW group, \A r \in Range(items) : GroupKey(r) = group
    PROVE  Fingerprint(MergeGroup(group, items)) = group
<1> DEFINE merged == MergeGroup(group, items)
           evidence == MergedEvidence(items)
           key == group[1]
           secret(r) == SecretToken(key, r.evidence)
<1>1. \A r \in Range(items) :
        CorrelationKey(r) = key /\ group = << key, IF secret(r) # None THEN secret(r) ELSE Canonical(r.url) >>
  BY DEF GroupKey
<1>2. merged.key = key /\ merged.evidence = evidence /\ merged.url = MergeGroup(<< >>, items).url
  BY DEF MergeGroup
<1>3. Fingerprint(merged) =
        << key, IF SecretToken(key, evidence) # None THEN SecretToken(key, evidence)
                ELSE Canonical(merged.url) >>
  BY <1>2 DEF Fingerprint
<1>4. \A r \in Range(items) : "masked_sample" \in DOMAIN r.evidence => "pattern" \in DOMAIN r.evidence
  BY DEF Members, Reportable
<1>5. PICK first \in Range(items) : TRUE
  BY DEF Members, Range
<1>6. \A r \in Range(items) : secret(r) # None <=> secret(first) # None
  <2>1. \A r \in Range(items) : secret(r) # None => \E a, b : secret(r) = << a, b >>
    BY TokenOf
  <2>2. \A r \in Range(items) : Canonical(r.url) = << r.url[1], r.url[2], 0 >>
    BY DEF Canonical
  <2>3. \A a, b, c, d, e : << a, b >> # << c, d, e >>
    OBVIOUS
  <2>4. ASSUME NEW r \in Range(items), NEW q \in Range(items), secret(r) # None, secret(q) = None
        PROVE  FALSE
    <3>1. secret(r) = Canonical(q.url)
      BY <1>1, <2>4
    <3> QED
      BY <2>1, <2>2, <2>3, <2>4, <3>1
  <2> QED
    BY <1>5, <2>4
<1>7. DOMAIN evidence = UNION {DOMAIN r.evidence : r \in Range(items)}
  BY MergedFields
<1> HIDE DEF merged, evidence
<1>8. CASE secret(first) # None
  <2>1. \A r \in Range(items) : /\ key \in SecretKeys /\ "masked_sample" \in DOMAIN r.evidence
                                /\ group = << key, << r.evidence["pattern"], r.evidence["masked_sample"] >> >>
    BY <1>1, <1>4, <1>6, <1>8, TokenOf
  <2>2. "masked_sample" \in DOMAIN evidence /\ "pattern" \in DOMAIN evidence
    <3>1. "masked_sample" \in DOMAIN first.evidence /\ "pattern" \in DOMAIN first.evidence
      BY <1>4, <1>5, <2>1
    <3> QED
      BY <1>5, <1>7, <3>1
  <2>3. PICK r \in Range(items) : evidence["masked_sample"] = r.evidence["masked_sample"]
    BY <2>2, MergedFields DEF evidence
  <2>4. PICK q \in Range(items) : evidence["pattern"] = q.evidence["pattern"]
    BY <2>2, MergedFields DEF evidence
  <2>5. << evidence["pattern"], evidence["masked_sample"] >> = group[2]
    <3>1. group[2] = << r.evidence["pattern"], r.evidence["masked_sample"] >>
      BY <2>1
    <3>2. group[2] = << q.evidence["pattern"], q.evidence["masked_sample"] >>
      BY <2>1
    <3> QED
      BY <2>3, <2>4, <3>1, <3>2
  <2>6. SecretToken(key, evidence) = group[2] /\ SecretToken(key, evidence) # None
    BY <1>5, <2>1, <2>2, <2>5, TokenOf
  <2>7. group = << key, group[2] >>
    BY <1>1, <1>5
  <2> QED
    BY <1>3, <2>6, <2>7 DEF merged
<1>9. CASE secret(first) = None
  <2>1. \A r \in Range(items) : group = << key, Canonical(r.url) >>
    BY <1>1, <1>6, <1>9
  <2>2. \A r \in Range(items) : ~(key \in SecretKeys /\ "masked_sample" \in DOMAIN r.evidence)
    BY <1>6, <1>9, TokenOf
  <2>3. SecretToken(key, evidence) = None
    <3>1. ~(key \in SecretKeys /\ "masked_sample" \in DOMAIN evidence)
      BY <1>7, <2>2
    <3> QED
      BY <3>1, TokenOf
  <2>4. PICK r \in Range(items) : merged.url = Canonical(r.url)
    BY <1>2, MergedUrl DEF merged
  <2>5. Canonical(merged.url) = Canonical(r.url)
    BY <1>2, <2>4, MergedUrl DEF merged
  <2> QED
    BY <1>3, <2>1, <2>3, <2>5 DEF merged
<1> QED
  BY <1>8, <1>9 DEF merged

-----------------------------------------------------------------------------
(* Correlation: one finding for each group of a list of raw findings.      *)

Listed(list) == list \in Seq(Range(list)) /\ \A r \in Range(list) : Reportable(r)
Groups(list) == {GroupKey(r) : r \in Range(list)}

FindingFields == {"key", "title", "words", "mentions", "severity", "url", "tools", "sources",
                  "confidence", "evidence"}

\* What is known of a correlated finding, and still of the verified and scored one.
Correlated(f) ==
    /\ FindingFields \subseteq DOMAIN f
    /\ f.severity \in DOMAIN SeverityRank
    /\ Address(f.url) /\ Canonical(f.url) = f.url
    /\ IsFiniteSet(f.tools) /\ f.tools # {}
    /\ f.confidence \in {"low", "medium"}
    /\ f.key \in SecretKeys => f.severity = SecretSeverity[f.key[2]]

LEMMA GroupMembers ==
    ASSUME NEW list, Listed(list), NEW g \in Groups(list)
    PROVE  /\ Members(MembersOf(g, list))
           /\ Range(MembersOf(g, list)) = {r \in Range(list) : GroupKey(r) = g}
           /\ IsFiniteSet(Range(MembersOf(g, list)))
<1> DEFINE places == {i \in DOMAIN list : GroupKey(list[i]) = g}
           items == MembersOf(g, list)
<1>1. items = [i \in places |-> list[i]]
  BY DEF MembersOf, Restrict
<1>2. DOMAIN list = 1..Len(list) /\ Len(list) \in Nat
  BY DEF Listed
<1>3. places \subseteq Nat /\ places # {}
  BY <1>2 DEF Groups, Range
<1>4. Range(items) = {r \in Range(list) : GroupKey(r) = g}
  BY <1>1 DEF Range
<1>5. IsFiniteSet(places)
  <2>1. IsFiniteSet(1..Len(list))
    BY <1>2, FS_Interval
  <2> QED
    BY <1>2, <2>1, FS_Subset
<1>6. IsFiniteSet(Range(items))
  <2>1. items \in [places -> Range(items)]
    BY <1>1 DEF Range
  <2>2. \A r \in Range(items) : \E i \in places : items[i] = r
    BY <1>1 DEF Range
  <2> QED
    BY <1>5, <2>1, <2>2, FiniteImage
<1>7. Members(items)
  BY <1>1, <1>3, <1>4 DEF Members, Listed
<1> QED
  BY <1>4, <1>6, <1>7

LEMMA ToolsFinite ==
    ASSUME NEW S, IsFiniteSet(S)
    PROVE  IsFiniteSet({r.tool : r \in S})
<1> DEFINE T == {r.tool : r \in S}
           f == [r \in S |-> r.tool]
<1>1. f \in [S -> T] /\ \A t \in T : \E s \in S : f[s] = t
  OBVIOUS
<1> QED
  BY <1>1, FiniteImage, ZenonT(30)

LEMMA MergedCorrelated ==
    ASSUME NEW list, Listed(list), NEW g \in Groups(list)
    PROVE  LET f == MergeGroup(g, MembersOf(g, list))
               issue == {r \in Range(list) : GroupKey(r) = g}
           IN  /\ Correlated(f) /\ DOMAIN f = FindingFields /\ Fingerprint(f) = g /\ f.key = g[1]
               /\ f.tools = {r.tool : r \in issue}
               /\ f.severity = Severest(issue)
               /\ \A r \in issue : SeverityRank[r.severity] <= SeverityRank[f.severity]
               /\ \E r \in issue : r.severity = f.severity /\ CorrelationKey(r) = f.key
               /\ f.url = LeastUrl({Canonical(r.url) : r \in issue})
               /\ \E r \in issue : Canonical(r.url) = f.url
<1> DEFINE items == MembersOf(g, list)
           f == MergeGroup(g, items)
           issue == {r \in Range(list) : GroupKey(r) = g}
<1>1. Members(items) /\ Range(items) = issue /\ IsFiniteSet(issue)
  BY GroupMembers
<1>2. issue # {} /\ \A r \in issue : Reportable(r) /\ CorrelationKey(r) = g[1]
  BY DEF Listed, Groups, GroupKey
<1>3. Fingerprint(f) = g
  BY <1>1, MergedIdentity
<1> HIDE DEF items, issue
<1>4. /\ DOMAIN f = FindingFields
      /\ f.key = g[1] /\ f.severity = Severest(issue) /\ f.tools = {r.tool : r \in issue}
      /\ f.confidence \in {"low", "medium"}
      /\ f.url = LeastUrl({Canonical(r.url) : r \in issue})
  BY <1>1 DEF MergeGroup, FindingFields
<1>5. f.url = MergeGroup(<< >>, items).url
  BY DEF MergeGroup
<1> HIDE DEF f
<1>6. /\ \E r \in issue : r.severity = f.severity
      /\ \A r \in issue : SeverityRank[r.severity] <= SeverityRank[f.severity]
  BY <1>2, <1>4, SeverestIn DEF Reportable
<1>7. f.key \in SecretKeys => f.severity = SecretSeverity[f.key[2]]
  BY <1>2, <1>4, <1>6 DEF Reportable
<1>8. Address(f.url) /\ Canonical(f.url) = f.url /\ \E r \in issue : Canonical(r.url) = f.url
  BY <1>1, <1>5, MergedUrl
<1>9. IsFiniteSet(f.tools) /\ f.tools # {}
  BY <1>1, <1>2, <1>4, ToolsFinite
<1>10. f.severity \in DOMAIN SeverityRank
  BY <1>2, <1>6 DEF Reportable
<1>11. Correlated(f)
  BY <1>4, <1>7, <1>8, <1>9, <1>10 DEF Correlated
<1>12. \E r \in issue : r.severity = f.severity /\ CorrelationKey(r) = f.key
  BY <1>2, <1>4, <1>6
<1> QED
  BY <1>3, <1>4, <1>6, <1>8, <1>11, <1>12 DEF f, items, issue

LEMMA GroupsFinite ==
    ASSUME NEW list, Listed(list)
    PROVE  IsFiniteSet(Groups(list))
<1>1. list \in [1..Len(list) -> Range(list)] /\ Len(list) \in Nat
  BY DEF Listed
<1> DEFINE f == [i \in 1..Len(list) |-> GroupKey(list[i])]
<1>2. f \in [1..Len(list) -> Groups(list)] /\ \A g \in Groups(list) : \E i \in 1..Len(list) : f[i] = g
  BY <1>1 DEF Groups, Range
<1>3. IsFiniteSet(1..Len(list))
  BY <1>1, FS_Interval
<1> QED
  BY <1>2, <1>3, FiniteImage

\* The findings of a list are as many as its groups, told apart by their identities.
LEMMA CorrelateSound ==
    ASSUME NEW list, Listed(list)
    PROVE  /\ \A f \in Correlate(list) :
                Correlated(f) /\ DOMAIN f = FindingFields /\ Fingerprint(f) \in Groups(list)
           /\ \A f, h \in Correlate(list) : Fingerprint(f) = Fingerprint(h) => f = h
           /\ IsFiniteSet(Correlate(list))
           /\ Cardinality(Correlate(list)) = Cardinality(Groups(list))
           /\ {Fingerprint(f) : f \in Correlate(list)} = Groups(list)
<1> DEFINE merged == [g \in Groups(list) |-> MergeGroup(g, MembersOf(g, list))]
<1>1. Correlate(list) = {merged[g] : g \in Groups(list)}
  BY DEF Correlate, Groups
<1>2. \A g \in Groups(list) :
        Correlated(merged[g]) /\ DOMAIN merged[g] = FindingFields /\ Fingerprint(merged[g]) = g
  BY MergedCorrelated
<1> HIDE DEF merged
<1>3. merged \in [Groups(list) -> Correlate(list)]
  BY <1>1 DEF merged
<1>4. /\ \A g, h \in Groups(list) : merged[g] = merged[h] => g = h
      /\ \A f \in Correlate(list) : \E g \in Groups(list) : merged[g] = f
  <2>1. \A g, h \in Groups(list) : merged[g] = merged[h] => g = h
    BY <1>2
  <2>2. \A f \in Correlate(list) : \E g \in Groups(list) : merged[g] = f
    BY <1>1
  <2> QED
    BY <2>1, <2>2
<1>5. /\ IsFiniteSet(Correlate(list))
      /\ Cardinality(Correlate(list)) = Cardinality(Groups(list))
  BY <1>3, <1>4, GroupsFinite, SameSize
<1>6. \A f \in Correlate(list) :
        Correlated(f) /\ DOMAIN f = FindingFields /\ Fingerprint(f) \in Groups(list)
  BY <1>2, <1>4
<1>7. \A f, h \in Correlate(list) : Fingerprint(f) = Fingerprint(h) => f = h
  BY <1>2, <1>4
<1>8. {Fingerprint(f) : f \in Correlate(list)} = Groups(list)
  <2>1. \A g \in Groups(list) : \E f \in Correlate(list) : Fingerprint(f) = g
    BY <1>1, <1>2
  <2> QED
    BY <1>6, <2>1
<1> QED
  BY <1>5, <1>6, <1>7, <1>8

\* The definition of an issue by its findings and that by the key agree.
LEMMA IssueByKey ==
    ASSUME NEW a, NEW b
    PROVE  SameIssue(a, b) <=> GroupKey(a) = GroupKey(b)
<1> DEFINE s == SecretToken(CorrelationKey(a), a.evidence)
           t == SecretToken(CorrelationKey(b), b.evidence)
<1>1. SameIssue(a, b) <=>
        /\ CorrelationKey(a) = CorrelationKey(b)
        /\ IF s = None THEN t = None /\ Canonical(a.url) = Canonical(b.url) ELSE s = t
  BY DEF SameIssue
<1>2. /\ GroupKey(a) = << CorrelationKey(a), IF s # None THEN s ELSE Canonical(a.url) >>
      /\ GroupKey(b) = << CorrelationKey(b), IF t # None THEN t ELSE Canonical(b.url) >>
  BY DEF GroupKey
<1>3. /\ s # None => \E x, y : s = << x, y >>
      /\ t # None => \E x, y : t = << x, y >>
  BY TokenOf
<1>4. /\ \E x, y : Canonical(a.url) = << x, y, 0 >>
      /\ \E x, y : Canonical(b.url) = << x, y, 0 >>
  BY DEF Canonical
<1>5. \A x, y, u, v, w : << x, y >> # << u, v, w >>
  OBVIOUS
<1>6. s # None => s # Canonical(b.url)
  BY <1>3, <1>4, <1>5
<1>7. t # None => t # Canonical(a.url)
  BY <1>3, <1>4, <1>5
<1> HIDE DEF s, t
<1> QED
  BY <1>1, <1>2, <1>6, <1>7

LEMMA IssuesCounted ==
    ASSUME NEW list, Listed(list)
    PROVE  /\ IssuesOf(list) = {{r \in Range(list) : GroupKey(r) = g} : g \in Groups(list)}
           /\ Cardinality(IssuesOf(list)) = Cardinality(Groups(list))
<1> DEFINE issue(g) == {r \in Range(list) : GroupKey(r) = g}
           issues == [g \in Groups(list) |-> issue(g)]
<1>1. IssuesOf(list) = {issue(GroupKey(a)) : a \in Range(list)}
  <2>1. \A a \in Range(list) : {b \in Range(list) : SameIssue(a, b)} = issue(GroupKey(a))
    BY IssueByKey
  <2> QED
    BY <2>1 DEF IssuesOf
<1>2. IssuesOf(list) = {issue(g) : g \in Groups(list)}
  <2>1. \A a \in Range(list) : GroupKey(a) \in Groups(list)
    BY DEF Groups
  <2>2. \A g \in Groups(list) : \E a \in Range(list) : g = GroupKey(a)
    BY DEF Groups
  <2>3. \A s \in IssuesOf(list) : s \in {issue(g) : g \in Groups(list)}
    BY <1>1, <2>1
  <2>4. \A g \in Groups(list) : issue(g) \in IssuesOf(list)
    BY <1>1, <2>2
  <2> QED
    BY <2>3, <2>4
<1>3. issues \in [Groups(list) -> IssuesOf(list)] /\ \A s \in IssuesOf(list) : \E g \in Groups(list) : issues[g] = s
  BY <1>2
<1>4. ASSUME NEW g \in Groups(list), NEW h \in Groups(list), issues[g] = issues[h]
      PROVE  g = h
  <2>1. PICK r \in Range(list) : GroupKey(r) = g
    BY DEF Groups
  <2>2. r \in issue(g) /\ issue(g) = issue(h)
    BY <1>4, <2>1
  <2> QED
    BY <2>1, <2>2
<1>5. Cardinality(IssuesOf(list)) = Cardinality(Groups(list))
  BY <1>3, <1>4, GroupsFinite, SameSize
<1> QED
  BY <1>2, <1>5

LEMMA ReversedRange ==
    ASSUME NEW list, Listed(list)
    PROVE  Listed(Reverse(list)) /\ Range(Reverse(list)) = Range(list)
<1>1. Len(list) \in Nat /\ DOMAIN list = 1..Len(list) /\ \A i \in 1..Len(list) : list[i] \in Range(list)
  BY DEF Listed, Range
<1>2. Reverse(list) = [i \in 1..Len(list) |-> list[(Len(list) - i) + 1]]
  BY DEF Reverse
<1>3. \A i \in 1..Len(list) : (Len(list) - i) + 1 \in 1..Len(list)
  BY <1>1
<1>4. Range(Reverse(list)) \subseteq Range(list)
  BY <1>1, <1>2, <1>3 DEF Range
<1>5. ASSUME NEW r \in Range(list) PROVE r \in Range(Reverse(list))
  <2>1. PICK i \in 1..Len(list) : r = list[i]
    BY <1>1 DEF Range
  <2>2. (Len(list) - ((Len(list) - i) + 1)) + 1 = i
    BY <1>1
  <2>3. Reverse(list)[(Len(list) - i) + 1] = r
    BY <1>2, <1>3, <2>1, <2>2
  <2> QED
    BY <1>2, <1>3, <2>3 DEF Range
<1>6. Range(Reverse(list)) = Range(list)
  BY <1>4, <1>5
<1>7. Reverse(list) \in Seq(Range(list))
  BY <1>1, <1>2, <1>3
<1> QED
  BY <1>6, <1>7 DEF Listed

\* What a finding is found to be depends on the reports, not on their order.
LEMMA ShapeOrderFree ==
    ASSUME NEW list, Listed(list), NEW other, Listed(other), Range(other) = Range(list)
    PROVE  LET shape(f) == << f.key, f.tools, f.severity, f.url >>
           IN  {shape(f) : f \in Correlate(other)} = {shape(f) : f \in Correlate(list)}
<1> DEFINE shape(f) == << f.key, f.tools, f.severity, f.url >>
           issue(g) == {r \in Range(list) : GroupKey(r) = g}
           outline(g) == << g[1], {r.tool : r \in issue(g)}, Severest(issue(g)),
                            LeastUrl({Canonical(r.url) : r \in issue(g)}) >>
<1>1. Groups(other) = Groups(list)
  BY DEF Groups
<1>2. \A g \in Groups(list) : shape(MergeGroup(g, MembersOf(g, list))) = outline(g)
  BY MergedCorrelated
<1>3. \A g \in Groups(list) : shape(MergeGroup(g, MembersOf(g, other))) = outline(g)
  BY <1>1, MergedCorrelated, ZenonT(30)
<1> HIDE DEF shape, outline
<1>4. {shape(f) : f \in Correlate(list)} = {outline(g) : g \in Groups(list)}
  BY <1>2 DEF Correlate, Groups
<1>5. {shape(f) : f \in Correlate(other)} = {outline(g) : g \in Groups(other)}
  BY <1>1, <1>3 DEF Correlate, Groups
<1> QED
  BY <1>1, <1>4, <1>5 DEF shape

LEMMA Grouped == Listed(raws) => GroupingFaithful
<1> SUFFICES ASSUME Listed(raws) PROVE GroupingFaithful
  OBVIOUS
<1> DEFINE found == Correlate(raws)
           shape(f) == << f.key, f.tools, f.severity, f.url >>
           issue(g) == {r \in Range(raws) : GroupKey(r) = g}
<1>1. Cardinality(found) = Cardinality(IssuesOf(raws))
  BY CorrelateSound, IssuesCounted
<1>2. ASSUME NEW s \in IssuesOf(raws)
      PROVE  \E f \in found :
                /\ f.tools = {r.tool : r \in s}
                /\ \A r \in s : SeverityRank[r.severity] <= SeverityRank[f.severity]
                /\ \E r \in s : r.severity = f.severity /\ CorrelationKey(r) = f.key
                /\ \E r \in s : Canonical(r.url) = f.url
  <2>1. PICK g \in Groups(raws) : s = issue(g)
    BY IssuesCounted
  <2>2. MergeGroup(g, MembersOf(g, raws)) \in found
    BY DEF Correlate, Groups
  <2> QED
    BY <2>1, <2>2, MergedCorrelated
<1>3. Cardinality({Fingerprint(f) : f \in found}) = Cardinality(found)
  BY CorrelateSound
<1>4. {shape(f) : f \in Correlate(Reverse(raws))} = {shape(f) : f \in found}
  BY ReversedRange, ShapeOrderFree
<1> QED
  BY <1>1, <1>2, <1>3, <1>4 DEF GroupingFaithful

-----------------------------------------------------------------------------
(* Scores: quotients keep their order.                                     *)

LEMMA TimesOrder ==
    ASSUME NEW d \in Nat, NEW a \in Nat, NEW b \in Nat, a <= b
    PROVE  d * a <= d * b /\ a * d <= b * d /\ d * a \in Nat /\ a * d \in Nat
<1>1. \E c \in Nat : b = a + c
  <2>1. b - a \in Nat /\ b = a + (b - a)
    OBVIOUS
  <2> QED
    BY <2>1
<1>2. PICK c \in Nat : b = a + c
  BY <1>1
<1>3. d * b = d * a + d * c /\ d * c \in Nat /\ d * a \in Nat /\ a * d = d * a /\ b * d = d * b
  BY <1>2
<1> QED
  BY <1>3

LEMMA QuotientOf ==
    ASSUME NEW a \in Nat, NEW d \in Nat, d > 0
    PROVE  /\ a \div d \in Nat
           /\ d * (a \div d) <= a /\ a < d * (a \div d) + d
OBVIOUS

\* A number is at most a quotient if its multiple is at most the dividend.
LEMMA BelowQuotient ==
    ASSUME NEW a \in Nat, NEW d \in Nat, d > 0, NEW p \in Nat, d * p <= a
    PROVE  p <= a \div d
<1> DEFINE q == a \div d
<1>1. q \in Nat /\ a < d * q + d
  BY QuotientOf
<1> HIDE DEF q
<1>2. SUFFICES ASSUME q < p PROVE FALSE
  BY <1>1 DEF q
<1>3. q + 1 <= p
  BY <1>1, <1>2
<1>4. d * (q + 1) <= d * p
  BY <1>1, <1>3, TimesOrder
<1>5. d * (q + 1) = d * q + d /\ d * q \in Nat /\ d * p \in Nat
  BY <1>1
<1> QED
  BY <1>1, <1>4, <1>5

LEMMA QuotientOrder ==
    ASSUME NEW a \in Nat, NEW b \in Nat, a <= b, NEW d \in Nat, d > 0
    PROVE  a \div d <= b \div d
<1>1. a \div d \in Nat /\ d * (a \div d) <= a
  BY QuotientOf
<1>2. d * (a \div d) <= b /\ d * (a \div d) \in Nat
  BY <1>1
<1> QED
  BY <1>1, <1>2, BelowQuotient

\* An average does not fall when a summand is added that no summand exceeds.
LEMMA AverageOrder ==
    ASSUME NEW k \in Nat, NEW n \in Nat, n > 0, NEW sum \in Nat, NEW top \in Nat,
           sum <= top * n
    PROVE  (k * sum) \div n <= (k * (sum + top)) \div (n + 1)
<1> DEFINE p == (k * sum) \div n
<1>1. k * sum \in Nat /\ k * top \in Nat /\ k * (sum + top) = k * sum + k * top
  OBVIOUS
<1>2. p \in Nat /\ n * p <= k * sum
  BY <1>1, QuotientOf
<1> HIDE DEF p
<1>3. k * sum <= n * (k * top)
  <2>1. k * sum <= k * (top * n)
    BY TimesOrder, top * n \in Nat
  <2>2. k * (top * n) = n * (k * top)
    OBVIOUS
  <2> QED
    BY <2>1, <2>2
<1>4. p <= k * top
  <2>1. SUFFICES ASSUME k * top < p PROVE FALSE
    BY <1>1, <1>2
  <2>2. k * top + 1 <= p
    BY <1>1, <1>2, <2>1
  <2>3. n * (k * top + 1) <= n * p
    BY <1>1, <1>2, <2>2, TimesOrder
  <2>4. n * (k * top + 1) = n * (k * top) + n /\ n * (k * top) \in Nat /\ n * p \in Nat
    BY <1>1, <1>2
  <2> QED
    BY <1>1, <1>2, <1>3, <2>3, <2>4
<1>5. (n + 1) * p <= k * sum + k * top
  <2>1. (n + 1) * p = n * p + p /\ n * p \in Nat
    BY <1>2
  <2> QED
    BY <1>1, <1>2, <1>4, <2>1
<1>6. k * sum + k * top \in Nat
  BY <1>1
<1> QED
  BY <1>1, <1>2, <1>5, <1>6, BelowQuotient DEF p

Levels == {95, 92, 90, 88, 82, 75, 72, 70}

LEMMA ReliabilityType == \A t : Reliability(t) \in Levels
BY DEF Reliability, Levels

LEMMA Peeled ==
    ASSUME NEW tools, IsFiniteSet(tools), NEW L, NEW l, l \notin L
    PROVE  Cardinality({t \in tools : Reliability(t) \notin L}) =
             Cardinality({t \in tools : Reliability(t) = l})
             + Cardinality({t \in tools : Reliability(t) \notin L \cup {l}})
<1> DEFINE A == {t \in tools : Reliability(t) \notin L}
           B == {t \in tools : Reliability(t) = l}
           C == {t \in tools : Reliability(t) \notin L \cup {l}}
<1>1. A = B \cup C /\ B \cap C = {}
  OBVIOUS
<1>2. IsFiniteSet(B) /\ IsFiniteSet(C)
  BY FS_Subset
<1>3. Cardinality(B) \in Nat /\ Cardinality(C) \in Nat /\ Cardinality(B \cap C) = 0
  BY <1>1, <1>2, FS_CardinalityType, FS_EmptySet
<1> HIDE DEF A, B, C
<1>4. Cardinality(A) = Cardinality(B) + Cardinality(C) - Cardinality(B \cap C)
  BY <1>1, <1>2, FS_Union
<1> QED
  BY <1>3, <1>4 DEF A, B, C

\* No tool is more reliable than 95 of 100.
LEMMA ReliabilityBound ==
    ASSUME NEW tools, IsFiniteSet(tools)
    PROVE  TotalReliability(tools) \in Nat /\ TotalReliability(tools) <= 95 * Cardinality(tools)
<1> DEFINE tier(l) == Cardinality({t \in tools : Reliability(t) = l})
           rest(L) == Cardinality({t \in tools : Reliability(t) \notin L})
<1>1. \A l : tier(l) \in Nat
  <2> TAKE l
  <2>1. IsFiniteSet({t \in tools : Reliability(t) = l})
    BY FS_Subset
  <2> QED
    BY <2>1, FS_CardinalityType
<1>2. \A L, l : l \notin L => rest(L) = tier(l) + rest(L \cup {l})
  BY Peeled
<1>3. rest({}) = Cardinality(tools)
  <2>1. {t \in tools : Reliability(t) \notin {}} = tools
    OBVIOUS
  <2> QED
    BY <2>1
<1>4. rest(Levels) = 0
  <2>1. {t \in tools : Reliability(t) \notin Levels} = {}
    BY ReliabilityType
  <2> QED
    BY <2>1, FS_EmptySet
<1>5. TotalReliability(tools) = 95 * tier(95) + 92 * tier(92) + 90 * tier(90) + 88 * tier(88)
                                + 82 * tier(82) + 75 * tier(75) + 72 * tier(72) + 70 * tier(70)
  BY DEF TotalReliability
<1> HIDE DEF tier, rest
<1>6. rest({}) = tier(95) + (tier(92) + (tier(90) + (tier(88) + (tier(82) + (tier(75) + (tier(72) + (tier(70) + 0)))))))
  <2>1. rest({}) = tier(95) + rest({95})
    BY <1>2, {} \cup {95} = {95}
  <2>2. rest({95}) = tier(92) + rest({95, 92})
    BY <1>2, {95} \cup {92} = {95, 92}
  <2>3. rest({95, 92}) = tier(90) + rest({95, 92, 90})
    BY <1>2, {95, 92} \cup {90} = {95, 92, 90}
  <2>4. rest({95, 92, 90}) = tier(88) + rest({95, 92, 90, 88})
    BY <1>2, {95, 92, 90} \cup {88} = {95, 92, 90, 88}
  <2>5. rest({95, 92, 90, 88}) = tier(82) + rest({95, 92, 90, 88, 82})
    BY <1>2, {95, 92, 90, 88} \cup {82} = {95, 92, 90, 88, 82}
  <2>6. rest({95, 92, 90, 88, 82}) = tier(75) + rest({95, 92, 90, 88, 82, 75})
    BY <1>2, {95, 92, 90, 88, 82} \cup {75} = {95, 92, 90, 88, 82, 75}
  <2>7. rest({95, 92, 90, 88, 82, 75}) = tier(72) + rest({95, 92, 90, 88, 82, 75, 72})
    BY <1>2, {95, 92, 90, 88, 82, 75} \cup {72} = {95, 92, 90, 88, 82, 75, 72}
  <2>8. rest({95, 92, 90, 88, 82, 75, 72}) = tier(70) + rest(Levels)
    BY <1>2, {95, 92, 90, 88, 82, 75, 72} \cup {70} = Levels DEF Levels
  <2> QED
    BY <1>4, <2>1, <2>2, <2>3, <2>4, <2>5, <2>6, <2>7, <2>8
<1> QED
  BY <1>1, <1>3, <1>5, <1>6

\* One more tool of the highest reliability.
LEMMA ReliabilityAdded ==
    ASSUME NEW tools, IsFiniteSet(tools), NEW t, t \notin tools, Reliability(t) = 95
    PROVE  /\ TotalReliability(tools \cup {t}) = TotalReliability(tools) + 95
           /\ IsFiniteSet(tools \cup {t}) /\ Cardinality(tools \cup {t}) = Cardinality(tools) + 1
<1> DEFINE of(T, l) == {s \in T : Reliability(s) = l}
           more == tools \cup {t}
<1>1. \A l \in Levels \ {95} : of(more, l) = of(tools, l)
  OBVIOUS
<1>2. of(more, 95) = of(tools, 95) \cup {t} /\ t \notin of(tools, 95)
  OBVIOUS
<1>3. \A l : Cardinality(of(tools, l)) \in Nat /\ IsFiniteSet(of(tools, l))
  <2> TAKE l
  <2>1. IsFiniteSet(of(tools, l))
    BY FS_Subset
  <2> QED
    BY <2>1, FS_CardinalityType
<1>4. IsFiniteSet(more) /\ Cardinality(more) = Cardinality(tools) + 1
  BY FS_AddElement
<1>6. \A T : TotalReliability(T) =
        95 * Cardinality(of(T, 95)) + 92 * Cardinality(of(T, 92)) + 90 * Cardinality(of(T, 90))
        + 88 * Cardinality(of(T, 88)) + 82 * Cardinality(of(T, 82)) + 75 * Cardinality(of(T, 75))
        + 72 * Cardinality(of(T, 72)) + 70 * Cardinality(of(T, 70))
  BY DEF TotalReliability
<1> HIDE DEF of, more
<1>5. Cardinality(of(more, 95)) = Cardinality(of(tools, 95)) + 1
  BY <1>2, <1>3, FS_AddElement
<1>7. TotalReliability(more) = TotalReliability(tools) + 95
  <2>1. \A l \in Levels \ {95} : Cardinality(of(more, l)) = Cardinality(of(tools, l))
    BY <1>1
  <2> DEFINE c(T, l) == Cardinality(of(T, l))
  <2>2. /\ c(more, 92) = c(tools, 92) /\ c(more, 90) = c(tools, 90) /\ c(more, 88) = c(tools, 88)
        /\ c(more, 82) = c(tools, 82) /\ c(more, 75) = c(tools, 75) /\ c(more, 72) = c(tools, 72)
        /\ c(more, 70) = c(tools, 70)
    BY <2>1 DEF Levels
  <2>3. \A l : c(tools, l) \in Nat
    BY <1>3
  <2>4. c(more, 95) = c(tools, 95) + 1
    BY <1>5
  <2>5. \A T : TotalReliability(T) =
          95 * c(T, 95) + 92 * c(T, 92) + 90 * c(T, 90) + 88 * c(T, 88)
          + 82 * c(T, 82) + 75 * c(T, 75) + 72 * c(T, 72) + 70 * c(T, 70)
    BY <1>6
  <2> HIDE DEF c
  <2> QED
    BY <2>2, <2>3, <2>4, <2>5
<1> QED
  BY <1>4, <1>7 DEF more

\* What a score is made of: the plain score of the tools, then CVSS, penalty, bounds.
Final(key, plain, penalty) ==
    (Clamped(Mixed(key, plain) - penalty * Point) + Point \div 20) \div (Point \div 10)

LEMMA CvssType == \A key : CvssDefault(key) \in Nat
BY DEF CvssDefault

\* The scores there are, in tenths
Scores == 10..1000

LEMMA FinalOrder ==
    ASSUME NEW key, NEW a \in Nat, NEW b \in Nat, a <= b,
           NEW p \in Nat, NEW q \in Nat, q <= p
    PROVE  Final(key, a, p) <= Final(key, b, q) /\ Final(key, a, p) \in Scores
<1> DEFINE m == Mixed(key, a)
           n == Mixed(key, b)
           x == Clamped(m - p * Point)
           y == Clamped(n - q * Point)
<1>1. m \in Nat /\ n \in Nat /\ m <= n
  <2>1. a \div 10 <= b \div 10 /\ a \div 10 \in Nat /\ b \div 10 \in Nat
    BY QuotientOrder, QuotientOf
  <2>2. CASE CvssDefault(key) # 0
    <3>1. CvssDefault(key) \in Nat /\ CvssDefault(key) * 75000 \in Nat
      BY <2>2, CvssType
    <3>2. /\ m = (a \div 10) * 7 + CvssDefault(key) * 75000
          /\ n = (b \div 10) * 7 + CvssDefault(key) * 75000
      BY <2>2 DEF Mixed
    <3> HIDE DEF m, n
    <3> QED
      BY <2>1, <3>1, <3>2
  <2>3. CASE CvssDefault(key) = 0
    BY <2>3 DEF Mixed
  <2> QED
    BY <2>2, <2>3
<1> HIDE DEF m, n
<1>2. x \in Int /\ y \in Int /\ x <= y /\ x >= 1000000 /\ x <= 100000000 /\ y <= 100000000
  BY <1>1 DEF Clamped, Point
<1>3. Point \div 20 = 50000 /\ Point \div 10 = 100000
  BY DEF Point
<1> HIDE DEF x, y
<1>4. (x + 50000) \div 100000 <= (y + 50000) \div 100000
  BY <1>2, QuotientOrder
<1>5. (x + 50000) \div 100000 \in Scores
  BY <1>2 DEF Scores
<1> QED
  BY <1>3, <1>4, <1>5, SMTT(30) DEF Final, x, y, m, n

Base(severity, verified, scheme) ==
    SeverityBase[severity] * ConfidenceFactor[verified] * ExposureFactor[scheme]
Plain(base, tools) ==
    (base * TotalReliability(tools)) \div Cardinality(tools) + AgreementBonus(tools)

\* What is known of a finding that was verified and scored.
Analyzed(f) ==
    /\ Correlated(f)
    /\ {"verified", "status", "risk"} \subseteq DOMAIN f
    /\ f.verified \in DOMAIN ConfidenceFactor
    /\ f.risk = RiskScore(f)

LEMMA BaseOrder ==
    ASSUME NEW s \in DOMAIN SeverityRank, NEW t \in DOMAIN SeverityRank,
           SeverityRank[s] <= SeverityRank[t],
           NEW v \in DOMAIN ConfidenceRank, NEW w \in DOMAIN ConfidenceRank,
           ConfidenceRank[v] <= ConfidenceRank[w],
           NEW x \in {"http", "https"}
    PROVE  Base(s, v, x) \in Nat /\ Base(s, v, x) <= Base(t, w, x)
<1>1. SeverityBase[s] \in Nat /\ SeverityBase[t] \in Nat /\ SeverityBase[s] <= SeverityBase[t]
  BY DEF SeverityRank, SeverityBase
<1>2. ConfidenceFactor[v] \in Nat /\ ConfidenceFactor[w] \in Nat
      /\ ConfidenceFactor[v] <= ConfidenceFactor[w]
  BY DEF ConfidenceRank, ConfidenceFactor
<1>3. ExposureFactor[x] \in Nat
  BY DEF ExposureFactor
<1> DEFINE a == SeverityBase[s]
           b == SeverityBase[t]
           c == ConfidenceFactor[v]
           d == ConfidenceFactor[w]
           e == ExposureFactor[x]
<1>4. Base(s, v, x) = a * c * e /\ Base(t, w, x) = b * d * e
  BY DEF Base
<1>5. a \in Nat /\ b \in Nat /\ c \in Nat /\ d \in Nat /\ e \in Nat /\ a <= b /\ c <= d
  BY <1>1, <1>2, <1>3
<1> HIDE DEF a, b, c, d, e
<1>6. a * c \in Nat /\ b * c \in Nat /\ b * d \in Nat /\ a * c * e \in Nat /\ b * d * e \in Nat
  BY <1>5
<1>7. a * c <= b * c /\ b * c <= b * d
  BY <1>5, TimesOrder
<1>8. a * c <= b * d
  BY <1>6, <1>7
<1>9. (a * c) * e <= (b * d) * e
  BY <1>5, <1>6, <1>8, TimesOrder
<1> QED
  BY <1>4, <1>6, <1>9

LEMMA BonusOrder ==
    ASSUME NEW tools, NEW more, Cardinality(tools) \in Nat \ {0}, Cardinality(more) \in Nat,
           Cardinality(tools) <= Cardinality(more)
    PROVE  AgreementBonus(tools) \in Nat /\ AgreementBonus(tools) <= AgreementBonus(more)
BY DEF AgreementBonus, Point

LEMMA PlainOrder ==
    ASSUME NEW base \in Nat, NEW other \in Nat, base <= other,
           NEW tools, IsFiniteSet(tools), tools # {}
    PROVE  /\ Plain(base, tools) \in Nat /\ Plain(base, tools) <= Plain(other, tools)
           /\ \A t \in {"passive_http", "tls_check"} :
                Plain(base, tools \cup {t}) \in Nat /\ Plain(base, tools) <= Plain(base, tools \cup {t})
<1> DEFINE n == Cardinality(tools)
           r == TotalReliability(tools)
<1>1. n \in Nat /\ n # 0 /\ n > 0
  <2>1. n \in Nat /\ n # 0
    BY FS_CardinalityType, FS_EmptySet
  <2> QED
    BY <2>1
<1>2. r \in Nat /\ r <= 95 * n
  BY ReliabilityBound
<1>3. AgreementBonus(tools) \in Nat
  BY <1>1, BonusOrder
<1> HIDE DEF n, r
<1>4. base * r \in Nat /\ other * r \in Nat /\ base * r <= other * r
  BY <1>2, TimesOrder
<1>5. (base * r) \div n \in Nat /\ (other * r) \div n \in Nat /\ (base * r) \div n <= (other * r) \div n
  BY <1>1, <1>4, QuotientOf, QuotientOrder
<1>6. Plain(base, tools) = (base * r) \div n + AgreementBonus(tools)
      /\ Plain(other, tools) = (other * r) \div n + AgreementBonus(tools)
  BY DEF Plain, n, r
<1>7. Plain(base, tools) \in Nat /\ Plain(base, tools) <= Plain(other, tools)
  BY <1>3, <1>5, <1>6
<1>8. ASSUME NEW t \in {"passive_http", "tls_check"}
      PROVE  Plain(base, tools \cup {t}) \in Nat /\ Plain(base, tools) <= Plain(base, tools \cup {t})
  <2>1. CASE t \in tools
    <3>1. tools \cup {t} = tools
      BY <2>1
    <3> QED
      BY <1>7, <3>1, SMTT(30)
  <2>2. CASE t \notin tools
    <3> DEFINE more == tools \cup {t}
    <3>1. Reliability(t) = 95
      BY DEF Reliability
    <3>2. TotalReliability(more) = r + 95 /\ Cardinality(more) = n + 1
      BY <2>2, <3>1, ReliabilityAdded DEF n, r
    <3> HIDE DEF more
    <3>3. (base * r) \div n <= (base * (r + 95)) \div (n + 1)
      BY <1>1, <1>2, AverageOrder
    <3>4. base * (r + 95) \in Nat
      BY <1>2
    <3>5. (base * (r + 95)) \div (n + 1) \in Nat
      BY <1>1, <3>4, QuotientOf
    <3>6. AgreementBonus(tools) <= AgreementBonus(more) /\ AgreementBonus(more) \in Nat
      <4>1. Cardinality(more) \in Nat \ {0} /\ n <= Cardinality(more)
        BY <1>1, <3>2
      <4> QED
        BY <1>1, <4>1, BonusOrder DEF n
    <3>7. Plain(base, more) = (base * (r + 95)) \div (n + 1) + AgreementBonus(more)
      BY <3>2 DEF Plain
    <3> QED
      BY <1>3, <1>5, <1>6, <3>3, <3>5, <3>6, <3>7 DEF more
  <2> QED
    BY <2>1, <2>2
<1> QED
  BY <1>7, <1>8

LEMMA ScoreParts ==
    \A f : RiskScore(f) = Final(f.key, Plain(Base(f.severity, f.verified, f.url[1]), f.tools),
                                Penalty(f.status))
BY DEF RiskScore, Final, Plain, Base, Weighted

LEMMA PenaltyType == \A s : Penalty(s) \in Nat /\ Penalty("verified") = 0
BY DEF Penalty

LEMMA PlainHigher ==
    \A tools : IsFiniteSet(tools) /\ tools # {} =>
        \A a, b \in Nat : a <= b =>
            Plain(a, tools) \in Nat /\ Plain(b, tools) \in Nat /\ Plain(a, tools) <= Plain(b, tools)
<1> SUFFICES ASSUME NEW tools, IsFiniteSet(tools), tools # {}, NEW a \in Nat, NEW b \in Nat, a <= b
             PROVE  Plain(a, tools) \in Nat /\ Plain(b, tools) \in Nat /\ Plain(a, tools) <= Plain(b, tools)
  OBVIOUS
<1>1. Plain(a, tools) \in Nat /\ Plain(a, tools) <= Plain(b, tools)
  BY PlainOrder
<1>2. Plain(b, tools) \in Nat
  BY PlainOrder, b <= b
<1> QED
  BY <1>1, <1>2

LEMMA PlainMore ==
    \A tools : IsFiniteSet(tools) /\ tools # {} =>
        \A a \in Nat, t \in {"passive_http", "tls_check"} :
            Plain(a, tools \cup {t}) \in Nat /\ Plain(a, tools) <= Plain(a, tools \cup {t})
<1> SUFFICES ASSUME NEW tools, IsFiniteSet(tools), tools # {}, NEW a \in Nat
             PROVE  \A t \in {"passive_http", "tls_check"} :
                        Plain(a, tools \cup {t}) \in Nat /\ Plain(a, tools) <= Plain(a, tools \cup {t})
  OBVIOUS
<1> QED
  BY PlainOrder, a <= a

\* A better or worse input of a score, one at a time.
LEMMA FindingScored ==
    ASSUME NEW f, Analyzed(f)
    PROVE  /\ f.risk \in 10..1000
           /\ \A s \in DOMAIN SeverityRank : SeverityRank[s] >= SeverityRank[f.severity] =>
                RiskScore([f EXCEPT !.severity = s]) >= f.risk
           /\ \A c \in DOMAIN ConfidenceRank : ConfidenceRank[c] >= ConfidenceRank[f.verified] =>
                RiskScore([f EXCEPT !.verified = c]) >= f.risk
           /\ RiskScore([f EXCEPT !.status = "verified"]) >= f.risk
           /\ \A t \in {"passive_http", "tls_check"} :
                RiskScore([f EXCEPT !.tools = @ \cup {t}]) >= f.risk
<1> DEFINE base(s, c) == Base(s, c, f.url[1])
           plain == Plain(base(f.severity, f.verified), f.tools)
<1>1. /\ f.severity \in DOMAIN SeverityRank /\ f.verified \in DOMAIN ConfidenceRank
      /\ f.url[1] \in {"http", "https"} /\ IsFiniteSet(f.tools) /\ f.tools # {}
  BY DEF Analyzed, Correlated, Address, ConfidenceFactor, ConfidenceRank
<1>2. {"key", "severity", "url", "tools", "verified", "status"} \subseteq DOMAIN f
  BY DEF Analyzed, Correlated, FindingFields
<1>3. f.risk = Final(f.key, plain, Penalty(f.status))
  BY ScoreParts DEF Analyzed
<1>4. /\ \A s \in DOMAIN SeverityRank : SeverityRank[s] \in Nat
      /\ \A c \in DOMAIN ConfidenceRank : ConfidenceRank[c] \in Nat
  BY DEF SeverityRank, ConfidenceRank
<1>5. base(f.severity, f.verified) \in Nat
  BY <1>1, <1>4, BaseOrder
<1>6. plain \in Nat
  BY <1>1, <1>5, PlainHigher, base(f.severity, f.verified) <= base(f.severity, f.verified)
<1>7. f.risk \in Scores
  BY <1>3, <1>6, PenaltyType, FinalOrder, SMTT(30)
<1> HIDE DEF base
<1>8. \A x, q \in Nat : plain <= x /\ q <= Penalty(f.status) => Final(f.key, x, q) >= f.risk
  <2> SUFFICES ASSUME NEW x \in Nat, NEW q \in Nat, plain <= x, q <= Penalty(f.status)
               PROVE  Final(f.key, x, q) >= f.risk
    OBVIOUS
  <2>1. f.risk <= Final(f.key, x, q)
    BY <1>3, <1>6, PenaltyType, FinalOrder
  <2>2. Final(f.key, x, q) \in Scores
    BY FinalOrder
  <2> QED
    BY <1>7, <2>1, <2>2 DEF Scores
<1>9. ASSUME NEW s \in DOMAIN SeverityRank, SeverityRank[s] >= SeverityRank[f.severity]
      PROVE  RiskScore([f EXCEPT !.severity = s]) >= f.risk
  <2>1. base(s, f.verified) \in Nat /\ base(f.severity, f.verified) <= base(s, f.verified)
    BY <1>1, <1>4, <1>9, BaseOrder DEF base
  <2>2. /\ Plain(base(s, f.verified), f.tools) \in Nat
        /\ plain <= Plain(base(s, f.verified), f.tools)
    BY <1>1, <1>5, <2>1, PlainHigher
  <2>3. RiskScore([f EXCEPT !.severity = s])
          = Final(f.key, Plain(base(s, f.verified), f.tools), Penalty(f.status))
    BY <1>2, ScoreParts DEF base
  <2> QED
    BY <1>8, <2>2, <2>3, PenaltyType
<1>10. ASSUME NEW c \in DOMAIN ConfidenceRank, ConfidenceRank[c] >= ConfidenceRank[f.verified]
       PROVE  RiskScore([f EXCEPT !.verified = c]) >= f.risk
  <2>1. base(f.severity, c) \in Nat /\ base(f.severity, f.verified) <= base(f.severity, c)
    BY <1>1, <1>4, <1>10, BaseOrder DEF base
  <2>2. /\ Plain(base(f.severity, c), f.tools) \in Nat
        /\ plain <= Plain(base(f.severity, c), f.tools)
    BY <1>1, <1>5, <2>1, PlainHigher
  <2>3. RiskScore([f EXCEPT !.verified = c])
          = Final(f.key, Plain(base(f.severity, c), f.tools), Penalty(f.status))
    BY <1>2, ScoreParts DEF base
  <2> QED
    BY <1>8, <2>2, <2>3, PenaltyType
<1>11. RiskScore([f EXCEPT !.status = "verified"]) >= f.risk
  <2>1. RiskScore([f EXCEPT !.status = "verified"]) = Final(f.key, plain, Penalty("verified"))
    BY <1>2, ScoreParts DEF base
  <2> QED
    BY <1>6, <1>8, <2>1, PenaltyType
<1>12. ASSUME NEW t \in {"passive_http", "tls_check"}
       PROVE  RiskScore([f EXCEPT !.tools = @ \cup {t}]) >= f.risk
  <2> DEFINE more == Plain(base(f.severity, f.verified), f.tools \cup {t})
  <2>1. more \in Nat /\ plain <= more
    BY <1>1, <1>5, PlainMore
  <2>2. RiskScore([f EXCEPT !.tools = @ \cup {t}]) = Final(f.key, more, Penalty(f.status))
    BY <1>2, ScoreParts DEF base
  <2> QED
    BY <1>8, <2>1, <2>2, PenaltyType
<1> QED
  BY <1>7, <1>9, <1>10, <1>11, <1>12 DEF Scores

-----------------------------------------------------------------------------
(* What the scanners report.                                               *)

\* A table of keys gives a key it holds, or none.
LEMMA MentionedIn ==
    \A table, words : DOMAIN table \subseteq Nat =>
        Mentioned(table, words) = None \/ \E i \in DOMAIN table : Mentioned(table, words) = table[i][2]
<1> SUFFICES ASSUME NEW table, NEW words, DOMAIN table \subseteq Nat
             PROVE  \/ Mentioned(table, words) = None
                    \/ \E i \in DOMAIN table : Mentioned(table, words) = table[i][2]
  OBVIOUS
<1> DEFINE hits == {i \in DOMAIN table : table[i][1] \in words}
<1>1. CASE hits = {}
  BY <1>1 DEF Mentioned
<1>2. CASE hits # {}
  <2>1. Min(hits) \in hits
    BY <1>2, MinOfNats, hits \in SUBSET Nat
  <2>2. Mentioned(table, words) = table[Min(hits)][2]
    BY <1>2 DEF Mentioned
  <2> QED
    BY <2>1, <2>2
<1> QED
  BY <1>1, <1>2

LEMMA ZapKey ==
    \A r : r.tool = "zap" /\ r.rule[1] = "zap-" => CorrelationKey(r) \notin SecretKeys
<1> SUFFICES ASSUME NEW r, r.tool = "zap", r.rule[1] = "zap-" PROVE CorrelationKey(r) \notin SecretKeys
  OBVIOUS
<1> DEFINE mapped == Mentioned(ZapRules, {r.rule[2]})
           titled == Mentioned(ZapTitles, r.words)
<1>0. /\ \A h : Header(h) \notin SecretKeys
      /\ << "", "server-disclosure" >> \notin SecretKeys
      /\ << "", "x-powered-by-disclosure" >> \notin SecretKeys
      /\ << "", "permissive-cors" >> \notin SecretKeys
      /\ << "", "info-modern-web-app" >> \notin SecretKeys
      /\ << "", "cross-domain-javascript-inclusion" >> \notin SecretKeys
  BY DEF SecretKeys, Header
<1>1. \A i \in DOMAIN ZapRules : ZapRules[i][2] \notin SecretKeys
  <2>1. DOMAIN ZapRules = 1..9
    BY DEF ZapRules
  <2>2. /\ ZapRules[1][2] = Header("x-frame-options")
        /\ ZapRules[2][2] = Header("x-content-type-options")
        /\ ZapRules[3][2] = Header("strict-transport-security")
        /\ ZapRules[4][2] = Header("content-security-policy")
        /\ ZapRules[5][2] = Header("referrer-policy")
        /\ ZapRules[6][2] = << "", "server-disclosure" >>
        /\ ZapRules[7][2] = << "", "x-powered-by-disclosure" >>
        /\ ZapRules[8][2] = << "", "permissive-cors" >>
        /\ ZapRules[9][2] = << "", "info-modern-web-app" >>
    BY DEF ZapRules
  <2>3. \A i \in 1..9 : i = 1 \/ i = 2 \/ i = 3 \/ i = 4 \/ i = 5 \/ i = 6 \/ i = 7 \/ i = 8 \/ i = 9
    OBVIOUS
  <2>4. ASSUME NEW i \in 1..9 PROVE ZapRules[i][2] \notin SecretKeys
    BY <1>0, <2>2, <2>3
  <2> QED
    BY <2>1, <2>4
<1>2. \A i \in DOMAIN ZapTitles : ZapTitles[i][2] \notin SecretKeys
  <2>1. DOMAIN ZapTitles = 1..10
    BY DEF ZapTitles
  <2>2. /\ ZapTitles[1][2] = << "", "server-disclosure" >>
        /\ ZapTitles[2][2] = << "", "x-powered-by-disclosure" >>
        /\ ZapTitles[3][2] = Header("content-security-policy")
        /\ ZapTitles[4][2] = Header("strict-transport-security")
        /\ ZapTitles[5][2] = Header("x-content-type-options")
        /\ ZapTitles[6][2] = Header("x-frame-options")
        /\ ZapTitles[7][2] = Header("referrer-policy")
        /\ ZapTitles[8][2] = << "", "permissive-cors" >>
        /\ ZapTitles[9][2] = << "", "cross-domain-javascript-inclusion" >>
        /\ ZapTitles[10][2] = << "", "info-modern-web-app" >>
    BY DEF ZapTitles
  <2>3. \A i \in 1..10 : i = 1 \/ i = 2 \/ i = 3 \/ i = 4 \/ i = 5 \/ i = 6 \/ i = 7 \/ i = 8 \/ i = 9 \/ i = 10
    OBVIOUS
  <2>4. ASSUME NEW i \in 1..10 PROVE ZapTitles[i][2] \notin SecretKeys
    BY <1>0, <2>2, <2>3
  <2> QED
    BY <2>1, <2>4
<1>3. DOMAIN ZapRules \subseteq Nat /\ DOMAIN ZapTitles \subseteq Nat
  BY DEF ZapRules, ZapTitles
<1>4. mapped = None \/ mapped \notin SecretKeys
  BY <1>1, <1>3, MentionedIn
<1>5. titled = None \/ titled \notin SecretKeys
  BY <1>2, <1>3, MentionedIn
<1> HIDE DEF mapped, titled
<1>6. \A t : << "generic.", t >> \notin SecretKeys
  BY DEF SecretKeys
<1>7. CorrelationKey(r) \in {mapped, titled, << "generic.", r.title >>}
      /\ CorrelationKey(r) # None
  <2>1. CorrelationKey(r) = IF mapped # None THEN mapped
                            ELSE IF titled # None THEN titled ELSE << "generic.", r.title >>
    BY DEF CorrelationKey, mapped, titled
  <2> QED
    BY <2>1 DEF None
<1> QED
  BY <1>4, <1>5, <1>6, <1>7

LEMMA PassiveKey ==
    \A r : r.tool \in {"passive_http", "tls_check"} /\ r.rule[1] # "zap-" => CorrelationKey(r) = r.rule
BY DEF CorrelationKey

\* A raw finding of passive_http or of its check of the certificate.
Harmless(r) ==
    /\ r.tool \in {"passive_http", "tls_check"} /\ r.rule[1] # "zap-" /\ r.rule \notin SecretKeys
    /\ r.severity \in DOMAIN SeverityRank /\ Address(r.url)
    /\ "masked_sample" \notin DOMAIN r.evidence

LEMMA HarmlessReportable == \A r : Harmless(r) => Reportable(r)
BY PassiveKey DEF Harmless, Reportable

LEMMA HarmlessFinding ==
    \A tool \in {"passive_http", "tls_check"}, severity \in DOMAIN SeverityRank : \A a, b, url, evidence :
        << a, b >> \notin SecretKeys /\ a # "zap-" /\ Address(url)
        /\ "masked_sample" \notin DOMAIN evidence =>
            Harmless(Finding(tool, << a, b >>, severity, url, evidence))
BY DEF Harmless, Finding

\* Finitely many, one for each element of a finite set.
LEMMA FiniteMap ==
    \A S : IsFiniteSet(S) => \A f : DOMAIN f = S => IsFiniteSet({f[s] : s \in S})
<1> SUFFICES ASSUME NEW S, IsFiniteSet(S), NEW f, DOMAIN f = S PROVE IsFiniteSet({f[s] : s \in S})
  OBVIOUS
<1> DEFINE T == {f[s] : s \in S}
           g == [s \in S |-> f[s]]
<1>1. g \in [S -> T] /\ \A t \in T : \E s \in S : g[s] = t
  OBVIOUS
<1> HIDE DEF T, g
<1>2. IsFiniteSet(T)
  BY <1>1, FiniteImage
<1> QED
  BY <1>2 DEF T

LEMMA HeadersReported ==
    \A url, page : Address(url) =>
        /\ IsFiniteSet(MissingHeaders(url, page))
        /\ \A r \in MissingHeaders(url, page) : Harmless(r)
<1> SUFFICES ASSUME NEW url, NEW page, Address(url)
             PROVE  /\ IsFiniteSet(MissingHeaders(url, page))
                    /\ \A r \in MissingHeaders(url, page) : Harmless(r)
  OBVIOUS
<1> DEFINE H == DOMAIN HeaderSeverity \ page.headers
           finding(h) == Finding("passive_http", Header(h), HeaderSeverity[h], url, [missing_header |-> h])
           f == [h \in H |-> finding(h)]
<1>1. MissingHeaders(url, page) = {f[h] : h \in H}
  BY DEF MissingHeaders
<1>2. IsFiniteSet(H)
  <2>1. IsFiniteSet(CheckedHeaders)
    <3>1. /\ IsFiniteSet({"strict-transport-security"})
          /\ IsFiniteSet({"x-content-type-options"}) /\ IsFiniteSet({"x-frame-options"})
          /\ IsFiniteSet({"content-security-policy"}) /\ IsFiniteSet({"referrer-policy"})
      BY FS_Singleton
    <3>2. IsFiniteSet({"strict-transport-security"} \cup {"x-content-type-options"})
      BY <3>1, FS_Union
    <3>3. IsFiniteSet({"strict-transport-security"} \cup {"x-content-type-options"} \cup {"x-frame-options"})
      BY <3>1, <3>2, FS_Union
    <3>4. IsFiniteSet({"content-security-policy"} \cup {"referrer-policy"})
      BY <3>1, FS_Union
    <3>5. IsFiniteSet(({"strict-transport-security"} \cup {"x-content-type-options"} \cup {"x-frame-options"})
                      \cup ({"content-security-policy"} \cup {"referrer-policy"}))
      BY <3>3, <3>4, FS_Union
    <3>6. CheckedHeaders = ({"strict-transport-security"} \cup {"x-content-type-options"} \cup {"x-frame-options"})
                           \cup ({"content-security-policy"} \cup {"referrer-policy"})
      BY DEF CheckedHeaders
    <3> QED
      BY <3>5, <3>6
  <2>2. H \subseteq CheckedHeaders
    BY DEF HeaderSeverity, CheckedHeaders
  <2> QED
    BY <2>1, <2>2, FS_Subset
<1>3. \A h \in H : Harmless(finding(h))
  <2>1. \A h \in H : HeaderSeverity[h] \in DOMAIN SeverityRank
    BY DEF HeaderSeverity, SeverityRank
  <2>2. \A h \in H : Header(h) = << "missing-header-", h >> /\ Header(h) \notin SecretKeys
    BY DEF Header, SecretKeys
  <2>3. \A h : "masked_sample" \notin DOMAIN [missing_header |-> h]
    OBVIOUS
  <2> HIDE DEF H
  <2> QED
    BY <2>1, <2>2, <2>3, HarmlessFinding
<1>4. IsFiniteSet({f[h] : h \in H})
  BY <1>2, FiniteMap
<1> QED
  BY <1>1, <1>3, <1>4

LEMMA CookiesReported ==
    \A url, page : Address(url) /\ IsFiniteSet(page.cookies) =>
        /\ IsFiniteSet(InsecureCookies(url, page))
        /\ \A r \in InsecureCookies(url, page) : Harmless(r)
<1> SUFFICES ASSUME NEW url, NEW page, Address(url), IsFiniteSet(page.cookies)
             PROVE  /\ IsFiniteSet(InsecureCookies(url, page))
                    /\ \A r \in InsecureCookies(url, page) : Harmless(r)
  OBVIOUS
<1> DEFINE C == {c \in page.cookies : ~(CookieFlags(url) \subseteq c)}
           finding(c) == Finding("passive_http", << "", "insecure-cookie-flags" >>, "medium", url,
                                 [missing_flags |-> CookieFlags(url) \ c])
           f == [c \in C |-> finding(c)]
<1>1. InsecureCookies(url, page) = {f[c] : c \in C}
  BY DEF InsecureCookies
<1>2. IsFiniteSet(C)
  BY FS_Subset
<1>3. \A c \in C : Harmless(finding(c))
  <2>1. << "", "insecure-cookie-flags" >> \notin SecretKeys
    BY DEF SecretKeys
  <2>2. "medium" \in DOMAIN SeverityRank
    BY DEF SeverityRank
  <2>3. \A c : "masked_sample" \notin DOMAIN [missing_flags |-> CookieFlags(url) \ c]
    OBVIOUS
  <2> HIDE DEF C
  <2> QED
    BY <2>1, <2>2, <2>3, HarmlessFinding
<1>4. IsFiniteSet({f[c] : c \in C})
  BY <1>2, FiniteMap
<1> QED
  BY <1>1, <1>3, <1>4

\* At most one finding, and that one harmless.
LEMMA OneReported ==
    \A r : Harmless(r) => IsFiniteSet({r}) /\ \A q \in {r} : Harmless(q)
BY FS_Singleton

LEMMA TwoReported ==
    \A S, T : /\ IsFiniteSet(S) /\ \A r \in S : Harmless(r)
              /\ IsFiniteSet(T) /\ \A r \in T : Harmless(r)
              => IsFiniteSet(S \cup T) /\ \A r \in S \cup T : Harmless(r)
BY FS_Union

LEMMA SingleFindings ==
    \A url : Address(url) =>
        /\ Harmless(Disclosure("server-disclosure", url, "server"))
        /\ Harmless(Disclosure("x-powered-by-disclosure", url, "x_powered_by"))
        /\ Harmless(Finding("passive_http", << "", "http-5xx" >>, "medium", url, [status_code |-> "5xx"]))
        /\ Harmless(InvalidCertificate(url))
        /\ Harmless(Finding("passive_http", << "", "http-unreachable" >>, "high", url,
                            [evidence_type |-> "http_error"]))
        /\ Harmless(Finding("tls_check", << "", "no-https" >>, "high", url, << >>))
        /\ \A c : /\ Harmless(Finding("tls_check", << "cert-", "expiring-soon" >>, "medium", url, [days_left |-> c]))
                  /\ Harmless(Finding("tls_check", << "cert-", "expiring-soon" >>, "high", url, [days_left |-> c]))
        /\ \A c : /\ Harmless(Finding("passive_http", << "", "no-http-redirect" >>, "medium", url, [status_code |-> c]))
                  /\ Harmless(Finding("passive_http", << "", "weak-http-redirect" >>, "medium", url, [location |-> c]))
<1>1. /\ << "", "server-disclosure" >> \notin SecretKeys
      /\ << "", "x-powered-by-disclosure" >> \notin SecretKeys
      /\ << "", "http-5xx" >> \notin SecretKeys /\ << "cert-", "invalid" >> \notin SecretKeys
      /\ << "", "http-unreachable" >> \notin SecretKeys /\ << "", "no-https" >> \notin SecretKeys
      /\ << "cert-", "expiring-soon" >> \notin SecretKeys
      /\ << "", "no-http-redirect" >> \notin SecretKeys /\ << "", "weak-http-redirect" >> \notin SecretKeys
  BY DEF SecretKeys
<1>2. {"critical", "high", "medium", "info"} \subseteq DOMAIN SeverityRank
  BY DEF SeverityRank
<1>3. /\ "masked_sample" \notin DOMAIN [f \in {"server"} |-> "s"]
      /\ "masked_sample" \notin DOMAIN [f \in {"x_powered_by"} |-> "s"]
      /\ \A c : "masked_sample" \notin DOMAIN [status_code |-> c]
      /\ \A c : "masked_sample" \notin DOMAIN [days_left |-> c]
      /\ \A c : "masked_sample" \notin DOMAIN [location |-> c]
      /\ "masked_sample" \notin DOMAIN [evidence_type |-> "http_error"]
      /\ "masked_sample" \notin DOMAIN << >>
  OBVIOUS
<1> SUFFICES ASSUME NEW url, Address(url)
             PROVE  /\ Harmless(Disclosure("server-disclosure", url, "server"))
                    /\ Harmless(Disclosure("x-powered-by-disclosure", url, "x_powered_by"))
                    /\ Harmless(Finding("passive_http", << "", "http-5xx" >>, "medium", url, [status_code |-> "5xx"]))
                    /\ Harmless(InvalidCertificate(url))
                    /\ Harmless(Finding("passive_http", << "", "http-unreachable" >>, "high", url,
                                        [evidence_type |-> "http_error"]))
                    /\ Harmless(Finding("tls_check", << "", "no-https" >>, "high", url, << >>))
                    /\ \A c : /\ Harmless(Finding("tls_check", << "cert-", "expiring-soon" >>, "medium", url, [days_left |-> c]))
                              /\ Harmless(Finding("tls_check", << "cert-", "expiring-soon" >>, "high", url, [days_left |-> c]))
                    /\ \A c : /\ Harmless(Finding("passive_http", << "", "no-http-redirect" >>, "medium", url, [status_code |-> c]))
                              /\ Harmless(Finding("passive_http", << "", "weak-http-redirect" >>, "medium", url, [location |-> c]))
  OBVIOUS
<1>4. \A tool \in {"passive_http", "tls_check"}, severity \in DOMAIN SeverityRank : \A a, b, evidence :
        << a, b >> \notin SecretKeys /\ a # "zap-" /\ "masked_sample" \notin DOMAIN evidence =>
            Harmless(Finding(tool, << a, b >>, severity, url, evidence))
  BY HarmlessFinding
<1>5. Harmless(Disclosure("server-disclosure", url, "server"))
  BY <1>1, <1>2, <1>3, <1>4 DEF Disclosure
<1>6. Harmless(Disclosure("x-powered-by-disclosure", url, "x_powered_by"))
  BY <1>1, <1>2, <1>3, <1>4 DEF Disclosure
<1>7. Harmless(Finding("passive_http", << "", "http-5xx" >>, "medium", url, [status_code |-> "5xx"]))
  BY <1>1, <1>2, <1>3, <1>4
<1>8. Harmless(InvalidCertificate(url))
  BY <1>1, <1>2, <1>3, <1>4 DEF InvalidCertificate
<1>9. Harmless(Finding("passive_http", << "", "http-unreachable" >>, "high", url,
                       [evidence_type |-> "http_error"]))
  BY <1>1, <1>2, <1>3, <1>4
<1>10. Harmless(Finding("tls_check", << "", "no-https" >>, "high", url, << >>))
  BY <1>1, <1>2, <1>3, <1>4
<1>11. \A c : /\ Harmless(Finding("tls_check", << "cert-", "expiring-soon" >>, "medium", url, [days_left |-> c]))
              /\ Harmless(Finding("tls_check", << "cert-", "expiring-soon" >>, "high", url, [days_left |-> c]))
  BY <1>1, <1>2, <1>3, <1>4
<1>12. \A c : /\ Harmless(Finding("passive_http", << "", "no-http-redirect" >>, "medium", url, [status_code |-> c]))
              /\ Harmless(Finding("passive_http", << "", "weak-http-redirect" >>, "medium", url, [location |-> c]))
  BY <1>1, <1>2, <1>3, <1>4
<1> QED
  BY <1>5, <1>6, <1>7, <1>8, <1>9, <1>10, <1>11, <1>12

LEMMA PassiveReported ==
    ASSUME NEW look \in Looks
    PROVE  /\ IsFiniteSet(PassiveFindings(Target, look))
           /\ \A r \in PassiveFindings(Target, look) : Reportable(r)
<1> DEFINE page == look.page
           good(S) == IsFiniteSet(S) /\ \A r \in S : Harmless(r)
<1>1. Address(Target)
  BY TargetAssumption
<1>2. /\ look.certificate \in {"good", "none", "invalid", "expiring", "expires_this_week"}
      /\ look.redirect \in {"https", "none", "page", "http"}
      /\ page.ok => IsFiniteSet(page.cookies)
  BY LooksAssumption
<1>3. good({})
  BY FS_EmptySet
<1>4. good(CertificateFindings(Target, look.certificate))
  <2>1. /\ good({Finding("tls_check", << "", "no-https" >>, "high", Target, << >>)})
        /\ good({InvalidCertificate(Target)})
        /\ \A c : /\ good({Finding("tls_check", << "cert-", "expiring-soon" >>, "medium", Target, [days_left |-> c])})
                  /\ good({Finding("tls_check", << "cert-", "expiring-soon" >>, "high", Target, [days_left |-> c])})
    BY <1>1, SingleFindings, OneReported
  <2> HIDE DEF good
  <2>2. CASE Target[1] = "http"
    BY <2>1, <2>2 DEF CertificateFindings
  <2>3. CASE Target[1] # "http"
    <3>1. CASE look.certificate \in {"expiring", "expires_this_week"}
      BY <1>2, <2>1, <2>3, <3>1 DEF CertificateFindings
    <3>2. CASE look.certificate \notin {"expiring", "expires_this_week"}
      BY <1>2, <1>3, <2>1, <2>3, <3>2 DEF CertificateFindings
    <3> QED
      BY <3>1, <3>2
  <2> QED
    BY <2>2, <2>3
<1>5. good(RedirectFindings(Target, look.redirect))
  <2>1. \A c : /\ good({Finding("passive_http", << "", "no-http-redirect" >>, "medium", Target, [status_code |-> c])})
               /\ good({Finding("passive_http", << "", "weak-http-redirect" >>, "medium", Target, [location |-> c])})
    BY <1>1, SingleFindings, OneReported
  <2> HIDE DEF good
  <2>2. CASE Target[1] # "https" \/ look.redirect \in {"https", "none"}
    BY <1>3, <2>2 DEF RedirectFindings
  <2>3. CASE ~(Target[1] # "https" \/ look.redirect \in {"https", "none"})
    BY <1>2, <2>1, <2>3 DEF RedirectFindings
  <2> QED
    BY <2>2, <2>3
<1>6. good(PageFindings(Target, page))
  <2>1. CASE page.ok
    <3>1. good(MissingHeaders(Target, page))
      BY <1>1, HeadersReported
    <3>2. good(InsecureCookies(Target, page))
      BY <1>1, <1>2, <2>1, CookiesReported
    <3>3. good(Disclosures(Target, page))
      <4>1. good({Disclosure("server-disclosure", Target, "server")})
            /\ good({Disclosure("x-powered-by-disclosure", Target, "x_powered_by")})
        BY <1>1, SingleFindings, OneReported
      <4> HIDE DEF good
      <4>2. good(IF page.product THEN {Disclosure("server-disclosure", Target, "server")} ELSE {})
        BY <1>3, <4>1
      <4>3. good(IF "x-powered-by" \in page.headers
                 THEN {Disclosure("x-powered-by-disclosure", Target, "x_powered_by")} ELSE {})
        BY <1>3, <4>1
      <4> QED
        BY <4>2, <4>3, TwoReported DEF Disclosures, good
    <3>4. good(ServerError(Target, page))
      <4>1. good({Finding("passive_http", << "", "http-5xx" >>, "medium", Target, [status_code |-> "5xx"])})
        BY <1>1, SingleFindings, OneReported
      <4> QED
        BY <1>3, <4>1 DEF ServerError
    <3>5. good(MissingHeaders(Target, page) \cup InsecureCookies(Target, page))
      BY <3>1, <3>2, TwoReported
    <3>6. good(MissingHeaders(Target, page) \cup InsecureCookies(Target, page) \cup Disclosures(Target, page))
      BY <3>3, <3>5, TwoReported
    <3>7. good(MissingHeaders(Target, page) \cup InsecureCookies(Target, page) \cup Disclosures(Target, page)
               \cup ServerError(Target, page))
      BY <3>4, <3>6, TwoReported
    <3> QED
      BY <2>1, <3>7 DEF PageFindings
  <2>2. CASE ~page.ok
    <3>1. /\ good({InvalidCertificate(Target)})
          /\ good({Finding("passive_http", << "", "http-unreachable" >>, "high", Target,
                           [evidence_type |-> "http_error"])})
      BY <1>1, SingleFindings, OneReported
    <3> HIDE DEF good
    <3>2. good(FailureFindings(Target, page))
      BY <3>1 DEF FailureFindings
    <3> QED
      BY <2>2, <3>2 DEF PageFindings
  <2> QED
    BY <2>1, <2>2
<1>7. good(CertificateFindings(Target, look.certificate) \cup RedirectFindings(Target, look.redirect))
  BY <1>4, <1>5, TwoReported
<1>8. good(CertificateFindings(Target, look.certificate) \cup RedirectFindings(Target, look.redirect)
           \cup PageFindings(Target, page))
  BY <1>6, <1>7, TwoReported
<1> QED
  BY <1>8, HarmlessReportable DEF PassiveFindings

LEMMA SensitiveFinding ==
    \A name \in DOMAIN SecretSeverity : \A url, masked :
        Address(url) =>
            Reportable(Finding("sensitive_data", << "sensitive-", name >>, SecretSeverity[name], url,
                               [pattern |-> name, masked_sample |-> masked]))
<1> SUFFICES ASSUME NEW name \in DOMAIN SecretSeverity, NEW url, NEW masked, Address(url)
             PROVE  Reportable(Finding("sensitive_data", << "sensitive-", name >>, SecretSeverity[name], url,
                                       [pattern |-> name, masked_sample |-> masked]))
  OBVIOUS
<1> DEFINE r == Finding("sensitive_data", << "sensitive-", name >>, SecretSeverity[name], url,
                        [pattern |-> name, masked_sample |-> masked])
<1>1. CorrelationKey(r) = << "", name >>
  BY DEF CorrelationKey, Finding
<1>2. r.url = url /\ r.severity = SecretSeverity[name] /\ "pattern" \in DOMAIN r.evidence
  BY DEF Finding
<1>3. SecretSeverity[name] \in DOMAIN SeverityRank
  BY DEF SecretSeverity, SeverityRank
<1> HIDE DEF r
<1>4. CorrelationKey(r)[2] = name
  <2>1. << "", name >>[2] = name
    OBVIOUS
  <2> QED
    BY <1>1, <2>1, Zenon
<1>5. Reportable(r)
  BY <1>2, <1>3, <1>4 DEF Reportable
<1> QED
  BY <1>5 DEF r

LEMMA SensitiveReported ==
    ASSUME NEW bodies \in Bodies
    PROVE  /\ IsFiniteSet(SensitiveFindings(bodies))
           /\ \A r \in SensitiveFindings(bodies) : Reportable(r)
<1> DEFINE named(url) == {n \in DOMAIN bodies[url] : Counts(n, bodies[url][n])}
           finding(url, name) ==
               Finding("sensitive_data", << "sensitive-", name >>, SecretSeverity[name], url,
                       [pattern |-> name, masked_sample |-> bodies[url][name].masked])
           of(url) == {finding(url, name) : name \in named(url)}
           all == [url \in DOMAIN bodies |-> of(url)]
<1>1. /\ IsFiniteSet(DOMAIN bodies)
      /\ \A url \in DOMAIN bodies : Address(url) /\ DOMAIN bodies[url] \subseteq DOMAIN SecretSeverity
  BY BodiesAssumption
<1>2. SensitiveFindings(bodies) = UNION {all[url] : url \in DOMAIN bodies}
  BY DEF SensitiveFindings
<1>3. IsFiniteSet(DOMAIN SecretSeverity)
  <2>1. /\ IsFiniteSet({"hardcoded-password"} \cup {"db-connection-string"})
        /\ IsFiniteSet({"turkish-iban"} \cup {"generic-iban"})
        /\ IsFiniteSet({"credit-card-number"} \cup {"bank-account-hint"})
        /\ IsFiniteSet({"api-secret-assignment"})
    BY FS_Singleton, FS_Union
  <2>2. /\ IsFiniteSet(({"hardcoded-password"} \cup {"db-connection-string"})
                        \cup ({"turkish-iban"} \cup {"generic-iban"}))
        /\ IsFiniteSet(({"credit-card-number"} \cup {"bank-account-hint"}) \cup {"api-secret-assignment"})
    BY <2>1, FS_Union
  <2>3. IsFiniteSet((({"hardcoded-password"} \cup {"db-connection-string"})
                        \cup ({"turkish-iban"} \cup {"generic-iban"}))
                    \cup (({"credit-card-number"} \cup {"bank-account-hint"}) \cup {"api-secret-assignment"}))
    BY <2>2, FS_Union
  <2>4. DOMAIN SecretSeverity =
          (({"hardcoded-password"} \cup {"db-connection-string"})
              \cup ({"turkish-iban"} \cup {"generic-iban"}))
          \cup (({"credit-card-number"} \cup {"bank-account-hint"}) \cup {"api-secret-assignment"})
    BY DEF SecretSeverity
  <2> QED
    BY <2>3, <2>4
<1>4. ASSUME NEW url \in DOMAIN bodies
      PROVE  IsFiniteSet(all[url]) /\ \A r \in all[url] : Reportable(r)
  <2> DEFINE N == named(url)
             f == [name \in N |-> finding(url, name)]
  <2>1. IsFiniteSet(N) /\ N \subseteq DOMAIN SecretSeverity
    BY <1>1, <1>3, FS_Subset
  <2>2. all[url] = {f[name] : name \in N}
    OBVIOUS
  <2> HIDE DEF N
  <2>3. IsFiniteSet({f[name] : name \in N})
    BY <2>1, FiniteMap
  <2>4. \A name \in N : Reportable(f[name])
    BY <1>1, <2>1, SensitiveFinding
  <2> QED
    BY <2>2, <2>3, <2>4
<1> HIDE DEF all
<1>5. DOMAIN all = DOMAIN bodies
  BY DEF all
<1>6. IsFiniteSet({all[url] : url \in DOMAIN bodies})
  BY <1>1, <1>5, FiniteMap
<1>7. IsFiniteSet(UNION {all[url] : url \in DOMAIN bodies})
  BY <1>4, <1>6, FS_UNION
<1> QED
  BY <1>2, <1>4, <1>7

\* Alerts at some positions of a list.
Alerts(alerts) ==
    /\ IsFiniteSet(DOMAIN alerts) /\ DOMAIN alerts \subseteq Nat
    /\ \A alert \in Range(alerts) : alert.risk \in DOMAIN SeverityRank /\ Address(alert.url)

LEMMA AlertGroups ==
    ASSUME NEW alerts, Alerts(alerts)
    PROVE  /\ IsFiniteSet(GroupAlerts(alerts))
           /\ \A g \in GroupAlerts(alerts) : g.primary \in Range(alerts)
<1> DEFINE fp(i) == AlertFingerprint(alerts[i])
           groups == [i \in DOMAIN alerts |-> AlertGroup(fp(i), alerts)]
<1>1. GroupAlerts(alerts) = {groups[i] : i \in DOMAIN alerts}
  BY DEF GroupAlerts, Range
<1>2. ASSUME NEW i \in DOMAIN alerts PROVE groups[i].primary \in Range(alerts)
  <2> DEFINE members == {j \in DOMAIN alerts : AlertFingerprint(alerts[j]) = fp(i)}
  <2>1. members \in SUBSET Nat /\ members # {}
    BY DEF Alerts
  <2>2. Min(members) \in members
    BY <2>1, MinOfNats
  <2>3. groups[i].primary = alerts[Min(members)]
    BY DEF AlertGroup
  <2> QED
    BY <2>2, <2>3 DEF Range
<1> HIDE DEF groups
<1>3. DOMAIN groups = DOMAIN alerts
  BY DEF groups
<1>4. IsFiniteSet({groups[i] : i \in DOMAIN alerts})
  BY <1>3, FiniteMap DEF Alerts
<1> QED
  BY <1>1, <1>2, <1>4

LEMMA AlertReportable ==
    \A group : group.primary.risk \in DOMAIN SeverityRank /\ Address(group.primary.url) =>
        Reportable(AlertFinding(group))
<1> SUFFICES ASSUME NEW group, group.primary.risk \in DOMAIN SeverityRank, Address(group.primary.url)
             PROVE  Reportable(AlertFinding(group))
  OBVIOUS
<1> DEFINE r == AlertFinding(group)
<1>1. /\ r.tool = "zap" /\ r.rule = << "zap-", group.primary.plugin >>
      /\ r.severity = group.primary.risk /\ r.url = Canonical(group.primary.url)
      /\ "masked_sample" \notin DOMAIN r.evidence
  BY DEF AlertFinding
<1> HIDE DEF r
<1>2. CorrelationKey(r) \notin SecretKeys
  BY <1>1, ZapKey
<1>3. Address(r.url)
  BY <1>1, CanonicalAddress
<1> QED
  BY <1>1, <1>2, <1>3 DEF Reportable, r

LEMMA AlertsReported ==
    ASSUME NEW alerts \in AlertLists, NEW allowlist
    PROVE  /\ IsFiniteSet(AlertFindings(alerts, allowlist))
           /\ \A r \in AlertFindings(alerts, allowlist) : Reportable(r)
<1> DEFINE kept == AllowedAlerts(alerts, allowlist[1])
           collapsed == CollapseByPlugin(GroupAlerts(kept))
           groups == IF allowlist = None THEN GroupAlerts(alerts) ELSE collapsed
           good(G) == /\ IsFiniteSet(G)
                      /\ \A g \in G : g.primary.risk \in DOMAIN SeverityRank /\ Address(g.primary.url)
<1>1. alerts \in Seq(Range(alerts)) /\ \A a \in Range(alerts) : a.risk \in DOMAIN SeverityRank /\ Address(a.url)
  BY AlertListsAssumption
<1>2. Alerts(alerts)
  <2>1. DOMAIN alerts = 1..Len(alerts) /\ Len(alerts) \in Nat
    BY <1>1
  <2>2. IsFiniteSet(1..Len(alerts))
    BY <2>1, FS_Interval
  <2> QED
    BY <1>1, <2>1, <2>2 DEF Alerts
<1>3. good(GroupAlerts(alerts))
  BY <1>2, AlertGroups DEF Alerts
<1>4. Alerts(kept)
  <2>1. /\ DOMAIN kept \subseteq DOMAIN alerts /\ Range(kept) \subseteq Range(alerts)
    BY DEF AllowedAlerts, Restrict, Range
  <2>2. IsFiniteSet(DOMAIN kept)
    BY <1>2, <2>1, FS_Subset DEF Alerts
  <2> QED
    BY <1>2, <2>1, <2>2 DEF Alerts
<1> HIDE DEF kept
<1>5. good(GroupAlerts(kept))
  BY <1>4, AlertGroups DEF Alerts
<1>6. good(collapsed)
  <2> DEFINE G == GroupAlerts(kept)
             same(g) == {h \in G : h.primary.plugin = g.primary.plugin}
             f == [g \in G |-> CollapsedGroup(same(g))]
  <2>1. collapsed = {f[g] : g \in G}
    BY DEF CollapseByPlugin
  <2>2. \A g \in G : f[g].primary.risk \in DOMAIN SeverityRank /\ Address(f[g].primary.url)
    <3> SUFFICES ASSUME NEW g \in G
                 PROVE  f[g].primary.risk \in DOMAIN SeverityRank /\ Address(f[g].primary.url)
      OBVIOUS
    <3> DEFINE lead == CHOOSE h \in same(g) : TRUE
    <3>1. lead \in same(g)
      OBVIOUS
    <3>2. f[g] = [lead EXCEPT !.members = UNION {h.members : h \in same(g)},
                              !.urls = UNION {h.urls : h \in same(g)}]
      BY DEF CollapsedGroup
    <3> HIDE DEF lead, f
    <3>3. PICK fp : lead = AlertGroup(fp, kept)
      BY <3>1 DEF GroupAlerts
    <3>4. f[g].primary = lead.primary
      BY <3>2, <3>3 DEF AlertGroup
    <3> QED
      BY <1>5, <3>1, <3>4
  <2> HIDE DEF f
  <2>3. DOMAIN f = G
    BY DEF f
  <2>4. IsFiniteSet({f[g] : g \in G})
    BY <1>5, <2>3, FiniteMap
  <2> QED
    BY <2>1, <2>2, <2>4
<1>7. good(groups)
  BY <1>3, <1>6
<1>8. AlertFindings(alerts, allowlist) = {AlertFinding(g) : g \in groups}
  BY DEF AlertFindings, kept
<1> HIDE DEF groups
<1> DEFINE found == [g \in groups |-> AlertFinding(g)]
<1>9. IsFiniteSet({found[g] : g \in groups})
  BY <1>7, FiniteMap
<1> QED
  BY <1>7, <1>8, <1>9, AlertReportable

\* A list stays one when a scanner's reports are appended, in whatever order.
LEMMA Appended ==
    ASSUME NEW list, Listed(list), NEW S, IsFiniteSet(S), \A r \in S : Reportable(r)
    PROVE  Listed(list \o SetToSeq(S)) /\ Range(list \o SetToSeq(S)) = Range(list) \cup S
<1> DEFINE t == SetToSeq(S)
           u == list \o t
<1>1. t \in Seq(S) /\ Range(t) = S
  BY ListOf
<1> HIDE DEF t
<1>2. list \in Seq(Range(list) \cup S) /\ t \in Seq(Range(list) \cup S)
  BY <1>1 DEF Listed
<1>3. /\ u \in Seq(Range(list) \cup S) /\ DOMAIN u = 1..(Len(list) + Len(t))
      /\ \A i \in 1..Len(list) : u[i] = list[i]
      /\ \A i \in 1..Len(t) : u[Len(list) + i] = t[i]
      /\ Len(list) \in Nat /\ Len(t) \in Nat /\ DOMAIN list = 1..Len(list) /\ DOMAIN t = 1..Len(t)
  BY <1>2
<1>4. Range(u) = Range(list) \cup S
  <2>1. \A x \in Range(u) : x \in Range(list) \cup S
    BY <1>3 DEF Range
  <2>2. \A x \in Range(list) : x \in Range(u)
    BY <1>3 DEF Range
  <2>3. \A x \in S : x \in Range(u)
    <3> SUFFICES ASSUME NEW x \in S PROVE x \in Range(u)
      OBVIOUS
    <3>1. PICK i \in 1..Len(t) : x = t[i]
      BY <1>1, <1>3 DEF Range
    <3>2. Len(list) + i \in DOMAIN u /\ u[Len(list) + i] = x
      BY <1>3, <3>1
    <3> QED
      BY <3>2 DEF Range
  <2> QED
    BY <2>1, <2>2, <2>3
<1> QED
  BY <1>3, <1>4 DEF Listed, t

-----------------------------------------------------------------------------
(* Verification and scoring keep the findings apart and score each.        *)

LEMMA WithFields ==
    \A f, g : /\ DOMAIN With(f, g) = DOMAIN f \cup DOMAIN g
              /\ \A x \in DOMAIN f : With(f, g)[x] = f[x]
              /\ \A x \in DOMAIN g \ DOMAIN f : With(f, g)[x] = g[x]
BY DEF With

\* What a verified and scored finding is, for a verdict on it.
LEMMA ScoredFields ==
    ASSUME NEW f, Correlated(f), DOMAIN f = FindingFields, NEW v, v[1] \in DOMAIN ConfidenceFactor
    PROVE  LET g == Scored(Judged(f, v))
           IN  /\ Analyzed(g) /\ g.key = f.key /\ g.status = v[2] /\ g.verified = v[1]
               /\ Fingerprint(g) = Fingerprint(f)
<1> DEFINE more == [verified |-> v[1], status |-> v[2]]
           h == With(f, more)
           risk == [risk |-> RiskScore(h)]
           g == With(h, risk)
<1>1. Scored(Judged(f, v)) = g
  BY DEF Scored, Judged
<1>2. DOMAIN more = {"verified", "status"} /\ more.verified = v[1] /\ more.status = v[2]
      /\ DOMAIN risk = {"risk"} /\ risk.risk = RiskScore(h)
  OBVIOUS
<1> HIDE DEF more, risk, h, g
<1>3. DOMAIN h = FindingFields \cup {"verified", "status"}
  BY <1>2, WithFields DEF h
<1>4. h.verified = v[1] /\ h.status = v[2] /\ \A x \in FindingFields : h[x] = f[x]
  <2>1. "verified" \notin FindingFields /\ "status" \notin FindingFields
    BY DEF FindingFields
  <2>2. "verified" \in DOMAIN more \ DOMAIN f /\ "status" \in DOMAIN more \ DOMAIN f
    BY <1>2, <2>1
  <2>3. h["verified"] = more["verified"] /\ h["status"] = more["status"]
    BY <2>2, WithFields DEF h
  <2> QED
    BY <1>2, <2>3, WithFields DEF h
<1>5. DOMAIN g = FindingFields \cup {"verified", "status", "risk"}
  <2>1. DOMAIN g = DOMAIN h \cup DOMAIN risk
    BY WithFields DEF g
  <2> QED
    BY <1>2, <1>3, <2>1
<1>6. /\ g.risk = RiskScore(h) /\ g.verified = v[1] /\ g.status = v[2]
      /\ \A x \in FindingFields : g[x] = f[x]
  <2>1. "risk" \in DOMAIN risk \ DOMAIN h
    BY <1>2, <1>3 DEF FindingFields
  <2>2. g["risk"] = risk["risk"]
    BY <2>1, WithFields DEF g
  <2>3. \A x \in DOMAIN h : g[x] = h[x]
    BY WithFields DEF g
  <2> QED
    BY <1>2, <1>3, <1>4, <2>2, <2>3
<1>7. /\ g.key = f.key /\ g.severity = f.severity /\ g.url = f.url /\ g.tools = f.tools
      /\ g.evidence = f.evidence /\ g.confidence = f.confidence
  BY <1>6 DEF FindingFields
<1>8. /\ h.key = f.key /\ h.severity = f.severity /\ h.url = f.url /\ h.tools = f.tools
  BY <1>4 DEF FindingFields
<1>9. RiskScore(g) = RiskScore(h)
  BY <1>4, <1>6, <1>7, <1>8, ScoreParts
<1>10. Analyzed(g)
  BY <1>5, <1>6, <1>7, <1>9 DEF Analyzed, Correlated
<1>11. Fingerprint(g) = Fingerprint(f)
  BY <1>7 DEF Fingerprint
<1> QED
  BY <1>1, <1>6, <1>7, <1>10, <1>11

LEMMA VerdictType ==
    ASSUME NEW f, f.confidence \in {"low", "medium"}
    PROVE  /\ \A v \in Verdicts(f) : v[1] \in DOMAIN ConfidenceFactor
           /\ \A a : HeaderVerdict(f, a)[1] \in DOMAIN ConfidenceFactor
<1>1. DOMAIN ConfidenceFactor = {"high", "medium", "low"}
  BY DEF ConfidenceFactor
<1>2. Unchecked(f)[1] \in {"low", "medium"}
  BY DEF Unchecked
<1>3. \A v \in RedirectVerdicts(f) : v[1] \in {"high", "medium", "low"}
  BY <1>2 DEF RedirectVerdicts
<1>4. \A v \in TlsVerdicts(f) : v[1] \in {"high", "medium", "low"}
  <2>1. CASE f.url[1] # "https"
    <3> DEFINE only == IF f.key = << "", "no-https" >> THEN << "high", "verified" >>
                       ELSE << "low", "unverified" >>
    <3>1. TlsVerdicts(f) = {only}
      BY <2>1 DEF TlsVerdicts
    <3>2. only[1] \in {"low", "high"}
      OBVIOUS
    <3> HIDE DEF only
    <3> QED
      BY <3>1, <3>2
  <2>2. CASE f.url[1] = "https"
    <3> DEFINE first == IF f.key = << "cert-", "invalid" >> THEN << "low", "inconclusive" >>
                        ELSE << "medium", "verified" >>
    <3>1. TlsVerdicts(f) = {first, << "high", "verified" >>, << "low", "unverified" >>, Unchecked(f)}
      BY <2>2 DEF TlsVerdicts
    <3>2. first[1] \in {"low", "medium"}
      OBVIOUS
    <3> HIDE DEF first
    <3>3. << "high", "verified" >>[1] = "high" /\ << "low", "unverified" >>[1] = "low"
      OBVIOUS
    <3> QED
      BY <1>2, <3>1, <3>2, <3>3
  <2> QED
    BY <2>1, <2>2
<1>5. \A v \in ExposedVerdicts(f) : v[1] \in {"high", "medium", "low"}
  BY <1>2 DEF ExposedVerdicts
<1>6. \A v \in Verdicts(f) : v[1] \in {"high", "medium", "low"}
  <2>1. /\ \A v \in {<< "medium", "correlated" >>} : v[1] = "medium"
        /\ \A v \in {Unchecked(f)} : v[1] \in {"low", "medium"}
    BY <1>2
  <2>2. Verdicts(f) \in {RedirectVerdicts(f), TlsVerdicts(f), ExposedVerdicts(f),
                        {<< "medium", "correlated" >>}, {Unchecked(f)}}
    BY DEF Verdicts
  <2> QED
    BY <1>3, <1>4, <1>5, <2>1, <2>2
<1>7. \A a : HeaderVerdict(f, a)[1] \in {"high", "medium", "low"}
  BY <1>2 DEF HeaderVerdict
<1> QED
  BY <1>1, <1>6, <1>7

\* The outcome of a header check by the answer it was made with.
LEMMA HeaderOutcome ==
    \A f : /\ HeaderCheck(f, None)[2] = "unverified"
           /\ \A page : LET v == HeaderCheck(f, << page >>)[2]
                        IN  v = IF f.key[2] \in page THEN "inconclusive" ELSE "verified"
<1> SUFFICES ASSUME NEW f, NEW page
             PROVE  /\ HeaderCheck(f, None)[2] = "unverified"
                    /\ HeaderCheck(f, << page >>)[2]
                         = IF f.key[2] \in page THEN "inconclusive" ELSE "verified"
  OBVIOUS
<1>1. HeaderCheck(f, None) = Unchecked(f)
  BY DEF HeaderCheck, HeaderVerdict
<1>2. << page >> # None /\ << page >>[1] = page
  BY SomeIsNotNone
<1>3. HeaderCheck(f, << page >>) =
        IF f.key[2] \in page THEN << "low", "inconclusive" >>
        ELSE << IF Cardinality(f.tools) >= 2 THEN "high" ELSE "medium", "verified" >>
  BY <1>2 DEF HeaderCheck, HeaderVerdict
<1> QED
  BY <1>1, <1>3 DEF Unchecked

-----------------------------------------------------------------------------
(* The analysis of a scan.                                                 *)

\* Between them the findings to verify and those verified have distinct identities; a
\* header was judged by the one cached answer.
AnalysisInv ==
    /\ Listed(raws)
    /\ pc # "verifying" => pending = {} /\ analyzed = {}
    /\ IsFiniteSet(pending) /\ \A f \in pending : Correlated(f) /\ DOMAIN f = FindingFields
    /\ IsFiniteSet(analyzed) /\ \A f \in analyzed : Analyzed(f)
    /\ \A f, g \in pending : Fingerprint(f) = Fingerprint(g) => f = g
    /\ \A f, g \in analyzed : Fingerprint(f) = Fingerprint(g) => f = g
    /\ \A f \in pending, g \in analyzed : Fingerprint(f) # Fingerprint(g)
    /\ response # None => \E page \in Pages : response = << page >>
    /\ \A f \in analyzed : f.key \in HeaderChecks /\ f.status # "unverified" =>
         /\ response # None
         /\ f.status = IF f.key[2] \in response[1] THEN "inconclusive" ELSE "verified"

LEMMA AnalysisInitInv == SuiteInit => AnalysisInv
<1> SUFFICES ASSUME SuiteInit PROVE AnalysisInv
  OBVIOUS
<1>1. Listed(raws)
  BY DEF SuiteInit, Listed, Range
<1> QED
  BY <1>1, FS_EmptySet DEF SuiteInit, AnalysisInv

LEMMA AnalysisKept ==
    ASSUME AnalysisInv, UNCHANGED scanVars,
           pc' = "verifying" \/ pc # "verifying"
    PROVE  AnalysisInv'
BY DEF AnalysisInv, scanVars, Listed

LEMMA ForgottenKept == ASSUME AnalysisInv, ScanForgotten PROVE AnalysisInv'
<1>1. raws' = << >> /\ pending' = {} /\ analyzed' = {} /\ response' = None
  BY DEF ScanForgotten
<1>2. Listed(raws)'
  BY <1>1 DEF Listed, Range
<1> QED
  BY <1>1, <1>2, FS_EmptySet DEF AnalysisInv

LEMMA ReportsKept ==
    ASSUME AnalysisInv, NEW s, Reports(s), raws' = raws \/
           \E S : IsFiniteSet(S) /\ (\A r \in S : Reportable(r)) /\ raws' = raws \o SetToSeq(S)
    PROVE  AnalysisInv'
<1>1. Listed(raws')
  <2>1. Listed(raws)
    BY DEF AnalysisInv
  <2>2. CASE raws' = raws
    BY <2>1, <2>2
  <2>3. ASSUME NEW S, IsFiniteSet(S), \A r \in S : Reportable(r), raws' = raws \o SetToSeq(S)
        PROVE  Listed(raws')
    BY <2>1, <2>3, Appended
  <2> QED
    BY <2>2, <2>3
<1>2. UNCHANGED << pc, pending, response, analyzed >>
  BY DEF Reports
<1> QED
  BY <1>1, <1>2 DEF AnalysisInv

LEMMA AnalyzeKept == ASSUME AnalysisInv, Analyze PROVE AnalysisInv'
<1>1. /\ pending' = Correlate(raws) /\ raws' = << >> /\ pc' = "verifying" /\ analyzed' = {} /\ response' = response
      /\ analyzed = {}
  BY DEF Analyze, AnalysisInv
<1>2. Listed(raws')
  BY <1>1 DEF Listed, Range
<1>3. Listed(raws)
  BY DEF AnalysisInv
<1>4. /\ IsFiniteSet(pending') /\ \A f \in pending' : Correlated(f) /\ DOMAIN f = FindingFields
      /\ \A f, g \in pending' : Fingerprint(f) = Fingerprint(g) => f = g
  BY <1>1, <1>3, CorrelateSound
<1> QED
  BY <1>1, <1>2, <1>4, FS_EmptySet DEF AnalysisInv

\* One finding is verified: it moves to the others, with its identity.
LEMMA VerifiedKept ==
    ASSUME AnalysisInv, NEW f \in pending, NEW v, v[1] \in DOMAIN ConfidenceFactor,
           pc = "verifying", pc' = pc, raws' = raws,
           pending' = pending \ {f}, analyzed' = analyzed \cup {Scored(Judged(f, v))},
           response' # None => \E page \in Pages : response' = << page >>,
           response # None => response' = response,
           f.key \in HeaderChecks /\ v[2] # "unverified" =>
             /\ response' # None
             /\ v[2] = IF f.key[2] \in response'[1] THEN "inconclusive" ELSE "verified"
    PROVE  AnalysisInv'
<1> DEFINE g == Scored(Judged(f, v))
<1>1. Correlated(f) /\ DOMAIN f = FindingFields
  BY DEF AnalysisInv
<1>2. Analyzed(g) /\ g.key = f.key /\ g.status = v[2] /\ Fingerprint(g) = Fingerprint(f)
  BY <1>1, ScoredFields
<1> HIDE DEF g
<1>3. analyzed' = analyzed \cup {g}
  BY DEF g
<1>4. Listed(raws)'
  BY DEF AnalysisInv, Listed
<1>5. /\ IsFiniteSet(pending') /\ IsFiniteSet(analyzed')
      /\ \A h \in pending' : Correlated(h) /\ DOMAIN h = FindingFields
      /\ \A h \in analyzed' : Analyzed(h)
  <2>1. IsFiniteSet(pending \ {f})
    BY FS_RemoveElement DEF AnalysisInv
  <2>2. IsFiniteSet(analyzed \cup {g})
    BY FS_AddElement DEF AnalysisInv
  <2> QED
    BY <1>2, <1>3, <2>1, <2>2 DEF AnalysisInv
<1>6. \A a, b \in pending' : Fingerprint(a) = Fingerprint(b) => a = b
  BY DEF AnalysisInv
<1>7. \A a, b \in analyzed' : Fingerprint(a) = Fingerprint(b) => a = b
  BY <1>2, <1>3 DEF AnalysisInv
<1>8. \A a \in pending', b \in analyzed' : Fingerprint(a) # Fingerprint(b)
  BY <1>2, <1>3 DEF AnalysisInv
<1>9. \A h \in analyzed' : h.key \in HeaderChecks /\ h.status # "unverified" =>
        /\ response' # None
        /\ h.status = IF h.key[2] \in response'[1] THEN "inconclusive" ELSE "verified"
  <2>1. \A h \in analyzed : h.key \in HeaderChecks /\ h.status # "unverified" =>
          /\ response' # None
          /\ h.status = IF h.key[2] \in response'[1] THEN "inconclusive" ELSE "verified"
    BY DEF AnalysisInv
  <2>2. g.key \in HeaderChecks /\ g.status # "unverified" =>
          /\ response' # None
          /\ g.status = IF g.key[2] \in response'[1] THEN "inconclusive" ELSE "verified"
    BY <1>2
  <2> QED
    BY <1>3, <2>1, <2>2
<1> QED
  BY <1>4, <1>5, <1>6, <1>7, <1>8, <1>9 DEF AnalysisInv

LEMMA VerifyKept == ASSUME AnalysisInv, Verify PROVE AnalysisInv'
<1>1. PICK f \in NextToVerify :
        /\ pending' = pending \ {f}
        /\ IF f.key \in HeaderChecks
           THEN \E answers \in Answers :
                  /\ response' = answers
                  /\ analyzed' = analyzed \cup {Scored(Judged(f, HeaderCheck(f, answers)))}
           ELSE \E verdict \in Verdicts(f) :
                  /\ response' = response
                  /\ analyzed' = analyzed \cup {Scored(Judged(f, verdict))}
  BY DEF Verify
<1>2. pc = "verifying" /\ pc' = pc /\ raws' = raws
  BY DEF Verify
<1>3. f \in pending /\ f.confidence \in {"low", "medium"}
  BY DEF NextToVerify, AnalysisInv, Correlated
<1>4. CASE f.key \in HeaderChecks
  <2>1. PICK a \in Answers :
          /\ response' = a
          /\ analyzed' = analyzed \cup {Scored(Judged(f, HeaderCheck(f, a)))}
    BY <1>1, <1>4
  <2> DEFINE v == HeaderCheck(f, a)
  <2>2. v[1] \in DOMAIN ConfidenceFactor
    BY <1>3, VerdictType DEF HeaderCheck
  <2>3. /\ a # None => \E page \in Pages : a = << page >>
        /\ response # None => a = response
    BY DEF Answers, AnalysisInv
  <2>4. v[2] # "unverified" => /\ a # None
                               /\ v[2] = IF f.key[2] \in a[1] THEN "inconclusive" ELSE "verified"
    <3>1. CASE a = None
      BY <3>1, HeaderOutcome
    <3>2. CASE a # None
      <4>1. PICK page \in Pages : a = << page >>
        BY <2>3, <3>2
      <4>2. a[1] = page
        BY <4>1, SomeIsNotNone
      <4>3. HeaderCheck(f, << page >>)[2] = IF f.key[2] \in page THEN "inconclusive" ELSE "verified"
        BY HeaderOutcome
      <4> QED
        BY <3>2, <4>1, <4>2, <4>3
    <3> QED
      BY <3>1, <3>2
  <2> HIDE DEF v
  <2>5. analyzed' = analyzed \cup {Scored(Judged(f, v))}
    BY <2>1 DEF v
  <2> QED
    BY <1>1, <1>2, <1>3, <2>1, <2>2, <2>3, <2>4, <2>5, VerifiedKept
<1>5. CASE f.key \notin HeaderChecks
  <2>1. PICK v \in Verdicts(f) :
          response' = response /\ analyzed' = analyzed \cup {Scored(Judged(f, v))}
    BY <1>1, <1>5
  <2>2. v[1] \in DOMAIN ConfidenceFactor
    BY <1>3, VerdictType
  <2>3. response # None => \E page \in Pages : response = << page >>
    BY DEF AnalysisInv
  <2> QED
    BY <1>1, <1>2, <1>3, <1>5, <2>1, <2>2, <2>3, VerifiedKept
<1> QED
  BY <1>4, <1>5

LEMMA AnalysisStep == AnalysisInv /\ [SuiteNext]_suiteVars => AnalysisInv'
<1> SUFFICES ASSUME AnalysisInv, [SuiteNext]_suiteVars PROVE AnalysisInv'
  OBVIOUS
<1>1. CASE \/ Start \/ ServicesReady \/ Sync \/ CreateRun \/ Match \/ MatchFails
           \/ UploadFixture \/ SkipAnalysis \/ AnalyzeApk \/ MatchApk \/ AnalysisFails
           \/ Judge \/ JudgeApk \/ UNCHANGED suiteVars
  <2>1. UNCHANGED scanVars
    BY <1>1 DEF Start, ServicesReady, Sync, CreateRun, Match, MatchFails, UploadFixture,
       SkipAnalysis, AnalyzeApk, MatchApk, AnalysisFails, Judge, JudgeApk, Judges,
       PublishResult, suiteVars, scanVars
  <2>2. pc' = "verifying" \/ pc # "verifying"
    BY <1>1 DEF Start, ServicesReady, Sync, CreateRun, Match, MatchFails, UploadFixture,
       SkipAnalysis, AnalyzeApk, MatchApk, AnalysisFails, Judge, JudgeApk, Judges,
       PublishResult, suiteVars
  <2> QED
    BY <2>1, <2>2, AnalysisKept
<1>2. CASE PassiveReports
  <2>1. PICK look \in Looks : raws' = raws \o SetToSeq(PassiveFindings(Target, look))
    BY <1>2 DEF PassiveReports
  <2> QED
    BY <1>2, <2>1, PassiveReported, ReportsKept DEF PassiveReports
<1>3. CASE SensitiveReports
  <2>1. PICK bodies \in Bodies : raws' = raws \o SetToSeq(SensitiveFindings(bodies))
    BY <1>3 DEF SensitiveReports
  <2> QED
    BY <1>3, <2>1, SensitiveReported, ReportsKept DEF SensitiveReports
<1>4. CASE ZapReports
  <2>1. PICK alerts \in AlertLists, allowlist \in Allowlists :
          raws' = raws \o SetToSeq(AlertFindings(alerts, allowlist))
    BY <1>4 DEF ZapReports
  <2> QED
    BY <1>4, <2>1, AlertsReported, ReportsKept DEF ZapReports
<1>5. CASE ScannerFails
  BY <1>5, ReportsKept DEF ScannerFails
<1>6. CASE Analyze
  BY <1>6, AnalyzeKept
<1>7. CASE Verify
  BY <1>7, VerifyKept
<1>8. CASE \/ ServicesLate \/ ScanFails \/ Store \/ NoResult \/ Finish \/ SuiteEnds
           \/ Stop \/ Die
  <2>1. ScanForgotten
    BY <1>8 DEF ServicesLate, ScanFails, Store, NoResult, Finish, SuiteEnds, Ends, Stop, Die, Leaves
  <2> QED
    BY <2>1, ForgottenKept
<1> QED
  BY <1>1, <1>2, <1>3, <1>4, <1>5, <1>6, <1>7, <1>8 DEF SuiteNext

\* From the raw findings to the scored ones nothing is lost or repeated, whatever the target
\* answers and ZAP alerts; the header verdicts of a scan are those of one page; a score is
\* between 1 and 100 and does not fall when a finding gets worse or better attested.
THEOREM AnalysisKeptFaithful == SuiteSpec => []AnalysisFaithful
<1>1. AnalysisInv => AnalysisFaithful
  <2> SUFFICES ASSUME AnalysisInv PROVE AnalysisFaithful
    OBVIOUS
  <2>1. GroupingFaithful
    BY Grouped DEF AnalysisInv
  <2>2. HeaderVerdictsAgree
    <3> DEFINE checked == {f \in analyzed : f.key \in HeaderChecks /\ f.status # "unverified"}
               present == {f.key[2] : f \in {g \in checked : g.status = "inconclusive"}}
               absent == {f.key[2] : f \in {g \in checked : g.status = "verified"}}
    <3>1. ASSUME checked # {} PROVE \E page \in Pages : present \subseteq page /\ absent \cap page = {}
      <4>1. response # None
        BY <3>1 DEF AnalysisInv
      <4>2. PICK page \in Pages : response = << page >>
        BY <4>1 DEF AnalysisInv
      <4>3. response[1] = page
        BY <4>2, SomeIsNotNone
      <4>4. \A f \in checked : f.status = IF f.key[2] \in page THEN "inconclusive" ELSE "verified"
        BY <4>3 DEF AnalysisInv
      <4>5. present \subseteq page /\ absent \cap page = {}
        BY <4>4
      <4> QED
        BY <4>5
    <3> QED
      BY <3>1 DEF HeaderVerdictsAgree
  <2>3. ScoreOrdered
    BY FindingScored, ZenonT(30) DEF AnalysisInv, ScoreOrdered
  <2> QED
    BY <2>1, <2>2, <2>3 DEF AnalysisFaithful
<1> QED
  BY <1>1, AnalysisInitInv, AnalysisStep, PTL DEF SuiteSpec

-----------------------------------------------------------------------------
(* The lists the result is made from.                                      *)

\* A list of the elements of a set, each once.
ListIs(list, S) ==
    /\ list \in Seq(S) /\ Range(list) = S
    /\ \A i, j \in DOMAIN list : list[i] = list[j] => i = j

LEMMA JoinedList ==
    ASSUME NEW S, NEW T, S \cap T = {}, NEW a, NEW b, ListIs(a, S), ListIs(b, T)
    PROVE  ListIs(a \o b, S \cup T)
<1> DEFINE u == a \o b
<1>1. a \in Seq(S \cup T) /\ b \in Seq(S \cup T)
  BY DEF ListIs
<1>2. /\ u \in Seq(S \cup T) /\ DOMAIN u = 1..(Len(a) + Len(b))
      /\ \A i \in 1..Len(a) : u[i] = a[i]
      /\ \A i \in 1..Len(b) : u[Len(a) + i] = b[i]
      /\ Len(a) \in Nat /\ Len(b) \in Nat /\ DOMAIN a = 1..Len(a) /\ DOMAIN b = 1..Len(b)
  BY <1>1
<1>3. \A i \in DOMAIN u : \/ i \in DOMAIN a /\ u[i] = a[i]
                          \/ i - Len(a) \in DOMAIN b /\ i \notin DOMAIN a /\ u[i] = b[i - Len(a)]
  <2> SUFFICES ASSUME NEW i \in DOMAIN u, i \notin DOMAIN a
               PROVE  i - Len(a) \in DOMAIN b /\ u[i] = b[i - Len(a)]
    BY <1>2
  <2>1. i - Len(a) \in 1..Len(b) /\ Len(a) + (i - Len(a)) = i
    BY <1>2
  <2> QED
    BY <1>2, <2>1
<1>4. Range(u) = S \cup T
  <2>1. \A x \in Range(u) : x \in S \cup T
    BY <1>2 DEF Range
  <2>2. \A x \in S : x \in Range(u)
    <3> SUFFICES ASSUME NEW x \in S PROVE x \in Range(u)
      OBVIOUS
    <3>1. PICK i \in DOMAIN a : x = a[i]
      BY DEF ListIs, Range
    <3>2. i \in DOMAIN u /\ u[i] = x
      BY <1>2, <3>1
    <3> QED
      BY <3>2 DEF Range
  <2>3. \A x \in T : x \in Range(u)
    <3> SUFFICES ASSUME NEW x \in T PROVE x \in Range(u)
      OBVIOUS
    <3>1. PICK i \in DOMAIN b : x = b[i]
      BY DEF ListIs, Range
    <3>2. Len(a) + i \in DOMAIN u /\ u[Len(a) + i] = x
      BY <1>2, <3>1
    <3> QED
      BY <3>2 DEF Range
  <2> QED
    BY <2>1, <2>2, <2>3
<1>5. ASSUME NEW i \in DOMAIN u, NEW j \in DOMAIN u, u[i] = u[j] PROVE i = j
  <2>1. (\A k \in DOMAIN a : a[k] \in S) /\ (\A k \in DOMAIN b : b[k] \in T)
    BY DEF ListIs
  <2>2. CASE i \in DOMAIN a
    BY <1>3, <1>5, <2>1, <2>2 DEF ListIs
  <2>3. CASE i \notin DOMAIN a
    <3>1. i - Len(a) \in DOMAIN b /\ u[i] = b[i - Len(a)]
      BY <1>3, <2>3
    <3>2. j - Len(a) \in DOMAIN b /\ u[j] = b[j - Len(a)]
      BY <1>3, <1>5, <2>1, <3>1
    <3>3. i - Len(a) = j - Len(a)
      BY <1>5, <3>1, <3>2 DEF ListIs
    <3> QED
      BY <1>2, <3>3
  <2> QED
    BY <2>2, <2>3
<1> HIDE DEF u
<1> QED
  BY <1>2, <1>4, <1>5 DEF ListIs, u

LEMMA SortedLists ==
    ASSUME NEW S, IsFiniteSet(S)
    PROVE  ListIs(SetToSeq(S), S) /\ \A s \in SetToSeqs(S) : ListIs(s, S)
BY ListOf DEF ListIs

LEMMA OrdersList ==
    ASSUME NEW S, IsFiniteSet(S), NEW T, T \subseteq S
    PROVE  \A list \in Orders(S, T) : ListIs(list, S)
<1> SUFFICES ASSUME NEW list \in Orders(S, T) PROVE ListIs(list, S)
  OBVIOUS
<1>1. PICK s \in SetToSeqs(T) : list = SetToSeq(S \ T) \o s
  BY DEF Orders
<1>2. IsFiniteSet(T) /\ IsFiniteSet(S \ T)
  BY FS_Subset
<1>3. ListIs(s, T) /\ ListIs(SetToSeq(S \ T), S \ T)
  BY <1>2, SortedLists
<1>4. ListIs(SetToSeq(S \ T) \o s, (S \ T) \cup T)
  BY <1>3, JoinedList
<1>5. (S \ T) \cup T = S
  OBVIOUS
<1> QED
  BY <1>1, <1>4, <1>5

\* What is known of the expected findings of a suite and of the stored ones of a scan.
Expected(E) ==
    /\ IsFiniteSet(E) /\ \A item \in E : item.required \in BOOLEAN
    /\ \A a, b \in E : a.key = b.key => a = b
StoredRows(R) ==
    /\ IsFiniteSet(R) /\ \A r \in R : r.id # None /\ r.fingerprint = r.id
    /\ \A a, b \in R : a.id = b.id => a = b

\* The first measurable item that accepts a row is the one that takes it.
LEMMA OneTakes ==
    ASSUME NEW E, NEW items, ListIs(items, E), NEW R, NEW found, ListIs(found, R), NEW j \in DOMAIN found
    PROVE  LET measured == {k \in DOMAIN items : Measurable(items[k])}
               accepting == {k \in measured : Matches(items[k], found[j])}
           IN  /\ \A k \in measured : j \in TakenBy(items, found, k) => k \in accepting
               /\ \A k, l \in measured : j \in TakenBy(items, found, k) /\ j \in TakenBy(items, found, l) => k = l
               /\ accepting # {} => Min(accepting) \in accepting /\ j \in TakenBy(items, found, Min(accepting))
<1> DEFINE measured == {k \in DOMAIN items : Measurable(items[k])}
           accepting == {k \in measured : Matches(items[k], found[j])}
<1>1. DOMAIN items = 1..Len(items) /\ Len(items) \in Nat
  BY DEF ListIs
<1>2. \A k \in measured : j \in TakenBy(items, found, k) <=>
        Matches(items[k], found[j]) /\ \A l \in 1..(k - 1) : Measurable(items[l]) => ~Matches(items[l], found[j])
  BY DEF TakenBy
<1>3. \A k \in measured : j \in TakenBy(items, found, k) => k \in accepting
  BY <1>2
<1>4. ASSUME NEW k \in measured, NEW l \in measured,
             j \in TakenBy(items, found, k), j \in TakenBy(items, found, l)
      PROVE  k = l
  <2>1. ~(l \in 1..(k - 1)) /\ ~(k \in 1..(l - 1))
    BY <1>2, <1>4
  <2>2. k \in 1..Len(items) /\ l \in 1..Len(items)
    BY <1>1
  <2> QED
    BY <1>1, <2>1, <2>2
<1>5. ASSUME accepting # {}
      PROVE  Min(accepting) \in accepting /\ j \in TakenBy(items, found, Min(accepting))
  <2>1. accepting \in SUBSET Nat
    BY <1>1
  <2>2. Min(accepting) \in accepting /\ \A x \in accepting : Min(accepting) <= x
    BY <1>5, <2>1, MinOfNats
  <2> DEFINE m == Min(accepting)
  <2> HIDE DEF m
  <2>3. m \in accepting /\ \A x \in accepting : m <= x
    BY <2>2 DEF m
  <2>4. \A l \in 1..(m - 1) : Measurable(items[l]) => ~Matches(items[l], found[j])
    <3> SUFFICES ASSUME NEW l \in 1..(m - 1), Measurable(items[l]), Matches(items[l], found[j]) PROVE FALSE
      OBVIOUS
    <3>1. m \in 1..Len(items)
      BY <1>1, <2>3
    <3>2. l \in accepting
      BY <1>1, <3>1
    <3> QED
      BY <1>1, <2>3, <3>1, <3>2
  <2>5. j \in TakenBy(items, found, m)
    BY <1>2, <2>3, <2>4
  <2> QED
    BY <2>3, <2>5 DEF m
<1> QED
  BY <1>3, <1>4, <1>5

-----------------------------------------------------------------------------
(* The records of a match.                                                 *)

Compared(items, E, found, R) ==
    ListIs(items, E) /\ Expected(E) /\ ListIs(found, R) /\ StoredRows(R)

MeasuredAt(items) == {k \in DOMAIN items : Measurable(items[k])}
Taking(items, found) == {k \in MeasuredAt(items) : TakenBy(items, found, k) # {}}
Own(items, found, k) == Min(TakenBy(items, found, k))
Missed(items, found) ==
    {item \in Range(items) : Record(item.key, None, "false_negative") \in Claimed(items, found)}
Left(items, found) == {r \in Range(found) : \A m \in Claimed(items, found) : m.row # r.id}
Unmatched(items, found, r) ==
    UnmatchedClass(r, Missed(items, found),
        {q \in Range(found) : \E m \in Claimed(items, found) : m.row = q.id /\ m.class # "duplicate"})

LEMMA RecordFields ==
    /\ \A a, b, c : Record(a, b, c).item = a /\ Record(a, b, c).row = b /\ Record(a, b, c).class = c
    /\ \A a, b, c, d, e, f : Record(a, b, c) = Record(d, e, f) <=> a = d /\ b = e /\ c = f
BY DEF Record

LEMMA OwnTaken ==
    ASSUME NEW R, NEW items, NEW found, ListIs(found, R), NEW k \in Taking(items, found)
    PROVE  Own(items, found, k) \in TakenBy(items, found, k) /\ Own(items, found, k) \in DOMAIN found
<1>1. TakenBy(items, found, k) \in SUBSET Nat /\ TakenBy(items, found, k) # {}
      /\ TakenBy(items, found, k) \subseteq DOMAIN found
  BY DEF TakenBy, Taking, ListIs
<1> QED
  BY <1>1, MinOfNats DEF Own

LEMMA ClaimedIs ==
    ASSUME NEW items, NEW found, NEW m
    PROVE  m \in Claimed(items, found) <=>
              \/ \E k \in Taking(items, found) :
                   m = Record(items[k].key, found[Own(items, found, k)].id, MatchClass(items[k]))
              \/ \E k \in Taking(items, found) :
                   \E j \in TakenBy(items, found, k) \ {Own(items, found, k)} :
                     m = Record(items[k].key, found[j].id, "duplicate")
              \/ \E k \in MeasuredAt(items) \ Taking(items, found) :
                   items[k].required /\ m = Record(items[k].key, None, MissClass(items[k]))
<1>1. m \in Claimed(items, found) <=> \E k \in MeasuredAt(items) : m \in Claim(items, found, k)
  BY DEF Claimed, MeasuredAt
<1>2. ASSUME NEW k \in Taking(items, found)
      PROVE  m \in Claim(items, found, k) <=>
                \/ m = Record(items[k].key, found[Own(items, found, k)].id, MatchClass(items[k]))
                \/ \E j \in TakenBy(items, found, k) \ {Own(items, found, k)} :
                     m = Record(items[k].key, found[j].id, "duplicate")
  BY DEF Claim, Taking, Own
<1>3. ASSUME NEW k \in MeasuredAt(items) \ Taking(items, found)
      PROVE  m \in Claim(items, found, k) <=>
                items[k].required /\ m = Record(items[k].key, None, MissClass(items[k]))
  <2>1. TakenBy(items, found, k) = {}
    BY DEF Taking
  <2>2. Claim(items, found, k) =
          IF items[k].required THEN {Record(items[k].key, None, MissClass(items[k]))} ELSE {}
    BY <2>1 DEF Claim
  <2> QED
    BY <2>2
<1>4. Taking(items, found) \subseteq MeasuredAt(items)
  BY DEF Taking
<1> QED
  BY <1>1, <1>2, <1>3, <1>4

LEMMA MatchedIs ==
    ASSUME NEW items, NEW found, NEW m
    PROVE  m \in MatchFindings(items, found) <=>
              \/ \E item \in Range(items) :
                   ~Measurable(item) /\ m = Record(item.key, None, "ground_truth_missing")
              \/ m \in Claimed(items, found)
              \/ \E r \in Left(items, found) : m = Record(None, r.id, Unmatched(items, found, r))
BY DEF MatchFindings, Left, Unmatched, Missed

\* A row is left if no measurable item accepts it.
LEMMA LeftIs ==
    ASSUME NEW E, NEW items, NEW R, NEW found, Compared(items, E, found, R)
    PROVE  Left(items, found) = {r \in R : \A item \in E : Measurable(item) => ~Matches(item, r)}
<1>1. ListIs(items, E) /\ ListIs(found, R) /\ StoredRows(R) /\ Range(items) = E /\ Range(found) = R
  BY DEF Compared, ListIs
<1>2. ASSUME NEW r \in R, NEW item \in E, Measurable(item), Matches(item, r)
      PROVE  r \notin Left(items, found)
  <2>1. PICK j \in DOMAIN found : found[j] = r
    BY <1>1 DEF Range
  <2>2. PICK l \in DOMAIN items : items[l] = item
    BY <1>1 DEF Range
  <2> DEFINE accepting == {k \in MeasuredAt(items) : Matches(items[k], found[j])}
             k == Min(accepting)
  <2>3. accepting # {}
    BY <1>2, <2>1, <2>2 DEF MeasuredAt
  <2>4. k \in accepting /\ j \in TakenBy(items, found, k)
    BY <1>1, <2>3, OneTakes DEF MeasuredAt
  <2> HIDE DEF k
  <2>5. k \in Taking(items, found)
    BY <2>4 DEF Taking
  <2>6. \E m \in Claimed(items, found) : m.row = found[j].id
    <3>1. CASE j = Own(items, found, k)
      <4>1. Record(items[k].key, found[j].id, MatchClass(items[k])) \in Claimed(items, found)
        BY <2>5, <3>1, ClaimedIs
      <4> QED
        BY <4>1, RecordFields
    <3>2. CASE j # Own(items, found, k)
      <4>1. Record(items[k].key, found[j].id, "duplicate") \in Claimed(items, found)
        BY <2>4, <2>5, <3>2, ClaimedIs
      <4> QED
        BY <4>1, RecordFields
    <3> QED
      BY <3>1, <3>2
  <2> QED
    BY <2>1, <2>6 DEF Left
<1>3. ASSUME NEW r \in R, \A item \in E : Measurable(item) => ~Matches(item, r),
             NEW m \in Claimed(items, found), m.row = r.id
      PROVE  FALSE
  <2>1. \A k \in Taking(items, found), j \in DOMAIN found :
           j \in TakenBy(items, found, k) => found[j].id # r.id
    <3> SUFFICES ASSUME NEW k \in Taking(items, found), NEW j \in DOMAIN found,
                        j \in TakenBy(items, found, k)
                 PROVE  found[j].id # r.id
      OBVIOUS
    <3>1. items[k] \in E /\ Measurable(items[k]) /\ Matches(items[k], found[j]) /\ found[j] \in R
      BY <1>1 DEF Taking, MeasuredAt, TakenBy, Range
    <3>2. found[j] # r
      BY <1>3, <3>1
    <3> QED
      BY <1>1, <3>1, <3>2 DEF StoredRows
  <2>2. r.id # None
    BY <1>1 DEF StoredRows
  <2>3. CASE \E k \in Taking(items, found) :
               m = Record(items[k].key, found[Own(items, found, k)].id, MatchClass(items[k]))
    BY <1>1, <1>3, <2>1, <2>3, OwnTaken, RecordFields
  <2>4. CASE \E k \in Taking(items, found) :
               \E j \in TakenBy(items, found, k) \ {Own(items, found, k)} :
                 m = Record(items[k].key, found[j].id, "duplicate")
    <3>1. PICK k \in Taking(items, found) : \E j \in TakenBy(items, found, k) :
            m = Record(items[k].key, found[j].id, "duplicate")
      BY <2>4
    <3>2. PICK j \in TakenBy(items, found, k) : m = Record(items[k].key, found[j].id, "duplicate")
      BY <3>1
    <3>3. m.row = found[j].id
      BY <3>2, RecordFields
    <3>4. j \in DOMAIN found
      BY DEF TakenBy
    <3> QED
      BY <1>3, <2>1, <3>3, <3>4
  <2>5. CASE \E k \in MeasuredAt(items) \ Taking(items, found) :
               items[k].required /\ m = Record(items[k].key, None, MissClass(items[k]))
    BY <1>3, <2>2, <2>5, RecordFields
  <2> QED
    BY <2>3, <2>4, <2>5, ClaimedIs
<1> QED
  BY <1>1, <1>2, <1>3 DEF Left

LEMMA MissedIs ==
    ASSUME NEW E, NEW items, NEW R, NEW found, Compared(items, E, found, R), NEW k \in DOMAIN items
    PROVE  items[k] \in Missed(items, found) <=>
              /\ k \in MeasuredAt(items) \ Taking(items, found)
              /\ items[k].support = "supported" /\ items[k].required
<1> DEFINE m == Record(items[k].key, None, "false_negative")
<1>1. /\ items[k] \in E /\ ListIs(items, E) /\ ListIs(found, R) /\ StoredRows(R)
      /\ \A a, b \in E : a.key = b.key => a = b
      /\ \A l \in DOMAIN items : items[l] \in E
      /\ \A l \in DOMAIN items : items[l] = items[k] => l = k
  BY DEF Compared, ListIs, Expected, Range
<1>2. items[k] \in Missed(items, found) <=> m \in Claimed(items, found)
  BY DEF Missed, Range
<1>3. \A j \in DOMAIN found : found[j].id # None
  BY <1>1 DEF ListIs, StoredRows, Range
<1>4. m.row = None /\ m.item = items[k].key /\ m.class = "false_negative"
  BY RecordFields
<1>5. ASSUME m \in Claimed(items, found)
      PROVE  /\ k \in MeasuredAt(items) \ Taking(items, found)
             /\ items[k].support = "supported" /\ items[k].required
  <2>1. ASSUME NEW l \in Taking(items, found),
               m = Record(items[l].key, found[Own(items, found, l)].id, MatchClass(items[l]))
        PROVE  FALSE
    BY <1>1, <1>3, <1>4, <2>1, OwnTaken, RecordFields
  <2>2. ASSUME NEW l \in Taking(items, found), NEW j \in TakenBy(items, found, l),
               m = Record(items[l].key, found[j].id, "duplicate")
        PROVE  FALSE
    BY <1>4, <2>2, RecordFields
  <2>3. PICK l \in MeasuredAt(items) \ Taking(items, found) :
          items[l].required /\ m = Record(items[l].key, None, MissClass(items[l]))
    BY <1>5, <2>1, <2>2, ClaimedIs
  <2>4. items[l].key = items[k].key /\ MissClass(items[l]) = "false_negative"
    BY <1>4, <2>3, RecordFields
  <2>5. l \in DOMAIN items
    BY DEF MeasuredAt
  <2>6. l = k
    BY <1>1, <2>4, <2>5
  <2>7. items[l].support = "supported"
    BY <2>4 DEF MissClass
  <2> QED
    BY <2>3, <2>6, <2>7
<1>6. ASSUME k \in MeasuredAt(items) \ Taking(items, found),
             items[k].support = "supported", items[k].required
      PROVE  m \in Claimed(items, found)
  <2>1. MissClass(items[k]) = "false_negative"
    BY <1>6 DEF MissClass
  <2> QED
    BY <1>6, <2>1, ClaimedIs
<1> QED
  BY <1>2, <1>5, <1>6

\* A row that is taken has one record among those of the items, one that is left has none.
LEMMA ClaimedOnce ==
    ASSUME NEW E, NEW items, NEW R, NEW found, Compared(items, E, found, R),
           NEW m \in Claimed(items, found), m.row # None
    PROVE  \E k \in Taking(items, found), j \in DOMAIN found :
              /\ j \in TakenBy(items, found, k) /\ m.row = found[j].id
              /\ m = IF j = Own(items, found, k)
                     THEN Record(items[k].key, found[j].id, MatchClass(items[k]))
                     ELSE Record(items[k].key, found[j].id, "duplicate")
<1>1. ListIs(found, R)
  BY DEF Compared
<1>2. CASE \E k \in Taking(items, found) :
             m = Record(items[k].key, found[Own(items, found, k)].id, MatchClass(items[k]))
  <2>1. PICK k \in Taking(items, found) :
          m = Record(items[k].key, found[Own(items, found, k)].id, MatchClass(items[k]))
    BY <1>2
  <2> DEFINE j == Own(items, found, k)
  <2>2. j \in TakenBy(items, found, k) /\ j \in DOMAIN found
    BY <1>1, OwnTaken
  <2>3. m.row = found[j].id
    BY <2>1, RecordFields
  <2> QED
    BY <2>1, <2>2, <2>3
<1>3. CASE \E k \in Taking(items, found) :
             \E j \in TakenBy(items, found, k) \ {Own(items, found, k)} :
               m = Record(items[k].key, found[j].id, "duplicate")
  <2>1. PICK k \in Taking(items, found) : \E j \in TakenBy(items, found, k) \ {Own(items, found, k)} :
          m = Record(items[k].key, found[j].id, "duplicate")
    BY <1>3
  <2>2. PICK j \in TakenBy(items, found, k) \ {Own(items, found, k)} :
          m = Record(items[k].key, found[j].id, "duplicate")
    BY <2>1
  <2>3. m.row = found[j].id
    BY <2>2, RecordFields
  <2>4. j \in DOMAIN found
    BY DEF TakenBy
  <2> QED
    BY <2>2, <2>3, <2>4
<1>4. CASE \E k \in MeasuredAt(items) \ Taking(items, found) :
             items[k].required /\ m = Record(items[k].key, None, MissClass(items[k]))
  BY <1>4, RecordFields
<1> QED
  BY <1>2, <1>3, <1>4, ClaimedIs

LEMMA JudgedInOne ==
    ASSUME NEW E, NEW items, NEW R, NEW found, Compared(items, E, found, R), NEW r \in R
    PROVE  \E m : {x \in MatchFindings(items, found) : x.row = r.id} = {m}
<1>1. ListIs(items, E) /\ ListIs(found, R) /\ StoredRows(R) /\ Range(found) = R
  BY DEF Compared, ListIs
<1>2. r.id # None /\ \A q \in R : q.id = r.id => q = r
  BY <1>1 DEF StoredRows
<1>3. \A x \in MatchFindings(items, found) : x.row = r.id =>
        \/ x \in Claimed(items, found)
        \/ r \in Left(items, found) /\ x = Record(None, r.id, Unmatched(items, found, r))
  <2> SUFFICES ASSUME NEW x \in MatchFindings(items, found), x.row = r.id, x \notin Claimed(items, found)
               PROVE  r \in Left(items, found) /\ x = Record(None, r.id, Unmatched(items, found, r))
    OBVIOUS
  <2>1. ~\E item \in Range(items) : x = Record(item.key, None, "ground_truth_missing")
    BY <1>2, RecordFields
  <2>2. PICK q \in Left(items, found) : x = Record(None, q.id, Unmatched(items, found, q))
    BY <2>1, MatchedIs
  <2>3. q \in R /\ q.id = r.id
    BY <1>1, <2>2, RecordFields DEF Left
  <2> QED
    BY <1>2, <2>2, <2>3
<1>4. CASE r \in Left(items, found)
  <2> DEFINE m == Record(None, r.id, Unmatched(items, found, r))
  <2>1. \A x \in Claimed(items, found) : x.row # r.id
    BY <1>4 DEF Left
  <2>2. m \in MatchFindings(items, found) /\ m.row = r.id
    BY <1>4, MatchedIs, RecordFields
  <2>3. {x \in MatchFindings(items, found) : x.row = r.id} = {m}
    BY <1>3, <2>1, <2>2
  <2> QED
    BY <2>3
<1>5. CASE r \notin Left(items, found)
  <2>1. PICK m \in Claimed(items, found) : m.row = r.id
    BY <1>1, <1>5 DEF Left
  <2>2. ASSUME NEW x \in Claimed(items, found), x.row = r.id PROVE x = m
    <3>1. PICK k \in Taking(items, found), j \in DOMAIN found :
            /\ j \in TakenBy(items, found, k) /\ m.row = found[j].id
            /\ m = IF j = Own(items, found, k)
                   THEN Record(items[k].key, found[j].id, MatchClass(items[k]))
                   ELSE Record(items[k].key, found[j].id, "duplicate")
      BY <1>2, <2>1, ClaimedOnce
    <3>2. PICK l \in Taking(items, found), i \in DOMAIN found :
            /\ i \in TakenBy(items, found, l) /\ x.row = found[i].id
            /\ x = IF i = Own(items, found, l)
                   THEN Record(items[l].key, found[i].id, MatchClass(items[l]))
                   ELSE Record(items[l].key, found[i].id, "duplicate")
      BY <1>2, <2>2, ClaimedOnce
    <3>3. i = j
      <4>1. found[i] \in R /\ found[j] \in R /\ found[i].id = found[j].id
        BY <1>1, <2>1, <2>2, <3>1, <3>2 DEF Range
      <4> QED
        BY <1>1, <4>1 DEF StoredRows, ListIs
    <3>4. k \in MeasuredAt(items) /\ l \in MeasuredAt(items)
      BY DEF Taking
    <3>5. \A a, b \in MeasuredAt(items) :
            j \in TakenBy(items, found, a) /\ j \in TakenBy(items, found, b) => a = b
      BY <1>1, OneTakes DEF MeasuredAt
    <3>6. k = l
      BY <3>1, <3>2, <3>3, <3>4, <3>5
    <3> QED
      BY <3>1, <3>2, <3>3, <3>6
  <2>3. m \in MatchFindings(items, found)
    BY MatchedIs
  <2>4. {x \in MatchFindings(items, found) : x.row = r.id} = {m}
    BY <1>3, <1>5, <2>1, <2>2, <2>3
  <2> QED
    BY <2>4
<1> QED
  BY <1>4, <1>5

LEMMA MatchClasses ==
    \A item : Measurable(item) /\ item.required \in BOOLEAN =>
        /\ MatchClass(item) \in {"true_positive", "valid_additional", "partial_positive", "partial_additional"}
        /\ MatchClass(item) = "true_positive" <=> item.support = "supported" /\ item.required
BY DEF Measurable, MatchClass

\* What becomes of a row that is left: rows with one fingerprint are one row.
LEMMA UnmatchedIs ==
    ASSUME NEW E, NEW items, NEW R, NEW found, Compared(items, E, found, R), NEW r \in R
    PROVE  Unmatched(items, found, r) =
              IF \E item \in Missed(items, found) : RelaxedMatch(item, r) THEN "matcher_failure"
              ELSE IF Informational(r) THEN "informational" ELSE "confirmed_false_positive"
<1> DEFINE S == {q \in Range(found) : \E m \in Claimed(items, found) : m.row = q.id /\ m.class # "duplicate"}
<1>1. Range(found) = R /\ \A q \in R : q.fingerprint = q.id
  BY DEF Compared, ListIs, StoredRows
<1>2. S \subseteq R
  BY <1>1
<1> HIDE DEF S
<1>3. ~DuplicateOf(r, S)
  BY <1>1, <1>2 DEF DuplicateOf
<1> QED
  BY <1>3 DEF Unmatched, UnmatchedClass, S

LEMMA ByClass ==
    ASSUME NEW E, NEW items, NEW R, NEW found, Compared(items, E, found, R), NEW m
    PROVE  /\ m \in MatchFindings(items, found) /\ m.class = "true_positive" <=>
                \E k \in Taking(items, found) :
                  /\ items[k].support = "supported" /\ items[k].required
                  /\ m = Record(items[k].key, found[Own(items, found, k)].id, "true_positive")
           /\ m \in MatchFindings(items, found) /\ m.class = "false_negative" <=>
                \E k \in MeasuredAt(items) \ Taking(items, found) :
                  /\ items[k].support = "supported" /\ items[k].required
                  /\ m = Record(items[k].key, None, "false_negative")
           /\ m \in MatchFindings(items, found) /\ m.class = "duplicate" <=>
                \E k \in Taking(items, found) :
                  \E j \in TakenBy(items, found, k) \ {Own(items, found, k)} :
                    m = Record(items[k].key, found[j].id, "duplicate")
           /\ m \in MatchFindings(items, found) /\ m.class = "confirmed_false_positive" <=>
                \E r \in Left(items, found) :
                  /\ Unmatched(items, found, r) = "confirmed_false_positive"
                  /\ m = Record(None, r.id, "confirmed_false_positive")
<1>1. /\ Left(items, found) \subseteq R
      /\ \A k \in MeasuredAt(items) : Measurable(items[k]) /\ items[k].required \in BOOLEAN
      /\ Taking(items, found) \subseteq MeasuredAt(items)
  BY DEF Left, Compared, ListIs, Expected, MeasuredAt, Taking, Range
<1>2. \A r \in Left(items, found) :
        Unmatched(items, found, r) \in {"matcher_failure", "informational", "confirmed_false_positive"}
  BY <1>1, UnmatchedIs
<1>3. \A item : MissClass(item) \in {"false_negative", "partial_negative"}
                /\ (MissClass(item) = "false_negative" <=> item.support = "supported")
  BY DEF MissClass
<1>4. \A k \in Taking(items, found) :
        /\ MatchClass(items[k]) \in {"true_positive", "valid_additional", "partial_positive", "partial_additional"}
        /\ MatchClass(items[k]) = "true_positive" <=> items[k].support = "supported" /\ items[k].required
  BY <1>1, MatchClasses
<1>5. m \in MatchFindings(items, found) <=>
        \/ \E item \in Range(items) :
             ~Measurable(item) /\ m = Record(item.key, None, "ground_truth_missing")
        \/ \E k \in Taking(items, found) :
             m = Record(items[k].key, found[Own(items, found, k)].id, MatchClass(items[k]))
        \/ \E k \in Taking(items, found) :
             \E j \in TakenBy(items, found, k) \ {Own(items, found, k)} :
               m = Record(items[k].key, found[j].id, "duplicate")
        \/ \E k \in MeasuredAt(items) \ Taking(items, found) :
             items[k].required /\ m = Record(items[k].key, None, MissClass(items[k]))
        \/ \E r \in Left(items, found) : m = Record(None, r.id, Unmatched(items, found, r))
  BY ClaimedIs, MatchedIs
<1>6. \A a, b, c : m = Record(a, b, c) => m.class = c
  BY RecordFields
<1>7. m \in MatchFindings(items, found) /\ m.class = "true_positive" <=>
        \E k \in Taking(items, found) :
          /\ items[k].support = "supported" /\ items[k].required
          /\ m = Record(items[k].key, found[Own(items, found, k)].id, "true_positive")
  BY <1>2, <1>3, <1>4, <1>5, <1>6
<1>8. m \in MatchFindings(items, found) /\ m.class = "false_negative" <=>
        \E k \in MeasuredAt(items) \ Taking(items, found) :
          /\ items[k].support = "supported" /\ items[k].required
          /\ m = Record(items[k].key, None, "false_negative")
  BY <1>2, <1>3, <1>4, <1>5, <1>6
<1>9. m \in MatchFindings(items, found) /\ m.class = "duplicate" <=>
        \E k \in Taking(items, found) :
          \E j \in TakenBy(items, found, k) \ {Own(items, found, k)} :
            m = Record(items[k].key, found[j].id, "duplicate")
  BY <1>2, <1>3, <1>4, <1>5, <1>6
<1>10. m \in MatchFindings(items, found) /\ m.class = "confirmed_false_positive" <=>
         \E r \in Left(items, found) :
           /\ Unmatched(items, found, r) = "confirmed_false_positive"
           /\ m = Record(None, r.id, "confirmed_false_positive")
  BY <1>2, <1>3, <1>4, <1>5, <1>6
<1> QED
  BY <1>7, <1>8, <1>9, <1>10

-----------------------------------------------------------------------------
(* The counts of a match.                                                  *)

FoundAt(items, found) == {k \in Taking(items, found) : items[k].support = "supported" /\ items[k].required}
LostAt(items, found) ==
    {k \in MeasuredAt(items) \ Taking(items, found) : items[k].support = "supported" /\ items[k].required}
FalseOnes(items, found) ==
    {r \in Left(items, found) : Unmatched(items, found, r) = "confirmed_false_positive"}

LEMMA Positions ==
    ASSUME NEW E, NEW items, NEW R, NEW found, Compared(items, E, found, R)
    PROVE  /\ IsFiniteSet(MeasuredAt(items)) /\ IsFiniteSet(Taking(items, found))
           /\ IsFiniteSet(FoundAt(items, found)) /\ IsFiniteSet(LostAt(items, found))
           /\ IsFiniteSet(FalseOnes(items, found)) /\ IsFiniteSet(DOMAIN found)
           /\ \A k, l \in DOMAIN items : items[k].key = items[l].key => k = l
           /\ \A i, j \in DOMAIN found : found[i].id = found[j].id => i = j
           /\ MeasuredAt(items) \subseteq DOMAIN items
<1>1. /\ ListIs(items, E) /\ ListIs(found, R) /\ Expected(E) /\ StoredRows(R)
      /\ DOMAIN items = 1..Len(items) /\ Len(items) \in Nat
      /\ DOMAIN found = 1..Len(found) /\ Len(found) \in Nat
  BY DEF Compared, ListIs
<1>2. IsFiniteSet(DOMAIN items) /\ IsFiniteSet(DOMAIN found)
  BY <1>1, FS_Interval
<1>3. /\ MeasuredAt(items) \subseteq DOMAIN items /\ Taking(items, found) \subseteq DOMAIN items
      /\ FoundAt(items, found) \subseteq DOMAIN items /\ LostAt(items, found) \subseteq DOMAIN items
  BY DEF MeasuredAt, Taking, FoundAt, LostAt
<1>4. /\ IsFiniteSet(MeasuredAt(items)) /\ IsFiniteSet(Taking(items, found))
      /\ IsFiniteSet(FoundAt(items, found)) /\ IsFiniteSet(LostAt(items, found))
  BY <1>2, <1>3, FS_Subset
<1>5. FalseOnes(items, found) \subseteq R /\ IsFiniteSet(R)
  BY <1>1 DEF FalseOnes, Left, ListIs, StoredRows
<1>6. IsFiniteSet(FalseOnes(items, found))
  BY <1>5, FS_Subset
<1>7. \A k, l \in DOMAIN items : items[k].key = items[l].key => k = l
  <2>1. \A k \in DOMAIN items : items[k] \in E
    BY <1>1 DEF ListIs
  <2> QED
    BY <1>1, <2>1 DEF ListIs, Expected
<1>8. \A i, j \in DOMAIN found : found[i].id = found[j].id => i = j
  <2>1. \A k \in DOMAIN found : found[k] \in R
    BY <1>1 DEF ListIs
  <2> QED
    BY <1>1, <2>1 DEF ListIs, StoredRows
<1> QED
  BY <1>2, <1>3, <1>4, <1>6, <1>7, <1>8

LEMMA RecordsCounted ==
    ASSUME NEW E, NEW items, NEW R, NEW found, Compared(items, E, found, R)
    PROVE  /\ CountOf(MatchFindings(items, found), "true_positive") = Cardinality(FoundAt(items, found))
           /\ CountOf(MatchFindings(items, found), "false_negative") = Cardinality(LostAt(items, found))
           /\ CountOf(MatchFindings(items, found), "confirmed_false_positive")
                = Cardinality(FalseOnes(items, found))
           /\ IsFiniteSet({m \in MatchFindings(items, found) : m.class = "confirmed_false_positive"})
           /\ RequiredCount(items, "supported")
                = Cardinality(FoundAt(items, found)) + Cardinality(LostAt(items, found))
<1> DEFINE records == MatchFindings(items, found)
           F == FoundAt(items, found)
           L == LostAt(items, found)
           C == FalseOnes(items, found)
           with(class) == {m \in records : m.class = class}
<1>1. CountOf(records, "true_positive") = Cardinality(F)
  <2> DEFINE f == [k \in F |-> Record(items[k].key, found[Own(items, found, k)].id, "true_positive")]
  <2>1. \A k \in F : f[k] \in with("true_positive")
    BY ByClass DEF FoundAt
  <2>2. \A m \in with("true_positive") : \E k \in F : f[k] = m
    BY ByClass DEF FoundAt
  <2>3. \A k, l \in F : f[k] = f[l] => k = l
    <3>1. \A k \in F : k \in DOMAIN items
      BY Positions DEF FoundAt, Taking
    <3>2. \A k \in F : f[k].item = items[k].key
      BY RecordFields
    <3> HIDE DEF F, f
    <3> QED
      BY <3>1, <3>2, Positions
  <2>4. f \in [F -> with("true_positive")]
    BY <2>1
  <2>5. IsFiniteSet(F)
    BY Positions
  <2> HIDE DEF F, f, with
  <2>6. Cardinality(with("true_positive")) = Cardinality(F)
    BY <2>2, <2>3, <2>4, <2>5, SameSize
  <2> QED
    BY <2>6 DEF CountOf, with
<1>2. CountOf(records, "false_negative") = Cardinality(L)
  <2> DEFINE f == [k \in L |-> Record(items[k].key, None, "false_negative")]
  <2>1. \A k \in L : f[k] \in with("false_negative")
    BY ByClass DEF LostAt
  <2>2. \A m \in with("false_negative") : \E k \in L : f[k] = m
    BY ByClass DEF LostAt
  <2>3. \A k, l \in L : f[k] = f[l] => k = l
    <3>1. \A k \in L : k \in DOMAIN items
      BY Positions DEF LostAt
    <3>2. \A k \in L : f[k].item = items[k].key
      BY RecordFields
    <3> HIDE DEF L, f
    <3> QED
      BY <3>1, <3>2, Positions
  <2>4. f \in [L -> with("false_negative")]
    BY <2>1
  <2>5. IsFiniteSet(L)
    BY Positions
  <2> HIDE DEF L, f, with
  <2>6. Cardinality(with("false_negative")) = Cardinality(L)
    BY <2>2, <2>3, <2>4, <2>5, SameSize
  <2> QED
    BY <2>6 DEF CountOf, with
<1>3. /\ CountOf(records, "confirmed_false_positive") = Cardinality(C)
      /\ IsFiniteSet(with("confirmed_false_positive"))
  <2> DEFINE f == [r \in C |-> Record(None, r.id, "confirmed_false_positive")]
  <2>1. \A r \in C : f[r] \in with("confirmed_false_positive")
    BY ByClass DEF FalseOnes
  <2>2. \A m \in with("confirmed_false_positive") : \E r \in C : f[r] = m
    BY ByClass DEF FalseOnes
  <2>3. \A q, r \in C : f[q] = f[r] => q = r
    <3>1. C \subseteq R /\ \A q, r \in R : q.id = r.id => q = r
      BY DEF FalseOnes, Left, Compared, ListIs, StoredRows
    <3> QED
      BY <3>1, RecordFields
  <2>4. f \in [C -> with("confirmed_false_positive")]
    BY <2>1
  <2>5. IsFiniteSet(C)
    BY Positions
  <2> HIDE DEF C, f, with
  <2>6. /\ Cardinality(with("confirmed_false_positive")) = Cardinality(C)
        /\ IsFiniteSet(with("confirmed_false_positive"))
    BY <2>2, <2>3, <2>4, <2>5, SameSize
  <2> QED
    BY <2>6 DEF CountOf, with
<1>4. RequiredCount(items, "supported") = Cardinality(F) + Cardinality(L)
  <2> DEFINE P == F \cup L
             T == {item \in Range(items) : item.support = "supported" /\ item.required}
             f == [k \in P |-> items[k]]
  <2>1. IsFiniteSet(F) /\ IsFiniteSet(L) /\ F \cap L = {}
    BY Positions DEF FoundAt, LostAt
  <2>2. IsFiniteSet(P) /\ Cardinality(P) = Cardinality(F) + Cardinality(L)
    <3> HIDE DEF F, L
    <3>1. IsFiniteSet(F \cup L) /\ Cardinality(F \cup L) = Cardinality(F) + Cardinality(L) - Cardinality(F \cap L)
      BY <2>1, FS_Union
    <3>2. Cardinality(F \cap L) = 0
      BY <2>1, FS_EmptySet
    <3>3. Cardinality(F) \in Nat /\ Cardinality(L) \in Nat
      BY <2>1, FS_CardinalityType
    <3> QED
      BY <3>1, <3>2, <3>3
  <2>3. P = {k \in DOMAIN items : items[k].support = "supported" /\ items[k].required}
    BY DEF FoundAt, LostAt, MeasuredAt, Measurable, Taking
  <2>4. f \in [P -> T] /\ \A t \in T : \E k \in P : f[k] = t
    BY <2>3 DEF Range
  <2>5. \A k, l \in P : f[k] = f[l] => k = l
    BY <2>3, Positions
  <2> HIDE DEF P, T, f
  <2>6. Cardinality(T) = Cardinality(P)
    BY <2>2, <2>4, <2>5, SameSize
  <2> QED
    BY <2>2, <2>6 DEF RequiredCount, T
<1> QED
  BY <1>1, <1>2, <1>3, <1>4

Permille == 0..1000

LEMMA RatioType ==
    \A part, whole \in Nat :
        \A otherwise \in Permille : part <= whole => Ratio(part, whole, otherwise) \in Permille
<1> SUFFICES ASSUME NEW part \in Nat, NEW whole \in Nat, NEW otherwise \in 0..1000, part <= whole
             PROVE  Ratio(part, whole, otherwise) \in 0..1000
  BY DEF Permille
<1>1. CASE whole = 0
  BY <1>1 DEF Ratio
<1>2. CASE whole # 0
  <2> DEFINE q == (1000 * part) \div whole
  <2>1. q \in Nat /\ whole * q <= 1000 * part
    BY <1>2, QuotientOf, 1000 * part \in Nat, whole > 0
  <2>2. ~(q >= 1001)
    <3> SUFFICES ASSUME q >= 1001 PROVE FALSE
      OBVIOUS
    <3> HIDE DEF q
    <3>1. whole * 1001 <= whole * q
      BY <2>1, TimesOrder, 1001 \in Nat, 1001 <= q
    <3>2. whole * 1001 = 1000 * whole + whole
      OBVIOUS
    <3> QED
      BY <1>2, <2>1, <3>1, <3>2
  <2> QED
    BY <1>2, <2>1, <2>2 DEF Ratio
<1> QED
  BY <1>1, <1>2

-----------------------------------------------------------------------------
(* Every row in one record, in the result and in its blind evaluation.     *)

LEMMA AreRecords ==
    ASSUME NEW items, NEW found
    PROVE  \A m \in MatchFindings(items, found) : m = Record(m.item, m.row, m.class)
<1> SUFFICES ASSUME NEW m \in MatchFindings(items, found) PROVE \E a, b, c : m = Record(a, b, c)
  BY RecordFields
<1> QED
  BY MatchedIs, ClaimedIs

\* Only the class of a record changes in the blind evaluation, and only from a false finding.
Reclassed(items, found, m) ==
    IF m.class # "confirmed_false_positive" THEN m
    ELSE [m EXCEPT !.class = BlindClass(CHOOSE r \in Range(found) : r.id = m.row,
                                        {item.key : item \in Range(items)})]

LEMMA BlindIs ==
    ASSUME NEW items, NEW found
    PROVE  /\ BlindRecords(items, found) = {Reclassed(items, found, m) : m \in MatchFindings(items, found)}
           /\ \A m \in MatchFindings(items, found) :
                /\ Reclassed(items, found, m).row = m.row
                /\ m.class # "confirmed_false_positive" => Reclassed(items, found, m) = m
                /\ m.class = "confirmed_false_positive" =>
                     /\ Reclassed(items, found, m).class
                          \in {"informational", "valid_additional", "confirmed_false_positive"}
                     /\ Reclassed(items, found, m).class = m.class => Reclassed(items, found, m) = m
<1>1. BlindRecords(items, found) = {Reclassed(items, found, m) : m \in MatchFindings(items, found)}
  BY DEF BlindRecords, Reclassed
<1>2. ASSUME NEW m \in MatchFindings(items, found), m.class = "confirmed_false_positive"
      PROVE  \E c \in {"informational", "valid_additional", "confirmed_false_positive"} :
                Reclassed(items, found, m) = Record(m.item, m.row, c)
  <2> DEFINE c == BlindClass(CHOOSE r \in Range(found) : r.id = m.row,
                             {item.key : item \in Range(items)})
  <2>1. c \in {"informational", "valid_additional", "confirmed_false_positive"}
    BY DEF BlindClass
  <2>2. Reclassed(items, found, m) = [m EXCEPT !.class = c]
    BY <1>2 DEF Reclassed
  <2> HIDE DEF c
  <2>3. m = [item |-> m.item, row |-> m.row, class |-> m.class]
    BY AreRecords DEF Record
  <2>4. [m EXCEPT !.class = c] = [item |-> m.item, row |-> m.row, class |-> c]
    BY <2>3
  <2> QED
    BY <2>1, <2>2, <2>4 DEF Record
<1>3. ASSUME NEW m \in MatchFindings(items, found), m.class # "confirmed_false_positive"
      PROVE  Reclassed(items, found, m) = m
  BY <1>3 DEF Reclassed
<1>4. ASSUME NEW m \in MatchFindings(items, found)
      PROVE  m = Record(m.item, m.row, m.class)
  BY AreRecords
<1> QED
  BY <1>1, <1>2, <1>3, <1>4, RecordFields

LEMMA BlindOnce ==
    ASSUME NEW E, NEW items, NEW R, NEW found, Compared(items, E, found, R), NEW r \in R
    PROVE  \E m : {x \in BlindRecords(items, found) : x.row = r.id} = {m}
<1>1. PICK m : {x \in MatchFindings(items, found) : x.row = r.id} = {m}
  BY JudgedInOne
<1>2. m \in MatchFindings(items, found) /\ m.row = r.id
      /\ \A x \in MatchFindings(items, found) : x.row = r.id => x = m
  BY <1>1
<1>3. {x \in BlindRecords(items, found) : x.row = r.id} = {Reclassed(items, found, m)}
  BY <1>2, BlindIs
<1> QED
  BY <1>3

LEMMA BlindCounts ==
    ASSUME NEW E, NEW items, NEW R, NEW found, Compared(items, E, found, R)
    PROVE  LET strict == MatchFindings(items, found)
               blind == BlindRecords(items, found)
           IN  /\ CountOf(blind, "true_positive") = CountOf(strict, "true_positive")
               /\ CountOf(blind, "false_negative") = CountOf(strict, "false_negative")
               /\ CountOf(blind, "confirmed_false_positive") <= CountOf(strict, "confirmed_false_positive")
<1> DEFINE strict == MatchFindings(items, found)
           blind == BlindRecords(items, found)
<1>1. ASSUME NEW c \in {"true_positive", "false_negative"}
      PROVE  {m \in blind : m.class = c} = {m \in strict : m.class = c}
  <2>1. ASSUME NEW m \in strict, m.class = c PROVE m \in blind
    BY <2>1, BlindIs
  <2>2. ASSUME NEW x \in blind, x.class = c PROVE x \in strict
    <3>1. PICK m \in strict : x = Reclassed(items, found, m)
      BY BlindIs
    <3> QED
      BY <2>2, <3>1, BlindIs
  <2> QED
    BY <2>1, <2>2
<1>2. ASSUME NEW x \in blind, x.class = "confirmed_false_positive" PROVE x \in strict
  <2>1. PICK m \in strict : x = Reclassed(items, found, m)
    BY BlindIs
  <2> QED
    BY <1>2, <2>1, BlindIs
<1>3. {m \in blind : m.class = "confirmed_false_positive"} \subseteq {m \in strict : m.class = "confirmed_false_positive"}
  BY <1>2
<1>4. IsFiniteSet({m \in strict : m.class = "confirmed_false_positive"})
  BY RecordsCounted
<1>5. CountOf(blind, "confirmed_false_positive") <= CountOf(strict, "confirmed_false_positive")
  BY <1>3, <1>4, FS_Subset DEF CountOf
<1> QED
  BY <1>1, <1>5 DEF CountOf

LEMMA MeasuredFields ==
    ASSUME NEW items, NEW records
    PROVE  LET m == Metrics(items, records)
               tp == CountOf(records, "true_positive")
               required == RequiredCount(items, "supported")
           IN  /\ m.tp = tp /\ m.fn = CountOf(records, "false_negative") /\ m.expected = required
               /\ m.duplicates = CountOf(records, "duplicate")
               /\ m.confirmed = CountOf(records, "confirmed_false_positive")
               /\ m.recall = Ratio(tp, required, 1000)
               /\ m.precision = Ratio(tp, tp + CountOf(records, "confirmed_false_positive"), 0)
               /\ [m EXCEPT !.legacy = m.confirmed + m.additional].tp = m.tp
               /\ [m EXCEPT !.legacy = m.confirmed + m.additional].fn = m.fn
               /\ [m EXCEPT !.legacy = m.confirmed + m.additional].expected = m.expected
BY DEF Metrics

\* What the result of a run and its blind evaluation share.
LEMMA Settled ==
    ASSUME NEW E, NEW items, NEW R, NEW found, Compared(items, E, found, R)
    PROVE  LET records == MatchFindings(items, found)
               blind == BlindRecords(items, found)
               m == Metrics(items, records)
               b == BlindMetrics(items, found)
           IN  /\ \A r \in R : Cardinality({x \in records : x.row = r.id}) = 1
               /\ \A r \in R : Cardinality({x \in blind : x.row = r.id}) = 1
               /\ m.tp + m.fn = m.expected /\ b.tp + b.fn = b.expected
               /\ m.recall \in Permille /\ m.precision \in Permille
<1> DEFINE records == MatchFindings(items, found)
           blind == BlindRecords(items, found)
           m == Metrics(items, records)
           b == BlindMetrics(items, found)
           tp == Cardinality(FoundAt(items, found))
           fn == Cardinality(LostAt(items, found))
           cp == Cardinality(FalseOnes(items, found))
<1>1. ASSUME NEW r \in R PROVE Cardinality({x \in records : x.row = r.id}) = 1
  <2>1. PICK c : {x \in records : x.row = r.id} = {c}
    BY JudgedInOne
  <2> QED
    BY <2>1, FS_Singleton
<1>2. ASSUME NEW r \in R PROVE Cardinality({x \in blind : x.row = r.id}) = 1
  <2>1. PICK c : {x \in blind : x.row = r.id} = {c}
    BY BlindOnce
  <2> QED
    BY <2>1, FS_Singleton
<1>3. tp \in Nat /\ fn \in Nat /\ cp \in Nat
  BY Positions, FS_CardinalityType
<1> HIDE DEF blind, m, b
<1>4. /\ CountOf(records, "true_positive") = tp /\ CountOf(records, "false_negative") = fn
      /\ CountOf(records, "confirmed_false_positive") = cp
      /\ RequiredCount(items, "supported") = tp + fn
  <2>1. CountOf(records, "true_positive") = tp
    BY RecordsCounted, ZenonT(30)
  <2>2. CountOf(records, "false_negative") = fn
    BY RecordsCounted, ZenonT(30)
  <2>3. CountOf(records, "confirmed_false_positive") = cp
    BY RecordsCounted
  <2>4. RequiredCount(items, "supported") = tp + fn
    BY RecordsCounted, ZenonT(30)
  <2> QED
    BY <2>1, <2>2, <2>3, <2>4
<1> HIDE DEF tp, fn, cp
<1>5. /\ m.tp = tp /\ m.fn = fn /\ m.expected = tp + fn
      /\ m.recall = Ratio(tp, tp + fn, 1000) /\ m.precision = Ratio(tp, tp + cp, 0)
  BY <1>4, MeasuredFields DEF m
<1>8. b.tp = tp /\ b.fn = fn /\ b.expected = tp + fn
  <2>1. CountOf(blind, "true_positive") = tp /\ CountOf(blind, "false_negative") = fn
    BY <1>4, BlindCounts DEF blind
  <2> HIDE DEF records
  <2>2. blind = BlindRecords(items, found)
    BY DEF blind
  <2> QED
    BY <1>4, <2>1, <2>2, MeasuredFields DEF BlindMetrics, b
<1> HIDE DEF records
<1>6. m.recall \in Permille /\ m.precision \in Permille
  <2>1. /\ tp + fn \in Nat /\ tp <= tp + fn /\ tp + cp \in Nat /\ tp <= tp + cp
        /\ 0 \in Permille /\ 1000 \in Permille
    BY <1>3 DEF Permille
  <2>2. Ratio(tp, tp + fn, 1000) \in Permille
    BY <1>3, <2>1, RatioType
  <2>3. Ratio(tp, tp + cp, 0) \in Permille
    BY <1>3, <2>1, RatioType
  <2> QED
    BY <1>5, <2>2, <2>3
<1>7. m.tp + m.fn = m.expected /\ b.tp + b.fn = b.expected
  BY <1>3, <1>5, <1>8
<1> QED
  BY <1>1, <1>2, <1>6, <1>7, SMTT(30) DEF records, blind, m, b

-----------------------------------------------------------------------------
(* The documented counts, when no row is accepted by two expected items.   *)

MeasurableOf(E) == {i \in E : Measurable(i)}
AcceptedFrom(R, item) == {r \in R : Matches(item, r)}
OnceAccepted(E, R) ==
    \A i, j \in MeasurableOf(E) : i # j => AcceptedFrom(R, i) \cap AcceptedFrom(R, j) = {}
FoundOf(E, R) == {i \in MeasurableOf(E) : AcceptedFrom(R, i) # {}}
RequiredOf(E) == {i \in MeasurableOf(E) : i.support = "supported" /\ i.required}

LEMMA TakenAll ==
    ASSUME NEW E, NEW items, NEW R, NEW found, Compared(items, E, found, R), OnceAccepted(E, R),
           NEW k \in MeasuredAt(items)
    PROVE  TakenBy(items, found, k) = {j \in DOMAIN found : Matches(items[k], found[j])}
<1>1. /\ DOMAIN items = 1..Len(items) /\ Len(items) \in Nat
      /\ \A l \in DOMAIN items : items[l] \in E
      /\ \A l, n \in DOMAIN items : items[l] = items[n] => l = n
      /\ \A j \in DOMAIN found : found[j] \in R
  BY DEF Compared, ListIs
<1>2. k \in DOMAIN items /\ Measurable(items[k])
  BY DEF MeasuredAt
<1>3. ASSUME NEW j \in DOMAIN found, Matches(items[k], found[j]), NEW l \in 1..(k - 1),
             Measurable(items[l]), Matches(items[l], found[j])
      PROVE  FALSE
  <2>1. l \in DOMAIN items /\ l # k
    BY <1>1, <1>2
  <2>2. items[l] \in MeasurableOf(E) /\ items[k] \in MeasurableOf(E) /\ items[l] # items[k]
    BY <1>1, <1>2, <1>3, <2>1 DEF MeasurableOf
  <2>3. found[j] \in AcceptedFrom(R, items[l]) /\ found[j] \in AcceptedFrom(R, items[k])
    BY <1>1, <1>3 DEF AcceptedFrom
  <2> QED
    BY <2>2, <2>3 DEF OnceAccepted
<1> QED
  BY <1>3 DEF TakenBy

LEMMA TakingIs ==
    ASSUME NEW E, NEW items, NEW R, NEW found, Compared(items, E, found, R), OnceAccepted(E, R),
           NEW k \in MeasuredAt(items)
    PROVE  k \in Taking(items, found) <=> items[k] \in FoundOf(E, R)
<1>1. \A l \in DOMAIN items : items[l] \in E
  BY DEF Compared, ListIs
<1>2. R = {found[j] : j \in DOMAIN found}
  BY DEF Compared, ListIs, Range
<1>3. items[k] \in MeasurableOf(E)
  BY <1>1 DEF MeasuredAt, MeasurableOf
<1>4. k \in Taking(items, found) <=> \E j \in DOMAIN found : Matches(items[k], found[j])
  BY TakenAll DEF Taking
<1>5. items[k] \in FoundOf(E, R) <=> \E r \in R : Matches(items[k], r)
  BY <1>3 DEF FoundOf, AcceptedFrom
<1> QED
  BY <1>2, <1>4, <1>5

LEMMA ItemsAt ==
    ASSUME NEW E, NEW items, ListIs(items, E), NEW K \in SUBSET DOMAIN items, IsFiniteSet(K),
           NEW I, \A i \in I : i \in E, \A k \in DOMAIN items : k \in K <=> items[k] \in I
    PROVE  IsFiniteSet(I) /\ Cardinality(I) = Cardinality(K)
<1> DEFINE f == [k \in K |-> items[k]]
<1>1. f \in [K -> I]
  OBVIOUS
<1>2. \A i \in I : \E k \in K : f[k] = i
  BY DEF ListIs, Range
<1>3. \A k, l \in K : f[k] = f[l] => k = l
  BY DEF ListIs
<1> HIDE DEF f
<1> QED
  BY <1>1, <1>2, <1>3, SameSize

RequiredFound(E, R) == RequiredOf(E) \cap FoundOf(E, R)

LEMMA ItemCounts ==
    ASSUME NEW E, NEW items, NEW R, NEW found, Compared(items, E, found, R), OnceAccepted(E, R)
    PROVE  /\ Cardinality(FoundAt(items, found)) = Cardinality(RequiredFound(E, R))
           /\ Cardinality(LostAt(items, found)) = Cardinality(RequiredOf(E) \ FoundOf(E, R))
           /\ Cardinality(Taking(items, found)) = Cardinality(FoundOf(E, R))
           /\ Missed(items, found) = RequiredOf(E) \ FoundOf(E, R)
<1>1. ListIs(items, E) /\ \A l \in DOMAIN items : items[l] \in E
  BY DEF Compared, ListIs
<1>2. \A k \in DOMAIN items : k \in MeasuredAt(items) <=> items[k] \in MeasurableOf(E)
  BY <1>1 DEF MeasuredAt, MeasurableOf
<1>3. \A k \in DOMAIN items : k \in Taking(items, found) <=> items[k] \in FoundOf(E, R)
  BY <1>2, TakingIs DEF Taking, FoundOf
<1>4. \A k \in DOMAIN items : k \in FoundAt(items, found) <=> items[k] \in RequiredOf(E) \cap FoundOf(E, R)
  BY <1>2, <1>3 DEF FoundAt, RequiredOf, FoundOf
<1>5. \A k \in DOMAIN items : k \in LostAt(items, found) <=> items[k] \in RequiredOf(E) \ FoundOf(E, R)
  BY <1>2, <1>3 DEF LostAt, RequiredOf
<1>6. /\ Taking(items, found) \subseteq DOMAIN items /\ FoundAt(items, found) \subseteq DOMAIN items
      /\ LostAt(items, found) \subseteq DOMAIN items
  BY DEF Taking, FoundAt, LostAt, MeasuredAt
<1>7. /\ \A i \in FoundOf(E, R) : i \in E
      /\ \A i \in RequiredOf(E) \cap FoundOf(E, R) : i \in E
      /\ \A i \in RequiredOf(E) \ FoundOf(E, R) : i \in E
  BY DEF FoundOf, RequiredOf, MeasurableOf
<1>8. /\ IsFiniteSet(Taking(items, found)) /\ IsFiniteSet(FoundAt(items, found))
      /\ IsFiniteSet(LostAt(items, found))
  BY Positions
<1>9. Cardinality(FoundAt(items, found)) = Cardinality(RequiredFound(E, R))
  BY <1>1, <1>4, <1>6, <1>7, <1>8, ItemsAt DEF RequiredFound
<1>10. Cardinality(LostAt(items, found)) = Cardinality(RequiredOf(E) \ FoundOf(E, R))
  BY <1>1, <1>5, <1>6, <1>7, <1>8, ItemsAt
<1>11. Cardinality(Taking(items, found)) = Cardinality(FoundOf(E, R))
  BY <1>1, <1>3, <1>6, <1>7, <1>8, ItemsAt
<1>12. Missed(items, found) = RequiredOf(E) \ FoundOf(E, R)
  <2>1. \A k \in DOMAIN items : items[k] \in Missed(items, found) <=> k \in LostAt(items, found)
    BY MissedIs DEF LostAt
  <2>2. Missed(items, found) \subseteq Range(items) /\ Range(items) = E
    BY <1>1 DEF Missed, ListIs
  <2>3. \A i \in E : \E k \in DOMAIN items : items[k] = i
    BY <1>1 DEF ListIs, Range
  <2> QED
    BY <1>5, <1>7, <2>1, <2>2, <2>3
<1> QED
  BY <1>9, <1>10, <1>11, <1>12

LEMMA FalseOnesAre ==
    ASSUME NEW E, NEW items, NEW R, NEW found, Compared(items, E, found, R), OnceAccepted(E, R)
    PROVE  FalseOnes(items, found) =
             {r \in R : /\ \A i \in MeasurableOf(E) : ~Matches(i, r)
                        /\ ~(\E i \in RequiredOf(E) \ FoundOf(E, R) : RelaxedMatch(i, r))
                        /\ ~Informational(r)}
<1>1. Left(items, found) = {r \in R : \A item \in E : Measurable(item) => ~Matches(item, r)}
  BY LeftIs
<1>2. \A r \in R : Unmatched(items, found, r) = "confirmed_false_positive" <=>
         /\ ~(\E i \in RequiredOf(E) \ FoundOf(E, R) : RelaxedMatch(i, r))
         /\ ~Informational(r)
  <2> SUFFICES ASSUME NEW r \in R
               PROVE  Unmatched(items, found, r) = "confirmed_false_positive" <=>
                        /\ ~(\E i \in RequiredOf(E) \ FoundOf(E, R) : RelaxedMatch(i, r))
                        /\ ~Informational(r)
    OBVIOUS
  <2>1. Missed(items, found) = RequiredOf(E) \ FoundOf(E, R)
    BY ItemCounts
  <2>2. Unmatched(items, found, r) =
          IF \E item \in Missed(items, found) : RelaxedMatch(item, r) THEN "matcher_failure"
          ELSE IF Informational(r) THEN "informational" ELSE "confirmed_false_positive"
    BY UnmatchedIs
  <2> QED
    BY <2>1, <2>2
<1> QED
  BY <1>1, <1>2 DEF FalseOnes, MeasurableOf

\* The positions of the rows that are accepted, and those of the rows that are the items' own.
AcceptedAt(items, found) == {j \in DOMAIN found : \E k \in MeasuredAt(items) : Matches(items[k], found[j])}
OwnPositions(items, found) == {Own(items, found, k) : k \in Taking(items, found)}

LEMMA OwnCount ==
    ASSUME NEW E, NEW items, NEW R, NEW found, Compared(items, E, found, R), OnceAccepted(E, R)
    PROVE  /\ OwnPositions(items, found) \subseteq AcceptedAt(items, found)
           /\ Cardinality(OwnPositions(items, found)) = Cardinality(Taking(items, found))
<1> DEFINE K == Taking(items, found)
           f == [k \in K |-> Own(items, found, k)]
<1>1. ListIs(found, R) /\ ListIs(items, E)
  BY DEF Compared
<1>2. \A k \in K : /\ k \in MeasuredAt(items)
                   /\ Own(items, found, k) \in DOMAIN found
                   /\ Own(items, found, k) \in TakenBy(items, found, k)
  BY <1>1, OwnTaken DEF Taking
<1>3. \A k \in K : Own(items, found, k) \in AcceptedAt(items, found)
  BY <1>2 DEF AcceptedAt, TakenBy
<1>4. \A k, l \in K : Own(items, found, k) = Own(items, found, l) => k = l
  <2> SUFFICES ASSUME NEW k \in K, NEW l \in K, Own(items, found, k) = Own(items, found, l)
               PROVE  k = l
    OBVIOUS
  <2> QED
    BY <1>1, <1>2, OneTakes DEF MeasuredAt
<1>5. IsFiniteSet(K)
  BY Positions
<1> HIDE DEF K
<1>6. f \in [K -> OwnPositions(items, found)] /\ \A p \in OwnPositions(items, found) : \E k \in K : f[k] = p
  BY DEF OwnPositions, K
<1>7. \A k, l \in K : f[k] = f[l] => k = l
  BY <1>4
<1> HIDE DEF f
<1>8. Cardinality(OwnPositions(items, found)) = Cardinality(K)
  BY <1>5, <1>6, <1>7, SameSize
<1> QED
  BY <1>3, <1>8 DEF OwnPositions, K

LEMMA DuplicateCount ==
    ASSUME NEW E, NEW items, NEW R, NEW found, Compared(items, E, found, R), OnceAccepted(E, R)
    PROVE  CountOf(MatchFindings(items, found), "duplicate")
             = Cardinality({r \in R : \E i \in MeasurableOf(E) : Matches(i, r)}) - Cardinality(FoundOf(E, R))
<1> DEFINE A == AcceptedAt(items, found)
           O == OwnPositions(items, found)
           D == A \ O
           all == {r \in R : \E i \in MeasurableOf(E) : Matches(i, r)}
           dups == {m \in MatchFindings(items, found) : m.class = "duplicate"}
<1>1. /\ ListIs(found, R) /\ ListIs(items, E) /\ R = {found[j] : j \in DOMAIN found}
      /\ E = {items[k] : k \in DOMAIN items}
  BY DEF Compared, ListIs, Range
<1>2. IsFiniteSet(A)
  BY Positions, FS_Subset DEF AcceptedAt
<1>3. Cardinality(all) = Cardinality(A)
  <2> DEFINE f == [j \in A |-> found[j]]
  <2>1. \A j \in A : found[j] \in all
    BY <1>1 DEF AcceptedAt, MeasuredAt, MeasurableOf
  <2>2. \A r \in all : \E j \in A : found[j] = r
    <3> SUFFICES ASSUME NEW r \in all PROVE \E j \in A : found[j] = r
      OBVIOUS
    <3>1. PICK j \in DOMAIN found : found[j] = r
      BY <1>1
    <3>2. PICK i \in MeasurableOf(E) : Matches(i, r)
      OBVIOUS
    <3>3. PICK k \in DOMAIN items : items[k] = i
      BY <1>1, <3>2 DEF MeasurableOf
    <3> QED
      BY <3>1, <3>2, <3>3 DEF AcceptedAt, MeasuredAt, MeasurableOf
  <2>3. \A i, j \in A : found[i] = found[j] => i = j
    BY <1>1 DEF AcceptedAt, ListIs
  <2> HIDE DEF A, all
  <2>4. f \in [A -> all] /\ \A r \in all : \E j \in A : f[j] = r
    BY <2>1, <2>2
  <2>5. \A i, j \in A : f[i] = f[j] => i = j
    BY <2>3
  <2> HIDE DEF f
  <2> QED
    BY <1>2, <2>4, <2>5, SameSize
<1>4. Cardinality(O) = Cardinality(FoundOf(E, R)) /\ O \subseteq A
  <2>1. O \subseteq A /\ Cardinality(O) = Cardinality(Taking(items, found))
    BY OwnCount
  <2>2. Cardinality(Taking(items, found)) = Cardinality(FoundOf(E, R))
    BY ItemCounts, ZenonT(30)
  <2> QED
    BY <2>1, <2>2
<1>5. IsFiniteSet(D) /\ Cardinality(D) = Cardinality(A) - Cardinality(O)
  <2> HIDE DEF A, O
  <2>1. A \cap O = O
    BY <1>4
  <2>2. IsFiniteSet(A \ O) /\ Cardinality(A \ O) = Cardinality(A) - Cardinality(A \cap O)
    BY <1>2, FS_Difference
  <2> QED
    BY <2>1, <2>2
<1>6. \A j \in D : \E k \in Taking(items, found) : j \in TakenBy(items, found, k) /\ j # Own(items, found, k)
  <2> SUFFICES ASSUME NEW j \in D
               PROVE  \E k \in Taking(items, found) : j \in TakenBy(items, found, k) /\ j # Own(items, found, k)
    OBVIOUS
  <2>1. PICK k \in MeasuredAt(items) : Matches(items[k], found[j])
    BY DEF AcceptedAt
  <2>2. j \in TakenBy(items, found, k)
    BY <2>1, TakenAll DEF AcceptedAt
  <2>3. k \in Taking(items, found)
    BY <2>2 DEF Taking
  <2> QED
    BY <2>2, <2>3 DEF OwnPositions
<1>7. \A k \in Taking(items, found) : \A j \in TakenBy(items, found, k) \ {Own(items, found, k)} : j \in D
  <2> SUFFICES ASSUME NEW k \in Taking(items, found), NEW j \in TakenBy(items, found, k), j # Own(items, found, k)
               PROVE  j \in A /\ j \notin O
    OBVIOUS
  <2>1. j \in A
    BY DEF AcceptedAt, TakenBy, Taking
  <2>2. ASSUME NEW l \in Taking(items, found), j = Own(items, found, l) PROVE FALSE
    <3>1. j \in TakenBy(items, found, l)
      BY <1>1, <2>2, OwnTaken
    <3>2. j \in DOMAIN found /\ k \in DOMAIN items /\ l \in DOMAIN items /\ Measurable(items[k]) /\ Measurable(items[l])
      BY DEF TakenBy, Taking, MeasuredAt
    <3>3. k = l
      BY <1>1, <3>1, <3>2, OneTakes
    <3> QED
      BY <2>2, <3>3
  <2> QED
    BY <2>1, <2>2 DEF OwnPositions
<1>8. Cardinality(dups) = Cardinality(D)
  <2> DEFINE taker(j) == CHOOSE k \in Taking(items, found) :
                           j \in TakenBy(items, found, k) /\ j # Own(items, found, k)
             f == [j \in D |-> Record(items[taker(j)].key, found[j].id, "duplicate")]
  <2>1. \A j \in D : /\ taker(j) \in Taking(items, found)
                     /\ j \in TakenBy(items, found, taker(j)) \ {Own(items, found, taker(j))}
    BY <1>6
  <2> HIDE DEF taker, D
  <2>2. \A j \in D : f[j] \in dups
    BY <2>1, ByClass
  <2>3. \A m \in dups : \E j \in D : f[j] = m
    <3> SUFFICES ASSUME NEW m \in dups PROVE \E j \in D : f[j] = m
      OBVIOUS
    <3>1. PICK k \in Taking(items, found) : \E j \in TakenBy(items, found, k) \ {Own(items, found, k)} :
            m = Record(items[k].key, found[j].id, "duplicate")
      BY ByClass
    <3>2. PICK j \in TakenBy(items, found, k) \ {Own(items, found, k)} :
            m = Record(items[k].key, found[j].id, "duplicate")
      BY <3>1
    <3>3. j \in D
      BY <1>7
    <3>4. taker(j) \in Taking(items, found) /\ j \in TakenBy(items, found, taker(j))
      BY <2>1, <3>3
    <3>5. j \in DOMAIN found /\ k \in DOMAIN items /\ Measurable(items[k])
          /\ taker(j) \in DOMAIN items /\ Measurable(items[taker(j)])
      BY <3>4 DEF TakenBy, Taking, MeasuredAt
    <3>6. taker(j) = k
      BY <1>1, <3>4, <3>5, OneTakes
    <3> QED
      BY <3>2, <3>3, <3>6
  <2>4. \A i, j \in D : f[i] = f[j] => i = j
    <3>1. \A j \in D : j \in DOMAIN found
      BY DEF D, AcceptedAt
    <3>2. \A j \in D : f[j].row = found[j].id
      BY RecordFields
    <3> HIDE DEF f
    <3> QED
      BY <3>1, <3>2, Positions
  <2>5. f \in [D -> dups]
    BY <2>2
  <2> HIDE DEF f, dups
  <2> QED
    BY <1>5, <2>3, <2>4, <2>5, SameSize
<1> QED
  BY <1>3, <1>4, <1>5, <1>8 DEF CountOf

Untaken(E, R) == {r \in R : \A i \in MeasurableOf(E) : ~Matches(i, r)}
ConfirmedOf(E, R) ==
    {r \in Untaken(E, R) : /\ ~(\E i \in RequiredOf(E) \ FoundOf(E, R) : RelaxedMatch(i, r))
                           /\ ~Informational(r)}

\* The counts of a match are the documented ones, in whichever order the tables are read.
LEMMA Documented ==
    ASSUME NEW E, NEW items, NEW R, NEW found, Compared(items, E, found, R), OnceAccepted(E, R)
    PROVE  LET m == Metrics(items, MatchFindings(items, found))
           IN  /\ m.tp = Cardinality(RequiredFound(E, R))
               /\ m.fn = Cardinality(RequiredOf(E) \ FoundOf(E, R))
               /\ m.duplicates = Cardinality(R \ Untaken(E, R)) - Cardinality(FoundOf(E, R))
               /\ m.confirmed = Cardinality(ConfirmedOf(E, R))
<1> DEFINE records == MatchFindings(items, found)
           m == Metrics(items, records)
           other == Untaken(E, R)
           false == ConfirmedOf(E, R)
<1>1. /\ m.tp = CountOf(records, "true_positive") /\ m.fn = CountOf(records, "false_negative")
      /\ m.duplicates = CountOf(records, "duplicate")
      /\ m.confirmed = CountOf(records, "confirmed_false_positive")
  BY MeasuredFields
<1>2. CountOf(records, "true_positive") = Cardinality(FoundAt(items, found))
  BY RecordsCounted, ZenonT(30)
<1>3. CountOf(records, "false_negative") = Cardinality(LostAt(items, found))
  BY RecordsCounted
<1>4. CountOf(records, "confirmed_false_positive") = Cardinality(FalseOnes(items, found))
  BY RecordsCounted
<1>5. CountOf(records, "duplicate")
        = Cardinality({r \in R : \E i \in MeasurableOf(E) : Matches(i, r)}) - Cardinality(FoundOf(E, R))
  BY DuplicateCount
<1>6. {r \in R : \E i \in MeasurableOf(E) : Matches(i, r)} = R \ other
  BY DEF Untaken
<1>7. FalseOnes(items, found) = false
  BY FalseOnesAre DEF ConfirmedOf, Untaken
<1> HIDE DEF m, records, other, false
<1>8. Cardinality(FoundAt(items, found)) = Cardinality(RequiredFound(E, R))
  BY ItemCounts, ZenonT(30)
<1>9. Cardinality(LostAt(items, found)) = Cardinality(RequiredOf(E) \ FoundOf(E, R))
  BY ItemCounts, SMTT(30)
<1>10. m.tp = Cardinality(RequiredFound(E, R)) /\ m.fn = Cardinality(RequiredOf(E) \ FoundOf(E, R))
  BY <1>1, <1>2, <1>3, <1>8, <1>9
<1>11. m.duplicates = Cardinality(R \ other) - Cardinality(FoundOf(E, R))
  BY <1>1, <1>5, <1>6
<1>12. m.confirmed = Cardinality(false)
  BY <1>1, <1>4, <1>7
<1> QED
  BY <1>10, <1>11, <1>12 DEF m, records, other, false

-----------------------------------------------------------------------------
(* The rows of an APK.                                                     *)

MobileSeverity(key) ==
    IF key[1] = "mobile-permission-" THEN "low"
    ELSE IF key[1] = "mobile-secret-"
    THEN IF key[2] = "aws-access-key" THEN "high"
         ELSE IF key[2] = "generic-api-key" THEN "medium" ELSE "critical"
    ELSE IF key[2] = "debuggable" THEN "high" ELSE "medium"
MobileConfidence(key) == IF key[1] = "mobile-secret-" THEN "medium" ELSE "high"

\* What is reported of an APK is told by its key and its component.
LEMMA MobileTold ==
    ASSUME NEW apk, apk.manifest.set \subseteq DOMAIN ManifestRules, NEW f \in AndroidFindings(apk)
    PROVE  f = MobileFinding(f.key, MobileSeverity(f.key), f.component, MobileConfidence(f.key))
<1>1. \A k, s, n, c : /\ MobileFinding(k, s, n, c).key = k /\ MobileFinding(k, s, n, c).component = n
  BY DEF MobileFinding
<1> SUFFICES \E k, n : f = MobileFinding(k, MobileSeverity(k), n, MobileConfidence(k))
  BY <1>1
<1>2. CASE f \in ManifestFindings(apk.manifest)
  <2>1. PICK a \in apk.manifest.set :
          f = MobileFinding(ManifestRules[a][1], ManifestRules[a][2], Manifest, "high")
    BY <1>2 DEF ManifestFindings
  <2>2. a \in {"debuggable", "allowBackup", "usesCleartextTraffic", "exported"}
    BY DEF ManifestRules
  <2>3. /\ ManifestRules[a][2] = MobileSeverity(ManifestRules[a][1])
        /\ MobileConfidence(ManifestRules[a][1]) = "high"
    BY <2>2 DEF ManifestRules, MobileSeverity, MobileConfidence
  <2> QED
    BY <2>1, <2>3
<1>3. CASE f \in PermissionFindings(apk.manifest)
  <2>1. PICK p : f = MobileFinding(<< "mobile-permission-", p >>, "low", p, "high")
    BY <1>3 DEF PermissionFindings
  <2>2. MobileSeverity(<< "mobile-permission-", p >>) = "low" /\ MobileConfidence(<< "mobile-permission-", p >>) = "high"
    BY DEF MobileSeverity, MobileConfidence
  <2> QED
    BY <2>1, <2>2
<1>4. CASE f \in SecretFindings(apk.entries)
  <2>1. PICK n \in DOMAIN apk.entries :
          /\ SecretHits(apk.entries[n]) # {}
          /\ f = LET secret == SecretPatterns[Min(SecretHits(apk.entries[n]))]
                 IN  MobileFinding(<< "mobile-secret-", secret[1] >>, secret[2], n, "medium")
    BY <1>4 DEF SecretFindings
  <2> DEFINE i == Min(SecretHits(apk.entries[n]))
  <2>2. SecretHits(apk.entries[n]) \subseteq {1, 2, 3}
    BY DEF SecretHits, SecretPatterns
  <2>3. i \in {1, 2, 3}
    BY <2>1, <2>2, MinOfNats
  <2> HIDE DEF i
  <2>4. f = MobileFinding(<< "mobile-secret-", SecretPatterns[i][1] >>, SecretPatterns[i][2], n, "medium")
    BY <2>1 DEF i
  <2>5. /\ MobileSeverity(<< "mobile-secret-", SecretPatterns[i][1] >>) = SecretPatterns[i][2]
        /\ MobileConfidence(<< "mobile-secret-", SecretPatterns[i][1] >>) = "medium"
    BY <2>3 DEF SecretPatterns, MobileSeverity, MobileConfidence
  <2> QED
    BY <2>4, <2>5
<1>5. ASSUME NEW key \in {"cleartext-network-config", "user-trust-anchors"}, NEW flag,
             f \in NetworkRule(apk.entries, key, flag)
      PROVE  \E k, n : f = MobileFinding(k, MobileSeverity(k), n, MobileConfidence(k))
  <2>1. PICK n : f = MobileFinding(<< "mobile-", key >>, "medium", n, "high")
    BY <1>5 DEF NetworkRule
  <2>2. MobileSeverity(<< "mobile-", key >>) = "medium" /\ MobileConfidence(<< "mobile-", key >>) = "high"
    BY DEF MobileSeverity, MobileConfidence
  <2> QED
    BY <2>1, <2>2
<1> QED
  BY <1>2, <1>3, <1>4, <1>5 DEF AndroidFindings

LEMMA MobileFinite ==
    ASSUME NEW apk, apk.manifest.set \subseteq DOMAIN ManifestRules,
           IsFiniteSet(DOMAIN apk.entries), IsFiniteSet(apk.manifest.permissions)
    PROVE  IsFiniteSet(AndroidFindings(apk))
<1>1. IsFiniteSet(ManifestFindings(apk.manifest))
  <2> DEFINE S == {b \in apk.manifest.set : apk.manifest.text}
  <2>1. S \subseteq {"debuggable", "allowBackup", "usesCleartextTraffic", "exported"}
    BY DEF ManifestRules
  <2>2. IsFiniteSet({"debuggable"} \cup {"allowBackup"} \cup {"usesCleartextTraffic"} \cup {"exported"})
    BY FS_Singleton, FS_Union
  <2>3. {"debuggable", "allowBackup", "usesCleartextTraffic", "exported"}
          = {"debuggable"} \cup {"allowBackup"} \cup {"usesCleartextTraffic"} \cup {"exported"}
    OBVIOUS
  <2>4. IsFiniteSet(S)
    <3> HIDE DEF S
    <3> QED
      BY <2>1, <2>2, <2>3, FS_Subset
  <2> DEFINE f == [a \in S |-> MobileFinding(ManifestRules[a][1], ManifestRules[a][2], Manifest, "high")]
  <2>5. IsFiniteSet({f[a] : a \in S})
    <3> HIDE DEF S
    <3>1. DOMAIN f = S
      OBVIOUS
    <3> HIDE DEF f
    <3> QED
      BY <2>4, <3>1, FiniteMap
  <2>6. {f[a] : a \in S} = ManifestFindings(apk.manifest)
    BY DEF ManifestFindings
  <2> QED
    BY <2>5, <2>6
<1>2. IsFiniteSet(PermissionFindings(apk.manifest))
  <2> DEFINE S == apk.manifest.permissions \cap DangerousPermissions
             f == [p \in S |-> MobileFinding(<< "mobile-permission-", p >>, "low", p, "high")]
  <2>1. IsFiniteSet(S)
    BY FS_Subset
  <2>2. IsFiniteSet({f[a] : a \in S})
    <3> HIDE DEF S
    <3>1. DOMAIN f = S
      OBVIOUS
    <3> HIDE DEF f
    <3> QED
      BY <2>1, <3>1, FiniteMap
  <2>3. {f[a] : a \in S} = PermissionFindings(apk.manifest)
    BY DEF PermissionFindings
  <2> QED
    BY <2>2, <2>3
<1>3. IsFiniteSet(SecretFindings(apk.entries))
  <2> DEFINE S == {m \in DOMAIN apk.entries : apk.entries[m].scanned /\ SecretHits(apk.entries[m]) # {}}
             secret(n) == SecretPatterns[Min(SecretHits(apk.entries[n]))]
             f == [n \in S |-> MobileFinding(<< "mobile-secret-", secret(n)[1] >>, secret(n)[2], n, "medium")]
  <2>1. IsFiniteSet(S)
    BY FS_Subset
  <2>2. IsFiniteSet({f[a] : a \in S})
    <3> HIDE DEF S
    <3>1. DOMAIN f = S
      OBVIOUS
    <3> HIDE DEF f
    <3> QED
      BY <2>1, <3>1, FiniteMap
  <2>3. {f[a] : a \in S} = SecretFindings(apk.entries)
    BY DEF SecretFindings
  <2> QED
    BY <2>2, <2>3
<1>4. ASSUME NEW key, NEW flag PROVE IsFiniteSet(NetworkRule(apk.entries, key, flag))
  <2> DEFINE S == {m \in DOMAIN apk.entries : flag \in apk.entries[m].network}
             f == [n \in S |-> MobileFinding(<< "mobile-", key >>, "medium", n, "high")]
  <2>1. IsFiniteSet(S)
    BY FS_Subset
  <2>2. IsFiniteSet({f[a] : a \in S})
    <3> HIDE DEF S
    <3>1. DOMAIN f = S
      OBVIOUS
    <3> HIDE DEF f
    <3> QED
      BY <2>1, <3>1, FiniteMap
  <2>3. {f[a] : a \in S} = NetworkRule(apk.entries, key, flag)
    BY DEF NetworkRule
  <2> QED
    BY <2>2, <2>3
<1>5. \A A, B : IsFiniteSet(A) /\ IsFiniteSet(B) => IsFiniteSet(A \cup B)
  BY FS_Union
<1> QED
  BY <1>1, <1>2, <1>3, <1>4, <1>5 DEF AndroidFindings

LEMMA MobileRows == StoredRows(AndroidRows(Apk))
<1>1. /\ Apk.manifest.set \subseteq DOMAIN ManifestRules
      /\ IsFiniteSet(DOMAIN Apk.entries) /\ IsFiniteSet(Apk.manifest.permissions)
  BY ApkAssumption
<1>2. \A f : /\ AndroidRow(f).id = << f.key, f.component >>
             /\ AndroidRow(f).fingerprint = << f.key, f.component >>
  BY DEF AndroidRow
<1>3. IsFiniteSet(AndroidRows(Apk))
  <2> DEFINE S == AndroidFindings(Apk)
             g == [f \in S |-> AndroidRow(f)]
  <2>1. IsFiniteSet(S)
    BY <1>1, MobileFinite
  <2> HIDE DEF S
  <2>2. DOMAIN g = S /\ {g[f] : f \in S} = AndroidRows(Apk)
    BY DEF AndroidRows, S
  <2> HIDE DEF g
  <2>3. IsFiniteSet({g[f] : f \in S})
    BY <2>1, <2>2, FiniteMap
  <2> QED
    BY <2>2, <2>3
<1>4. \A f, g \in AndroidFindings(Apk) : f.key = g.key /\ f.component = g.component => f = g
  BY <1>1, MobileTold
<1>5. \A a, b : << a, b >> # None
  BY DEF None
<1>6. \A a, b, c, d : << a, b >> = << c, d >> => a = c /\ b = d
  OBVIOUS
<1>7. \A r \in AndroidRows(Apk) : r.id # None /\ r.fingerprint = r.id
  BY <1>2, <1>5 DEF AndroidRows
<1>8. ASSUME NEW a \in AndroidRows(Apk), NEW b \in AndroidRows(Apk), a.id = b.id PROVE a = b
  <2>1. PICK f \in AndroidFindings(Apk) : a = AndroidRow(f)
    BY DEF AndroidRows
  <2>2. PICK g \in AndroidFindings(Apk) : b = AndroidRow(g)
    BY DEF AndroidRows
  <2>3. << f.key, f.component >> = << g.key, g.component >>
    BY <1>2, <1>8, <2>1, <2>2
  <2> QED
    BY <1>4, <1>6, <2>1, <2>2, <2>3
<1> QED
  BY <1>3, <1>7, <1>8 DEF StoredRows

-----------------------------------------------------------------------------
(* The rows of a web scan, and the customer's view of them.                *)

WebRows(R) ==
    /\ StoredRows(R)
    /\ \A r \in R : /\ Address(r.url) /\ Canonical(r.url) = r.url
                    /\ r.rule = r.key /\ r.id = Fingerprint(r)
                    /\ r.key \in SecretKeys => r.severity = SecretSeverity[r.key[2]]

LEMMA AnalyzedRows ==
    ASSUME NEW S, IsFiniteSet(S), \A f \in S : Analyzed(f),
           \A f, g \in S : Fingerprint(f) = Fingerprint(g) => f = g
    PROVE  WebRows({Stored(f) : f \in S})
<1> DEFINE R == {Stored(f) : f \in S}
<1>1. \A f : /\ Stored(f).id = Fingerprint(f) /\ Stored(f).fingerprint = Fingerprint(f)
             /\ Stored(f).key = f.key /\ Stored(f).rule = f.key /\ Stored(f).severity = f.severity
             /\ Stored(f).url = f.url /\ Stored(f).evidence = f.evidence
  BY DEF Stored
<1>2. \A f : Fingerprint(f) # None
  BY DEF Fingerprint, None
<1>3. \A f : Fingerprint(Stored(f)) = Fingerprint(f)
  BY <1>1 DEF Fingerprint
<1>4. IsFiniteSet(R)
  <2> DEFINE g == [f \in S |-> Stored(f)]
  <2>1. DOMAIN g = S /\ {g[f] : f \in S} = R
    OBVIOUS
  <2> HIDE DEF g, R
  <2>2. IsFiniteSet({g[f] : f \in S})
    BY <2>1, FiniteMap
  <2> QED
    BY <2>1, <2>2
<1>5. \A r \in R : r.id # None /\ r.fingerprint = r.id
  BY <1>1, <1>2
<1>6. \A a, b \in R : a.id = b.id => a = b
  BY <1>1
<1>7. \A r \in R : /\ Address(r.url) /\ Canonical(r.url) = r.url
                   /\ r.rule = r.key /\ r.id = Fingerprint(r)
                   /\ r.key \in SecretKeys => r.severity = SecretSeverity[r.key[2]]
  <2> SUFFICES ASSUME NEW f \in S
               PROVE  LET r == Stored(f)
                      IN  /\ Address(r.url) /\ Canonical(r.url) = r.url
                          /\ r.rule = r.key /\ r.id = Fingerprint(r)
                          /\ r.key \in SecretKeys => r.severity = SecretSeverity[r.key[2]]
    OBVIOUS
  <2>1. Correlated(f)
    BY DEF Analyzed
  <2> QED
    BY <1>1, <1>3, <2>1 DEF Correlated
<1> HIDE DEF R
<1> QED
  BY <1>4, <1>5, <1>6, <1>7 DEF WebRows, StoredRows, R

\* The rows that may lead a group of them.
Trusted(M) == {r \in M : ToolPriority(r.tool) = Min({ToolPriority(q.tool) : q \in M})}
Near(M) == {r \in Trusted(M) : Canonical(r.url) = LeastUrl({Canonical(q.url) : q \in Trusted(M)})}
Leads(M) == {r \in Near(M) : r.rule = CHOOSE rule \in {q.rule : q \in Near(M)} : TRUE}

LEMMA LeadIn ==
    ASSUME NEW items, DOMAIN items \subseteq Nat, DOMAIN items # {},
           \A r \in Range(items) : Address(r.url)
    PROVE  CustomerLead(items) \in Leads(Range(items))
<1> DEFINE M == Range(items)
           best == Min({ToolPriority(r.tool) : r \in M})
           trusted == {i \in DOMAIN items : ToolPriority(items[i].tool) = best}
           url == LeastUrl({Canonical(items[i].url) : i \in trusted})
           near == {i \in trusted : Canonical(items[i].url) = url}
           rule == CHOOSE r \in {items[i].rule : i \in near} : TRUE
           leads == {i \in near : items[i].rule = rule}
<1>1. M = {items[i] : i \in DOMAIN items} /\ M # {}
  BY DEF Range
<1>2. best \in {ToolPriority(r.tool) : r \in M}
  <2>1. {ToolPriority(r.tool) : r \in M} \subseteq Nat /\ {ToolPriority(r.tool) : r \in M} # {}
    BY <1>1, PriorityType
  <2> QED
    BY <2>1, MinOfNats
<1> HIDE DEF best
<1>3. trusted # {} /\ Trusted(M) = {items[i] : i \in trusted}
  BY <1>1, <1>2 DEF Trusted, best
<1> HIDE DEF trusted
<1>4. {Canonical(items[i].url) : i \in trusted} = {Canonical(q.url) : q \in Trusted(M)}
  BY <1>3
<1>5. url \in {Canonical(items[i].url) : i \in trusted}
  <2> DEFINE U == {Canonical(items[i].url) : i \in trusted}
  <2>1. \A i \in trusted : Address(items[i].url)
    BY <1>1 DEF trusted
  <2>2. U # {} /\ \A u \in U : Address(u) /\ Canonical(u) = u
    BY <1>3, <2>1, CanonicalAddress
  <2> HIDE DEF U
  <2>3. LeastUrl(U) \in U
    BY <2>2, LeastUrlIn
  <2> QED
    BY <2>3 DEF U
<1>6. url = LeastUrl({Canonical(q.url) : q \in Trusted(M)})
  BY <1>4
<1> HIDE DEF url
<1>7. near # {} /\ Near(M) = {items[i] : i \in near}
  BY <1>3, <1>5, <1>6 DEF Near
<1>8. {items[i].rule : i \in near} = {q.rule : q \in Near(M)} /\ {items[i].rule : i \in near} # {}
  BY <1>7
<1>9. rule \in {items[i].rule : i \in near} /\ rule = CHOOSE r \in {q.rule : q \in Near(M)} : TRUE
  BY <1>8
<1>10. near \subseteq Nat /\ near \subseteq DOMAIN items
  BY DEF trusted
<1> HIDE DEF near, rule
<1>11. leads # {} /\ leads \subseteq Nat
  BY <1>9, <1>10
<1>12. Min(leads) \in leads
  BY <1>11, MinOfNats
<1>13. CustomerLead(items) = items[Min(leads)]
  BY DEF CustomerLead, leads, near, rule, url, trusted, best
<1> HIDE DEF leads
<1>14. Min(leads) \in near /\ items[Min(leads)].rule = rule
  BY <1>12 DEF leads
<1>15. items[Min(leads)] \in Leads(M)
  BY <1>7, <1>9, <1>14 DEF Leads
<1> QED
  BY <1>13, <1>15

\* Whichever of them leads, the customer is shown the same.
LEMMA LeadsAgree ==
    ASSUME NEW R, WebRows(R), NEW M \in SUBSET R, NEW p \in Leads(M), NEW q \in Leads(M)
    PROVE  /\ p.rule = q.rule /\ p.severity = q.severity
           /\ p.tool = "passive_http" <=> q.tool = "passive_http"
<1>1. p \in R /\ q \in R /\ p.rule = q.rule /\ Canonical(p.url) = Canonical(q.url)
      /\ ToolPriority(p.tool) = ToolPriority(q.tool)
  BY DEF Leads, Near, Trusted
<1>2. p.key = q.key
  BY <1>1 DEF WebRows
<1>3. p.tool = "passive_http" <=> q.tool = "passive_http"
  BY <1>1, PriorityType
<1>4. CASE p.key \in SecretKeys
  BY <1>1, <1>2, <1>3, <1>4 DEF WebRows
<1>5. CASE p.key \notin SecretKeys
  <2>1. SecretToken(p.key, p.evidence) = None /\ SecretToken(q.key, q.evidence) = None
    BY <1>2, <1>5 DEF SecretToken
  <2>2. Fingerprint(p) = Fingerprint(q)
    BY <1>1, <1>2, <2>1 DEF Fingerprint
  <2>3. p.id = q.id
    BY <1>1, <2>2 DEF WebRows
  <2>4. p = q
    BY <1>1, <2>3 DEF WebRows, StoredRows
  <2> QED
    BY <2>4
<1> QED
  BY <1>1, <1>3, <1>4, <1>5

\* Some rows are seen as their group's, in whichever order they come.
LEMMA MergedSame ==
    ASSUME NEW R, WebRows(R), NEW a, NEW b, Range(a) \subseteq R, Range(b) = Range(a),
           DOMAIN a \subseteq Nat, DOMAIN b \subseteq Nat, Range(a) # {}
    PROVE  LET p == MergeForCustomer(a)
               q == MergeForCustomer(b)
           IN  /\ p.rule = q.rule /\ p.url = q.url
               /\ Visibility(p, Range(a)) = Visibility(q, Range(b))
<1> DEFINE p == MergeForCustomer(a)
           q == MergeForCustomer(b)
           l == CustomerLead(a)
           m == CustomerLead(b)
<1>1. l \in Leads(Range(a)) /\ m \in Leads(Range(a))
  <2>1. DOMAIN a # {} /\ DOMAIN b # {}
    BY DEF Range
  <2>2. \A r \in Range(a) : Address(r.url)
    BY DEF WebRows
  <2> QED
    BY <2>1, <2>2, LeadIn
<1>2. l.rule = m.rule /\ l.severity = m.severity /\ (l.tool = "passive_http" <=> m.tool = "passive_http")
  BY <1>1, LeadsAgree
<1>3. /\ p.tool = l.tool /\ p.rule = l.rule /\ p.severity = l.severity
      /\ p.url = LeastUrl({Canonical(r.url) : r \in Range(a)})
      /\ p.confidence = BestConfidence(Range(a))
      /\ p.fields = UNION {DOMAIN r.evidence : r \in Range(a)}
  BY DEF MergeForCustomer
<1>4. /\ q.tool = m.tool /\ q.rule = m.rule /\ q.severity = m.severity
      /\ q.url = LeastUrl({Canonical(r.url) : r \in Range(a)})
      /\ q.confidence = BestConfidence(Range(a))
      /\ q.fields = UNION {DOMAIN r.evidence : r \in Range(a)}
  BY DEF MergeForCustomer
<1> HIDE DEF p, q, l, m
<1>5. /\ p.rule = q.rule /\ p.url = q.url /\ p.severity = q.severity /\ p.confidence = q.confidence
      /\ p.fields = q.fields /\ (p.tool = "passive_http" <=> q.tool = "passive_http")
  BY <1>2, <1>3, <1>4
<1>6. Visibility(p, Range(a)) = Visibility(q, Range(b))
  BY <1>5 DEF Visibility
<1> QED
  BY <1>5, <1>6 DEF p, q

LEMMA GroupRange ==
    ASSUME NEW R, NEW list, ListIs(list, R), NEW g, \E r \in R : CustomerGroup(r) = g
    PROVE  LET items == Restrict(list, {i \in DOMAIN list : CustomerGroup(list[i]) = g})
           IN  /\ Range(items) = {r \in R : CustomerGroup(r) = g}
               /\ DOMAIN items \subseteq Nat /\ Range(items) # {}
<1> DEFINE S == {i \in DOMAIN list : CustomerGroup(list[i]) = g}
           items == Restrict(list, S)
<1>1. R = {list[i] : i \in DOMAIN list} /\ DOMAIN list \subseteq Nat
  BY DEF ListIs, Range
<1>2. DOMAIN items = S /\ \A i \in S : items[i] = list[i]
  BY DEF Restrict
<1>3. Range(items) = {list[i] : i \in S}
  BY <1>2 DEF Range
<1>4. {list[i] : i \in S} = {r \in R : CustomerGroup(r) = g}
  BY <1>1
<1>5. {r \in R : CustomerGroup(r) = g} # {}
  OBVIOUS
<1> HIDE DEF items
<1>6. DOMAIN items \subseteq Nat
  BY <1>1, <1>2
<1> QED
  BY <1>3, <1>4, <1>5, <1>6 DEF items

LEMMA ViewSame ==
    ASSUME NEW R, WebRows(R), NEW a, NEW b, ListIs(a, R), ListIs(b, R),
           NEW g, \E r \in R : CustomerGroup(r) = g
    PROVE  CustomerView(g, a) = CustomerView(g, b)
<1> DEFINE x == Restrict(a, {i \in DOMAIN a : CustomerGroup(a[i]) = g})
           y == Restrict(b, {i \in DOMAIN b : CustomerGroup(b[i]) = g})
<1>1. /\ Range(x) = {r \in R : CustomerGroup(r) = g} /\ DOMAIN x \subseteq Nat /\ Range(x) # {}
      /\ Range(y) = {r \in R : CustomerGroup(r) = g} /\ DOMAIN y \subseteq Nat
  BY GroupRange
<1>2. /\ CustomerView(g, a) = [group |-> g, rule |-> MergeForCustomer(x).rule, url |-> MergeForCustomer(x).url,
                              visibility |-> Visibility(MergeForCustomer(x), Range(x))]
      /\ CustomerView(g, b) = [group |-> g, rule |-> MergeForCustomer(y).rule, url |-> MergeForCustomer(y).url,
                              visibility |-> Visibility(MergeForCustomer(y), Range(y))]
  BY DEF CustomerView
<1> HIDE DEF x, y
<1>3. Range(y) = Range(x) /\ Range(x) \subseteq R
  BY <1>1
<1>4. /\ MergeForCustomer(x).rule = MergeForCustomer(y).rule /\ MergeForCustomer(x).url = MergeForCustomer(y).url
      /\ Visibility(MergeForCustomer(x), Range(x)) = Visibility(MergeForCustomer(y), Range(y))
  BY <1>1, <1>3, MergedSame
<1> QED
  BY <1>2, <1>4

LEMMA ViewsSame ==
    ASSUME NEW R, WebRows(R), NEW a, NEW b, ListIs(a, R), ListIs(b, R)
    PROVE  CustomerViews(a) = CustomerViews(b)
<1>1. Range(a) = R /\ Range(b) = R
  BY DEF ListIs
<1>2. \A g \in {CustomerGroup(r) : r \in R} : CustomerView(g, a) = CustomerView(g, b)
  BY ViewSame
<1> QED
  BY <1>1, <1>2 DEF CustomerViews

\* Each group has one view.
LEMMA ViewsApart ==
    ASSUME NEW R, IsFiniteSet(R), NEW list, Range(list) = R
    PROVE  Cardinality(CustomerViews(list)) = Cardinality({v.group : v \in CustomerViews(list)})
<1> DEFINE G == {CustomerGroup(r) : r \in R}
           V == CustomerViews(list)
           T == {v.group : v \in V}
           f == [v \in V |-> v.group]
<1>1. \A g : CustomerView(g, list).group = g
  BY DEF CustomerView
<1>2. V = {CustomerView(g, list) : g \in G}
  BY DEF CustomerViews
<1>3. IsFiniteSet(V)
  <2> DEFINE h == [r \in R |-> CustomerView(CustomerGroup(r), list)]
  <2>1. DOMAIN h = R /\ {h[r] : r \in R} = V
    BY <1>2
  <2> HIDE DEF h, V
  <2>2. IsFiniteSet({h[r] : r \in R})
    BY <2>1, FiniteMap
  <2> QED
    BY <2>1, <2>2
<1>4. \A v, w \in V : v.group = w.group => v = w
  BY <1>1, <1>2
<1> HIDE DEF V
<1>5. f \in [V -> T] /\ \A t \in T : \E v \in V : f[v] = t
  OBVIOUS
<1>6. \A v, w \in V : f[v] = f[w] => v = w
  BY <1>4
<1> HIDE DEF f, T
<1>7. Cardinality(T) = Cardinality(V)
  BY <1>3, <1>5, <1>6, SameSize
<1> QED
  BY <1>7 DEF V, T

LEMMA IdsApart ==
    ASSUME NEW R, StoredRows(R)
    PROVE  Cardinality({r.id : r \in R}) = Cardinality(R)
<1> DEFINE T == {r.id : r \in R}
           f == [r \in R |-> r.id]
<1>1. f \in [R -> T] /\ \A t \in T : \E r \in R : f[r] = t
  OBVIOUS
<1>2. \A q, r \in R : f[q] = f[r] => q = r
  BY DEF StoredRows
<1>3. IsFiniteSet(R)
  BY DEF StoredRows
<1> HIDE DEF f, T
<1>4. Cardinality(T) = Cardinality(R)
  BY <1>1, <1>2, <1>3, SameSize
<1> QED
  BY <1>4 DEF T

-----------------------------------------------------------------------------
(* The result of a run.                                                    *)

\* A result is the match of the stored rows with the expected findings, each read in some order.
MatchOf(E, R, outcome) ==
    \E items, found :
        /\ ListIs(items, E) /\ ListIs(found, R)
        /\ outcome = << [records |-> MatchFindings(items, found),
                         metrics |-> Metrics(items, MatchFindings(items, found))] >>

ResultInv ==
    /\ suite = "web" => WebRows(rows)
    /\ suite = "android" => StoredRows(rows)
    /\ result # None => MatchOf(expected, rows, result)
    /\ pc = "judged" /\ suite = "web" => report[1].views = CustomerViews(SetToSeq(rows))
    /\ baseline # None => baseline[1].recall \in Permille /\ baseline[1].precision \in Permille

LEMMA ExpectedIs == SuiteInv => Expected(expected)
<1> SUFFICES ASSUME SuiteInv PROVE Expected(expected)
  OBVIOUS
<1>1. suite \in {"web", "android"} /\ expected \subseteq GroundTruth[suite]
  BY DEF SuiteInv, SuiteTypeOK
<1>2. /\ IsFiniteSet(GroundTruth[suite])
      /\ \A item \in GroundTruth[suite] : item.required \in BOOLEAN
      /\ \A a, b \in GroundTruth[suite] : a.key = b.key => a = b
  BY <1>1, GroundTruthAssumption
<1> QED
  BY <1>1, <1>2, FS_Subset DEF Expected

LEMMA RowsAre == SuiteInv /\ ResultInv => StoredRows(rows)
BY DEF SuiteInv, SuiteTypeOK, ResultInv, WebRows

LEMMA NoRows == WebRows({}) /\ StoredRows({})
BY FS_EmptySet DEF WebRows, StoredRows

LEMMA ResultInitInv == SuiteInit => ResultInv
BY NoRows DEF SuiteInit, ResultInv

\* A step that changes neither the tables nor the result, nor comes to a judgement.
LEMMA ResultKept ==
    ASSUME ResultInv, UNCHANGED << suite, rows, baseline >>, expected' = expected \/ result = None,
           result' = result, report' = report, pc' # "judged" \/ pc = "judged"
    PROVE  ResultInv'
BY DEF ResultInv

LEMMA PublishKept ==
    ASSUME SuiteInv, ResultInv, PublishResult
    PROVE  ResultInv'
<1>1. PICK items \in Orders(expected, MeasurableItems), found \in Orders(rows, Accepted(MeasurableItems)) :
        result' = << [records |-> MatchFindings(items, found),
                      metrics |-> Metrics(items, MatchFindings(items, found))] >>
  BY DEF PublishResult
<1>2. IsFiniteSet(expected) /\ IsFiniteSet(rows)
  BY ExpectedIs, RowsAre DEF Expected, StoredRows
<1>3. MeasurableItems \subseteq expected /\ Accepted(MeasurableItems) \subseteq rows
  BY DEF MeasurableItems, Accepted
<1>4. ListIs(items, expected) /\ ListIs(found, rows)
  BY <1>1, <1>2, <1>3, OrdersList
<1>5. MatchOf(expected, rows, result')
  BY <1>1, <1>4 DEF MatchOf
<1> QED
  BY <1>5 DEF PublishResult, ResultInv

LEMMA MeasuredType ==
    SuiteInv /\ ResultInv /\ result # None =>
        result[1].metrics.recall \in Permille /\ result[1].metrics.precision \in Permille
<1> SUFFICES ASSUME SuiteInv, ResultInv, result # None
             PROVE  result[1].metrics.recall \in Permille /\ result[1].metrics.precision \in Permille
  OBVIOUS
<1>1. PICK items, found :
        /\ ListIs(items, expected) /\ ListIs(found, rows)
        /\ result = << [records |-> MatchFindings(items, found),
                        metrics |-> Metrics(items, MatchFindings(items, found))] >>
  BY DEF ResultInv, MatchOf
<1>2. Compared(items, expected, found, rows)
  BY <1>1, ExpectedIs, RowsAre DEF Compared
<1> DEFINE m == Metrics(items, MatchFindings(items, found))
<1>3. m.recall \in Permille /\ m.precision \in Permille
  BY <1>2, Settled, SMTT(30)
<1>4. result[1].metrics = m
  BY <1>1, SomeIsNotNone
<1> QED
  BY <1>3, <1>4

LEMMA JudgesKept ==
    ASSUME SuiteInv, ResultInv, NEW n, NEW found, Judges(n, found),
           suite = "web" => found = SetToSeq(rows)
    PROVE  ResultInv'
<1>1. result # None /\ UNCHANGED << suite, expected, rows, result >>
  BY DEF Judges
<1>2. \E slow : report' =
        << [failures |-> GateFailures(result[1].metrics, Delta(result[1].metrics, baseline), FALSE,
                                      n, slow, FailOnDuration),
            views |-> CustomerViews(found),
            customer |-> CustomerMetrics(result[1].metrics, found)] >>
  BY DEF Judges
<1>3. report'[1].views = CustomerViews(found)
  BY <1>2, SomeIsNotNone
<1>4. baseline' # None => baseline'[1].recall \in Permille /\ baseline'[1].precision \in Permille
  <2>1. baseline' = baseline \/ baseline' = << [m \in Measured |-> result[1].metrics[m]] >>
    BY DEF Judges
  <2>2. CASE baseline' = baseline
    BY <2>2 DEF ResultInv
  <2>3. CASE baseline' = << [m \in Measured |-> result[1].metrics[m]] >>
    <3>1. baseline'[1] = [m \in Measured |-> result[1].metrics[m]]
      BY <2>3, SomeIsNotNone
    <3>2. baseline'[1].recall = result[1].metrics.recall /\ baseline'[1].precision = result[1].metrics.precision
      BY <3>1 DEF Measured
    <3> QED
      BY <1>1, <3>2, MeasuredType
  <2> QED
    BY <2>1, <2>2, <2>3
<1> QED
  BY <1>1, <1>3, <1>4 DEF ResultInv

LEMMA ResultStep ==
    SuiteInv /\ AnalysisInv /\ ResultInv /\ [SuiteNext]_suiteVars => ResultInv'
<1> SUFFICES ASSUME SuiteInv, AnalysisInv, ResultInv, [SuiteNext]_suiteVars PROVE ResultInv'
  OBVIOUS
<1>1. result = None \/ pc \in {"published", "judged", "stopping"}
  BY DEF SuiteInv, Phases
<1>2. CASE \/ Start \/ ServicesReady \/ ServicesLate \/ Sync \/ CreateRun \/ PassiveReports \/ SensitiveReports
           \/ ZapReports \/ ScannerFails \/ ScanFails \/ Analyze \/ Verify \/ MatchFails
           \/ UploadFixture \/ SkipAnalysis \/ AnalysisFails \/ NoResult \/ Finish \/ SuiteEnds
           \/ UNCHANGED suiteVars
  <2>1. UNCHANGED << suite, rows, baseline, result, report >> /\ (pc' # "judged" \/ pc = "judged")
    BY <1>2 DEF Start, ServicesReady, ServicesLate, Sync, CreateRun, PassiveReports, SensitiveReports,
       ZapReports, ScannerFails, Reports, ScanFails, Analyze, Verify, MatchFails, UploadFixture,
       SkipAnalysis, AnalysisFails, NoResult, Finish, SuiteEnds, Ends, verdictVars, suiteVars
  <2>2. expected' = expected \/ pc \in {"syncing", "building"}
    BY <1>2 DEF Start, ServicesReady, ServicesLate, Sync, CreateRun, PassiveReports, SensitiveReports,
       ZapReports, ScannerFails, Reports, ScanFails, Analyze, Verify, MatchFails, UploadFixture,
       SkipAnalysis, AnalysisFails, NoResult, Finish, SuiteEnds, Ends, suiteVars
  <2> QED
    BY <1>1, <2>1, <2>2, ResultKept
<1>3. CASE Match \/ MatchApk
  BY <1>3, PublishKept DEF Match, MatchApk
<1>4. CASE Store
  <2>1. IsFiniteSet(analyzed) /\ (\A f \in analyzed : Analyzed(f))
        /\ \A f, g \in analyzed : Fingerprint(f) = Fingerprint(g) => f = g
    BY DEF AnalysisInv
  <2>2. rows' = {Stored(f) : f \in analyzed} /\ pc = "verifying" /\ pc' = "scanned" /\ UNCHANGED verdictVars
    BY <1>4 DEF Store
  <2>3. WebRows(rows')
    BY <2>1, <2>2, AnalyzedRows
  <2>4. StoredRows(rows')
    BY <2>3 DEF WebRows
  <2> QED
    BY <1>1, <2>2, <2>3, <2>4 DEF ResultInv, verdictVars
<1>5. CASE AnalyzeApk
  <2>1. rows' = AndroidRows(Apk) /\ pc = "analyzing" /\ pc' = "persisted" /\ suite' = suite /\ UNCHANGED verdictVars
    BY <1>5 DEF AnalyzeApk
  <2>2. suite = "android"
    BY <2>1 DEF SuiteInv, Places, InsideAndroid
  <2>3. StoredRows(rows')
    BY <2>1, MobileRows
  <2> QED
    BY <1>1, <2>1, <2>2, <2>3 DEF ResultInv, verdictVars
<1>6. CASE Judge \/ JudgeApk
  <2>1. CASE Judge
    BY <2>1, JudgesKept DEF Judge
  <2>2. CASE JudgeApk
    BY <2>2, JudgesKept DEF JudgeApk
  <2> QED
    BY <1>6, <2>1, <2>2
<1>7. CASE Stop \/ Die
  <2>1. rows' = {} /\ result' = None /\ pc' = "idle" /\ UNCHANGED << suite, baseline >>
    BY <1>7 DEF Stop, Die, Leaves
  <2> QED
    BY <2>1, NoRows DEF ResultInv
<1> QED
  BY <1>2, <1>3, <1>4, <1>5, <1>6, <1>7 DEF SuiteNext

LEMMA OnceJudged == SuiteInv /\ ResultInv => JudgedOnce
<1> SUFFICES ASSUME SuiteInv, ResultInv, result # None PROVE JudgedOnce
  BY DEF JudgedOnce
<1> DEFINE list == SetToSeq(expected)
           order == SetToSeq(rows)
           blind == BlindRecords(list, order)
           strict == MatchFindings(list, order)
           b == BlindMetrics(list, order)
<1>1. Expected(expected) /\ StoredRows(rows)
  BY ExpectedIs, RowsAre
<1>2. PICK items, found :
        /\ ListIs(items, expected) /\ ListIs(found, rows)
        /\ result = << [records |-> MatchFindings(items, found),
                        metrics |-> Metrics(items, MatchFindings(items, found))] >>
  BY DEF ResultInv, MatchOf
<1>3. ListIs(list, expected) /\ ListIs(order, rows)
  BY <1>1, SortedLists DEF Expected, StoredRows
<1>4. Compared(items, expected, found, rows) /\ Compared(list, expected, order, rows)
  BY <1>1, <1>2, <1>3 DEF Compared
<1> HIDE DEF list, order
<1>5. /\ result[1].records = MatchFindings(items, found)
      /\ result[1].metrics = Metrics(items, MatchFindings(items, found))
  BY <1>2, SomeIsNotNone
<1>6. /\ \A r \in rows : Cardinality({m \in result[1].records : m.row = r.id}) = 1
      /\ result[1].metrics.tp + result[1].metrics.fn = result[1].metrics.expected
  BY <1>4, <1>5, Settled, SMTT(30)
<1>7. /\ \A r \in rows : Cardinality({m \in blind : m.row = r.id}) = 1
      /\ b.tp + b.fn = b.expected
  BY <1>4, Settled, SMTT(30)
<1>8. /\ CountOf(blind, "true_positive") = CountOf(strict, "true_positive")
      /\ CountOf(blind, "confirmed_false_positive") <= CountOf(strict, "confirmed_false_positive")
  BY <1>4, BlindCounts
<1> QED
  BY <1>6, <1>7, <1>8 DEF JudgedOnce, list, order

LEMMA ByDefinition == SuiteInv /\ ResultInv => ResultByDefinition
<1> SUFFICES ASSUME SuiteInv, ResultInv, result # None, AcceptedOnce PROVE ResultByDefinition
  BY DEF ResultByDefinition
<1> DEFINE required == {i \in MeasurableItems : i.support = "supported" /\ i.required}
           foundItems == {i \in MeasurableItems : AcceptedBy(i) # {}}
           other == rows \ Accepted(MeasurableItems)
           left == Untaken(expected, rows)
           false == ConfirmedOf(expected, rows)
           m == result[1].metrics
<1>1. PICK items, found :
        /\ ListIs(items, expected) /\ ListIs(found, rows)
        /\ result = << [records |-> MatchFindings(items, found),
                        metrics |-> Metrics(items, MatchFindings(items, found))] >>
  BY DEF ResultInv, MatchOf
<1>2. Compared(items, expected, found, rows)
  BY <1>1, ExpectedIs, RowsAre DEF Compared
<1>3. m = Metrics(items, MatchFindings(items, found))
  BY <1>1, SomeIsNotNone
<1>4. MeasurableItems = MeasurableOf(expected) /\ \A i : AcceptedBy(i) = AcceptedFrom(rows, i)
  BY DEF MeasurableItems, MeasurableOf, AcceptedBy, AcceptedFrom
<1>5. OnceAccepted(expected, rows)
  BY <1>4 DEF AcceptedOnce, OnceAccepted
<1>6. required = RequiredOf(expected) /\ foundItems = FoundOf(expected, rows)
  BY <1>4 DEF RequiredOf, FoundOf
<1>7. other = left /\ Accepted(MeasurableItems) = rows \ left
  BY <1>4 DEF Accepted, Untaken
<1> HIDE DEF m
<1>8. /\ m.tp = Cardinality(RequiredFound(expected, rows))
      /\ m.fn = Cardinality(RequiredOf(expected) \ FoundOf(expected, rows))
      /\ m.duplicates = Cardinality(rows \ left) - Cardinality(FoundOf(expected, rows))
      /\ m.confirmed = Cardinality(false)
  <2>1. m.tp = Cardinality(RequiredFound(expected, rows))
    BY <1>2, <1>3, <1>5, Documented, ZenonT(30)
  <2>2. m.fn = Cardinality(RequiredOf(expected) \ FoundOf(expected, rows))
    BY <1>2, <1>3, <1>5, Documented, ZenonT(30)
  <2>3. m.duplicates = Cardinality(rows \ left) - Cardinality(FoundOf(expected, rows))
    BY <1>2, <1>3, <1>5, Documented, ZenonT(30)
  <2>4. m.confirmed = Cardinality(false)
    BY <1>2, <1>3, <1>5, Documented, ZenonT(30)
  <2> QED
    BY <2>1, <2>2, <2>3, <2>4
<1>9. false = {r \in other : ~(\E i \in required \ foundItems : RelaxedMatch(i, r)) /\ ~Informational(r)}
  BY <1>6, <1>7 DEF ConfirmedOf
<1>10. RequiredFound(expected, rows) = required \cap foundItems
  BY <1>6 DEF RequiredFound
<1>11. IsFiniteSet(other) /\ other \subseteq rows
  BY RowsAre, FS_Subset DEF StoredRows
<1> HIDE DEF required, foundItems, other, left, false
<1> DEFINE unlike == {r \in other : ~(\E i \in required \ foundItems : RelaxedMatch(i, r))}
           documented == {r \in unlike : ~DocumentedInformational(r)}
           own == OwnNotes(unlike)
<1>12. false = documented \cup own /\ documented \cap own = {}
  <2>1. false = {r \in unlike : ~Informational(r)}
    BY <1>9
  <2>2. \A r : ~Informational(r) <=> \/ ~DocumentedInformational(r)
                                     \/ /\ r.severity = "info" /\ r.key \notin InformationalKeys
                                        /\ r.tool \notin {"zap", "nuclei"}
    BY DEF Informational, DocumentedInformational
  <2> QED
    BY <2>1, <2>2 DEF OwnNotes, DocumentedInformational
<1>13. Cardinality(false) = Cardinality(documented) + Cardinality(own)
  <2>1. IsFiniteSet(documented) /\ IsFiniteSet(own)
    <3>1. documented \subseteq other
      OBVIOUS
    <3>2. own \subseteq other
      BY DEF OwnNotes
    <3> HIDE DEF documented, own
    <3> QED
      BY <1>11, <3>1, <3>2, FS_Subset
  <2>2. documented \cap own = {}
    BY <1>12
  <2> HIDE DEF documented, own
  <2>3. Cardinality(documented \cup own)
          = Cardinality(documented) + Cardinality(own) - Cardinality(documented \cap own)
    BY <2>1, FS_Union
  <2>4. Cardinality(documented \cap own) = 0
    BY <2>2, FS_EmptySet
  <2>5. Cardinality(documented) \in Nat /\ Cardinality(own) \in Nat
    BY <2>1, FS_CardinalityType
  <2>6. Cardinality(documented \cup own) = Cardinality(documented) + Cardinality(own)
    BY <2>3, <2>4, <2>5
  <2> QED
    BY <1>12, <2>6
<1>14. documented = {r \in other : /\ ~(\E i \in required \ foundItems : RelaxedMatch(i, r))
                                   /\ ~DocumentedInformational(r)}
  OBVIOUS
<1> HIDE DEF documented
<1>15. /\ m.tp = Cardinality(required \cap foundItems) /\ m.fn = Cardinality(required \ foundItems)
       /\ m.duplicates = Cardinality(Accepted(MeasurableItems)) - Cardinality(foundItems)
       /\ m.confirmed = Cardinality(documented) + Cardinality(own)
  BY <1>6, <1>7, <1>8, <1>10, <1>13
<1> QED
  BY <1>14, <1>15 DEF ResultByDefinition, required, foundItems, other, m

LEMMA OrderFree == SuiteInv /\ ResultInv => ViewsOrderFree
<1> SUFFICES ASSUME SuiteInv, ResultInv, pc = "judged", suite = "web"
             PROVE  /\ \A order \in SetToSeqs(rows) : CustomerViews(order) = report[1].views
                    /\ Cardinality(report[1].views) = Cardinality({v.group : v \in report[1].views})
  BY DEF ViewsOrderFree
<1>1. WebRows(rows) /\ IsFiniteSet(rows) /\ report[1].views = CustomerViews(SetToSeq(rows))
  BY DEF ResultInv, WebRows, StoredRows
<1>2. ListIs(SetToSeq(rows), rows) /\ \A order \in SetToSeqs(rows) : ListIs(order, rows)
  BY <1>1, SortedLists
<1>3. \A order \in SetToSeqs(rows) : CustomerViews(order) = CustomerViews(SetToSeq(rows))
  BY <1>1, <1>2, ViewsSame
<1>4. Cardinality(CustomerViews(SetToSeq(rows))) = Cardinality({v.group : v \in CustomerViews(SetToSeq(rows))})
  BY <1>1, <1>2, ViewsApart DEF ListIs
<1> QED
  BY <1>1, <1>3, <1>4

\* From the stored rows to the measured run: no two rows have one identity, each is judged in
\* one record of the result and of its blind evaluation, the counts are, in whatever order the
\* tables are read, those of docs/benchmark-metrics.md with the informational notes of scanners
\* other than zap and nuclei added to the false positives, the customer's view does not depend
\* on the order of the findings, and a baseline holds ratios.
THEOREM ResultKeptFaithful == SuiteSpec => []ResultFaithful
<1>1. SuiteInv /\ ResultInv => ResultFaithful
  <2> SUFFICES ASSUME SuiteInv, ResultInv PROVE ResultFaithful
    OBVIOUS
  <2>1. Measurements
    <3>1. Cardinality({r.id : r \in rows}) = Cardinality(rows)
      BY RowsAre, IdsApart
    <3>2. baseline # None => baseline[1].recall \in 0..1000 /\ baseline[1].precision \in 0..1000
      BY DEF ResultInv, Permille
    <3> QED
      BY <3>1, <3>2, ZenonT(30) DEF Measurements
  <2> QED
    BY <2>1, OnceJudged, ByDefinition, OrderFree DEF ResultFaithful
<1>2. SuiteInit => SuiteInv /\ AnalysisInv /\ ResultInv
  BY SuiteInitInv, AnalysisInitInv, ResultInitInv
<1>3. SuiteInv /\ AnalysisInv /\ ResultInv /\ [SuiteNext]_suiteVars => (SuiteInv /\ AnalysisInv /\ ResultInv)'
  BY SuiteStep, AnalysisStep, ResultStep
<1> QED
  BY <1>1, <1>2, <1>3, PTL DEF SuiteSpec

=============================================================================

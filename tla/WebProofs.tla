----------------------------- MODULE WebProofs -----------------------------
(***************************************************************************)
(* The safety of the web dashboard's parts, for any instance of them.      *)
(*                                                                         *)
(* Each part has an inductive invariant of its own.  A step of the whole   *)
(* is one of the part that is watched and leaves every other part where it *)
(* is, so the invariant of the whole is their conjunction.                 *)
(***************************************************************************)
EXTENDS WebApp, BillingProofs

-----------------------------------------------------------------------------
(* The session begins in its invariant.                                    *)
LEMMA SessionStart == SessionInit => SessionIInv
  <1> SUFFICES ASSUME SessionInit PROVE SessionIInv
    OBVIOUS
  <1> USE WebSessionAssumption DEF SessionInit
  <1>1. /\ user \in {"loading", "nobody"} \cup Accounts
        /\ token \in Tokens \cup {NoToken} /\ stored \in Tokens \cup {NoToken}
        /\ page \in Pages /\ crossed \in BOOLEAN
    OBVIOUS
  <1>2. /\ live \subseteq issued /\ issued \subseteq Tokens
        /\ token # NoToken => token \in issued
    OBVIOUS
  <1>3. /\ requests \subseteq Requests
        /\ \A r \in requests : r.kind = "me" => r.token \in issued
    <2>1. stored # NoToken => Validation(stored) \in Requests
      BY DEF Validation, Requests
    <2>2. stored # NoToken =>
            Validation(stored).token \in issued
      BY DEF Validation
    <2> QED BY <2>1, <2>2
  <1>4. SignedInIsSelf
    BY DEF SignedInIsSelf
  <1> QED BY <1>1, <1>2, <1>3, <1>4 DEF SessionIInv, SessionTypeOK

(* A validation in flight bears a token that was issued.                   *)
LEMMA MeKnown ==
  ASSUME SessionTypeOK, NEW r \in requests, r.kind = "me"
  PROVE  r.token \in Tokens /\ r.token \in issued
  <1>1. r \in Requests /\ r.token \in issued /\ issued \subseteq Tokens
    BY DEF SessionTypeOK
  <1> QED BY <1>1

(* Taking an answer leaves the requests well formed.                       *)
LEMMA FewerRequests ==
  ASSUME SessionTypeOK, requests' \subseteq requests, issued \subseteq issued'
  PROVE  /\ requests' \subseteq Requests
         /\ \A r \in requests' : r.kind = "me" => r.token \in issued'
  BY DEF SessionTypeOK

(* The session's variables after a sign-out.                               *)
LEMMA LogoutSafe ==
  ASSUME SessionIInv, Logout, requests' \subseteq requests, UNCHANGED backend,
         page' \in Pages, crossed' \in BOOLEAN
  PROVE  SessionIInv'
  <1>1. token' = NoToken /\ user' = "nobody" /\ stored' = NoToken
    BY DEF Logout
  <1>2. UNCHANGED <<live, issued>>
    BY DEF backend
  <1>3. /\ requests' \subseteq Requests
        /\ \A r \in requests' : r.kind = "me" => r.token \in issued'
    BY <1>2, FewerRequests DEF SessionIInv
  <1>4. Requests' = Requests
    BY DEF Requests
  <1>5. SessionTypeOK'
    BY <1>1, <1>2, <1>3, <1>4 DEF SessionIInv, SessionTypeOK
  <1>6. SignedInIsSelf'
    BY <1>1, WebSessionAssumption DEF SignedInIsSelf
  <1> QED BY <1>1, <1>5, <1>6 DEF SessionIInv

(* The session's variables after an answer that leaves the token: the user *)
(* stays, is nobody, or is the token's owner unless the answer crossed.    *)
LEMMA AnswerSafe ==
  ASSUME SessionIInv, requests' \subseteq requests, UNCHANGED backend,
         UNCHANGED <<token, stored>>, page' \in Pages, crossed' \in BOOLEAN,
         crossed => crossed',
         \/ user' = user
         \/ user' = "nobody"
         \/ /\ user' \in Accounts
            /\ ~crossed' => token \in Tokens /\ user' = Owner[token]
  PROVE  SessionIInv'
  <1>2. UNCHANGED <<live, issued>>
    BY DEF backend
  <1>3. /\ requests' \subseteq Requests
        /\ \A r \in requests' : r.kind = "me" => r.token \in issued'
    BY <1>2, FewerRequests DEF SessionIInv
  <1>5. SessionTypeOK'
    BY <1>2, <1>3 DEF SessionIInv, SessionTypeOK
  <1>6. SignedInIsSelf'
    BY WebSessionAssumption DEF SignedInIsSelf, SessionIInv
  <1>7. stored' = token'
    BY DEF SessionIInv
  <1> QED BY <1>5, <1>6, <1>7 DEF SessionIInv

(* Every answer that is taken keeps the session's invariant.               *)
LEMMA AnswersSafe ==
  ASSUME SessionIInv, NEW r \in requests,
         Validated(r) \/ SessionExpired(r) \/ SignInFailed(r) \/ Answered(r)
  PROVE  SessionIInv'
  <1>1. page \in Pages /\ crossed \in BOOLEAN
    BY DEF SessionIInv, SessionTypeOK
  <1>2. CASE Validated(r)
    <2>1. /\ requests' \subseteq requests /\ UNCHANGED <<page, backend>>
          /\ crossed' = (crossed \/ r.token # token) /\ r.kind = "me"
      BY <1>2 DEF Validated, Take
    <2>2. crossed' \in BOOLEAN /\ (crossed => crossed')
      BY <1>1, <2>1
    <2>3. CASE user' = Owner[r.token] /\ UNCHANGED <<token, stored>>
      <3>1. r.token \in Tokens /\ Owner[r.token] \in Accounts
        BY <2>1, MeKnown, WebSessionAssumption DEF SessionIInv
      <3>2. /\ user' \in Accounts
            /\ ~crossed' => token \in Tokens /\ user' = Owner[token]
        BY <2>1, <2>3, <3>1
      <3> QED BY <1>1, <2>1, <2>2, <2>3, <3>2, AnswerSafe
    <2>4. CASE Logout
      BY <1>1, <2>1, <2>2, <2>4, LogoutSafe
    <2>5. CASE user' = "nobody" /\ UNCHANGED <<token, stored>>
      BY <1>1, <2>1, <2>2, <2>5, AnswerSafe
    <2> QED BY <1>2, <2>3, <2>4, <2>5 DEF Validated
  <1>3. CASE SessionExpired(r)
    <2>1. /\ requests' \subseteq requests /\ UNCHANGED <<page, backend>>
          /\ crossed' = (crossed \/ r.token # token) /\ Logout
      BY <1>3 DEF SessionExpired, Take
    <2> QED BY <1>1, <2>1, LogoutSafe
  <1>4. CASE SignInFailed(r) \/ Answered(r)
    <2>1. /\ requests' \subseteq requests
          /\ UNCHANGED <<user, token, stored, page, backend, crossed>>
      BY <1>4 DEF SignInFailed, Answered
    <2> QED BY <1>1, <2>1, AnswerSafe
  <1> QED BY <1>2, <1>3, <1>4

(* A sign-in that succeeds is that of its token's owner.                   *)
LEMMA SignedInSafe ==
  ASSUME SessionIInv, NEW r \in requests, NEW t \in Tokens, SignedIn(r, t)
  PROVE  SessionIInv'
  <1>1. /\ requests' \subseteq requests /\ issued' = issued \cup {t}
        /\ live' = live \cup {t} /\ stored' = t /\ token' = t
        /\ user' = Owner[t] /\ page' = "dashboard" /\ crossed' = FALSE
    BY DEF SignedIn
  <1>2. /\ requests' \subseteq Requests
        /\ \A q \in requests' : q.kind = "me" => q.token \in issued'
    BY <1>1, FewerRequests DEF SessionIInv
  <1>3. Owner[t] \in Accounts
    BY WebSessionAssumption
  <1>4. SessionTypeOK'
    BY <1>1, <1>2, <1>3 DEF SessionIInv, SessionTypeOK, Pages, Protected
  <1>5. SignedInIsSelf'
    BY <1>1 DEF SignedInIsSelf
  <1> QED BY <1>1, <1>4, <1>5 DEF SessionIInv

(* Every step of the session keeps its invariant.                          *)
LEMMA SessionSteps ==
  ASSUME SessionIInv, [SessionNext]_sessionVars PROVE SessionIInv'
  <1>0. /\ page \in Pages /\ crossed \in BOOLEAN
        /\ token \in Tokens \cup {NoToken} /\ stored = token
    BY DEF SessionIInv, SessionTypeOK
  <1>1. CASE UNCHANGED sessionVars
    <2>1. UNCHANGED <<user, token, stored, page, requests, backend, crossed>>
      BY <1>1 DEF sessionVars, backend
    <2> QED BY <1>0, <2>1, AnswerSafe
  <1>2. CASE Submit \/ Ask
    <2>1. UNCHANGED <<user, token, stored, page, live, issued, crossed>>
      BY <1>2 DEF Submit, Ask, backend
    <2>2. /\ requests' \subseteq Requests
          /\ \A r \in requests' : r.kind = "me" => r.token \in issued
      <3>1. CASE Submit
        <4>1. requests' = requests \cup {SignIn(page)} /\ page \in Forms
          BY <3>1 DEF Submit
        <4> QED BY <4>1 DEF SignIn, SessionIInv, SessionTypeOK, Requests
      <3>2. CASE Ask
        <4>1. requests' = requests \cup {Api(token)}
          BY <3>2 DEF Ask
        <4> QED BY <1>0, <4>1 DEF Api, SessionIInv, SessionTypeOK, Requests
      <3> QED BY <1>2, <3>1, <3>2
    <2>3. SessionTypeOK'
      BY <2>1, <2>2 DEF SessionIInv, SessionTypeOK
    <2> QED BY <2>1, <2>3 DEF SessionIInv, SignedInIsSelf
  <1>3. CASE Redirect \/ \E p \in Pages : Navigate(p)
    <2>1. /\ UNCHANGED <<user, token, stored, requests, backend, crossed>>
          /\ page' \in Pages
      BY <1>3 DEF Redirect, Navigate, Pages, Protected, Forms
    <2> QED BY <1>0, <2>1, AnswerSafe
  <1>4. CASE SignOut
    <2>1. /\ Logout /\ page' \in Pages /\ crossed' \in BOOLEAN
          /\ UNCHANGED <<requests, backend>>
      BY <1>4 DEF SignOut, HandleLogout, Pages, Protected, Forms
    <2> QED BY <2>1, LogoutSafe
  <1>5. CASE Reload
    <2>1. /\ token' = stored /\ UNCHANGED <<stored, page, live, issued>>
          /\ user' = IF stored = NoToken THEN "nobody" ELSE "loading"
          /\ requests' = IF stored = NoToken THEN {} ELSE {Validation(stored)}
          /\ crossed' = FALSE
      BY <1>5 DEF Reload, Mounted, backend
    <2>2. /\ requests' \subseteq Requests
          /\ \A r \in requests' : r.kind = "me" => r.token \in issued
      <3>1. stored # NoToken => stored \in issued /\ stored \in Tokens
        BY <1>0 DEF SessionIInv, SessionTypeOK
      <3>2. stored # NoToken => Validation(stored) \in Requests
        BY <3>1 DEF Validation, Requests
      <3>3. stored # NoToken => Validation(stored).token \in issued
        BY <3>1 DEF Validation
      <3> QED BY <2>1, <3>2, <3>3
    <2>3. SessionTypeOK'
      BY <1>0, <2>1, <2>2 DEF SessionIInv, SessionTypeOK
    <2>4. user' \notin Accounts
      BY <2>1, WebSessionAssumption
    <2> QED BY <1>0, <2>1, <2>3, <2>4 DEF SessionIInv, SignedInIsSelf
  <1>6. ASSUME NEW t \in Tokens, Expire(t) PROVE SessionIInv'
    BY <1>6 DEF Expire, SessionIInv, SessionTypeOK, SignedInIsSelf
  <1> QED BY <1>1, <1>2, <1>3, <1>4, <1>5, <1>6, AnswersSafe, SignedInSafe
          DEF SessionNext

(* A token that is accepted is given up by signing out only.               *)
LEMMA AcceptedStays ==
  ASSUME SessionIInv, [SessionNext]_sessionVars, token \in live,
         token' = NoToken
  PROVE  crossed' \/ SignOut
  <1>0. token \in Tokens /\ NoToken \notin Tokens /\ stored = token
    BY WebSessionAssumption DEF SessionIInv, SessionTypeOK
  <1>1. CASE UNCHANGED token
    BY <1>0, <1>1
  <1>2. ASSUME NEW r \in requests, Validated(r) \/ SessionExpired(r),
               token' # token
        PROVE  crossed'
    <2>1. Denied(r) /\ Take(r)
      BY <1>2 DEF Validated, SessionExpired
    <2> QED BY <2>1 DEF Denied, Take
  <1>3. ASSUME NEW r \in requests, NEW t \in Tokens, SignedIn(r, t)
        PROVE  FALSE
    BY <1>0, <1>3 DEF SignedIn
  <1>4. CASE Reload
    BY <1>0, <1>4 DEF Reload, Mounted
  <1>5. ASSUME NEW r \in requests, SignInFailed(r) \/ Answered(r)
        PROVE  UNCHANGED token
    BY <1>5 DEF SignInFailed, Answered
  <1>6. CASE Submit \/ Ask \/ Redirect \/ \E p \in Pages : Navigate(p)
    BY <1>1, <1>6 DEF Submit, Ask, Redirect, Navigate
  <1>7. CASE (\E t \in Tokens : Expire(t)) \/ UNCHANGED sessionVars
    BY <1>1, <1>7 DEF Expire, sessionVars
  <1>8. ASSUME NEW r \in requests, Validated(r) PROVE crossed' \/ token' = token
    BY <1>2, <1>8
  <1>9. ASSUME NEW r \in requests, SessionExpired(r)
        PROVE  crossed' \/ token' = token
    BY <1>2, <1>9
  <1> QED BY <1>1, <1>3, <1>4, <1>5, <1>6, <1>7, <1>8, <1>9 DEF SessionNext

-----------------------------------------------------------------------------
(* A list is a worker's, and it has recorded what is on it.                *)
LEMMA ListOf ==
  /\ \A l \in Lists : l.of \in Workers /\ l.seen \in 0 .. failovers[l.of]
  /\ \A w \in Workers : \A n \in 0 .. failovers[w] :
       /\ List(w, n) \in Lists
       /\ List(w, n).of = w /\ List(w, n).seen = n
  BY DEF Lists, List

(* The lists there may be only grow.                                       *)
LEMMA ListsGrow ==
  ASSUME failovers' \in [Workers -> Nat],
         \A w \in Workers : failovers[w] \in Nat /\ failovers'[w] >= failovers[w]
  PROVE  Lists \subseteq Lists'
  <1> SUFFICES ASSUME NEW w \in Workers, NEW n \in 0 .. failovers[w]
               PROVE  List(w, n) \in Lists'
    BY DEF Lists
  <1>1. n \in 0 .. failovers'[w]
    OBVIOUS
  <1> QED BY <1>1 DEF Lists, List

(* The polls of the failovers begin in their invariant.                    *)
LEMMA PollsStart == PollsInit => PollsIInv
  <1> SUFFICES ASSUME PollsInit PROVE PollsIInv
    OBVIOUS
  <1> USE FailoverPollsAssumption, BackendAssumption DEF PollsInit
  <1>0. /\ failovers \in [Workers -> 0 .. MaxFailovers]
        /\ \A w \in Workers : failovers[w] = 0
    OBVIOUS
  <1>1. NoEvents.seen = 0 /\ NoEvents \in Lists
    <2> DEFINE x == CHOOSE w \in Workers : TRUE
    <2>1. x \in Workers
      OBVIOUS
    <2>2. NoEvents = List(x, 0)
      BY DEF NoEvents
    <2> HIDE DEF x
    <2>3. 0 \in 0 .. failovers[x]
      BY <1>0, <2>1
    <2> QED BY <2>1, <2>2, <2>3, ListOf
  <1>2. /\ prevEvents \in [Visits -> Lists]
        /\ \A v \in Visits : prevEvents[v].seen = 0
    BY <1>1
  <1>3. /\ announced \in [Visits -> [Workers -> [Failovers -> 0 .. 2]]]
        /\ \A v \in Visits : \A w \in Workers : \A f \in Failovers :
             announced[v][w][f] = 0
    OBVIOUS
  <1>4. onPage \in BOOLEAN /\ (onPage => visit > 0) /\ jumbled \subseteq Visits
    OBVIOUS
  <1>5. PollsTypeOK
    BY <1>0, <1>2, <1>3, <1>4 DEF PollsTypeOK
  <1>6. AnnouncedOnce /\ NoneAhead
    BY <1>2, <1>3 DEF AnnouncedOnce, NoneAhead
  <1> QED BY <1>5, <1>6 DEF PollsIInv

(* Where no answer is taken, what was announced stays right.               *)
LEMMA NothingTaken ==
  ASSUME PollsIInv, UNCHANGED <<prevEvents, announced, jumbled>>
  PROVE  AnnouncedOnce' /\ NoneAhead'
  BY DEF PollsIInv, AnnouncedOnce, NoneAhead

(* An answer that is taken in its order announces what is new to it.       *)
LEMMA AnswerTaken ==
  ASSUME PollsIInv, NEW p \in polls, PollTaken(p) PROVE PollsIInv'
  <1> DEFINE v == p.visit
             w == p.list.of
             n == p.list.seen
             prev == prevEvents[v]
  <1>0. PollsTypeOK /\ AnnouncedOnce /\ NoneAhead
    BY DEF PollsIInv
  <1>1. /\ v \in Visits /\ v \in 1 .. visit /\ p.list \in Lists
        /\ visit \in 0 .. MaxVisits /\ failovers \in [Workers -> 0 .. MaxFailovers]
        /\ announced \in [Visits -> [Workers -> [Failovers -> 0 .. 2]]]
        /\ prevEvents \in [Visits -> Lists]
    BY <1>0, FailoverPollsAssumption DEF PollsTypeOK, Visits
  <1>2. prev \in Lists
    BY <1>1
  <1>3. /\ w \in Workers /\ n \in 0 .. MaxFailovers /\ n \in Nat
        /\ prev.of \in Workers /\ prev.seen \in 0 .. MaxFailovers
    BY <1>1, <1>2, ListOf, FailoverPollsAssumption
  <1>4. /\ UNCHANGED <<onPage, visit, failovers>> /\ polls' \subseteq polls
        /\ prevEvents' = [prevEvents EXCEPT ![v] = p.list]
        /\ jumbled \subseteq jumbled' /\ jumbled' \subseteq jumbled \cup {v}
        /\ v \notin jumbled' => Follows(p.list, prev)
    BY <1>0, <1>1 DEF PollTaken
  <1>5. /\ announced' \in [Visits -> [Workers -> [Failovers -> 0 .. 2]]]
        /\ \A u \in Visits : \A x \in Workers : \A f \in Failovers :
             announced'[u][x][f] =
               IF News(p) /\ n > 0 /\ u = v /\ x = w /\ f = n
               THEN IF announced[v][w][n] = 0 THEN 1 ELSE 2
               ELSE announced[u][x][f]
    <2>1. CASE News(p) /\ n > 0
      <3> DEFINE e == IF announced[v][w][n] = 0 THEN 1 ELSE 2
      <3>1. e \in 0 .. 2 /\ n \in Failovers
        BY <1>3, <2>1, FailoverPollsAssumption DEF Failovers
      <3>2. announced' = [announced EXCEPT ![v] =
                            [announced[v] EXCEPT ![w] =
                               [announced[v][w] EXCEPT ![n] = e]]]
        BY <2>1 DEF PollTaken, Announce
      <3> HIDE DEF e, v, w, n
      <3>3. /\ announced[v] \in [Workers -> [Failovers -> 0 .. 2]]
            /\ announced[v][w] \in [Failovers -> 0 .. 2]
        BY <1>1, <1>3
      <3>4. [announced[v][w] EXCEPT ![n] = e] \in [Failovers -> 0 .. 2]
        BY <3>1, <3>3
      <3>5. [announced[v] EXCEPT ![w] = [announced[v][w] EXCEPT ![n] = e]]
              \in [Workers -> [Failovers -> 0 .. 2]]
        BY <3>3, <3>4
      <3>6. announced' \in [Visits -> [Workers -> [Failovers -> 0 .. 2]]]
        BY <1>1, <3>2, <3>5
      <3>7. \A u \in Visits : \A x \in Workers : \A f \in Failovers :
              announced'[u][x][f] =
                IF u = v /\ x = w /\ f = n THEN e ELSE announced[u][x][f]
        BY <1>1, <1>3, <3>1, <3>2, <3>3
      <3> QED BY <2>1, <3>6, <3>7 DEF e
    <2>2. CASE ~(News(p) /\ n > 0)
      BY <1>1, <2>2 DEF PollTaken
    <2> QED BY <2>1, <2>2
  <1>6. /\ prevEvents'[v] = p.list
        /\ \A u \in Visits \ {v} : prevEvents'[u] = prevEvents[u]
    BY <1>1, <1>4
  <1>7. PollsTypeOK'
    <2>1. Lists' = Lists
      BY <1>4 DEF Lists
    <2>2. prevEvents' \in [Visits -> Lists]
      BY <1>1, <1>4
    <2>3. jumbled' \subseteq Visits
      BY <1>0, <1>1, <1>4 DEF PollsTypeOK
    <2> QED BY <1>0, <1>4, <1>5, <2>1, <2>2, <2>3 DEF PollsTypeOK
  <1>8. ASSUME v \notin jumbled'
        PROVE  /\ \A x \in Workers : \A f \in Failovers :
                    /\ announced'[v][x][f] <= 1
                    /\ announced'[v][x][f] > 0 => x = w /\ f <= n
               /\ n \in 1 .. Kept => announced'[v][w][n] = 1
    <2>1. /\ v \in Visits \ jumbled
          /\ prev.seen = 0 \/ (w = prev.of /\ n >= prev.seen)
      BY <1>1, <1>4, <1>8 DEF Follows
    <2>2. /\ \A x \in Workers : \A f \in Failovers :
               announced[v][x][f] \in 0 .. 1
          /\ prev.seen \in 1 .. Kept => announced[v][prev.of][prev.seen] = 1
      BY <1>0, <1>1, <2>1 DEF AnnouncedOnce
    <2>3. \A x \in Workers : \A f \in Failovers :
            announced[v][x][f] > 0 => x = prev.of /\ f <= prev.seen
      BY <1>0, <2>1 DEF NoneAhead
    <2>4. /\ Failovers = 1 .. MaxFailovers /\ Kept \in Nat /\ MaxFailovers \in Nat
          /\ News(p) <=> (IF n < Kept THEN n ELSE Kept)
                           > (IF prev.seen < Kept THEN prev.seen ELSE Kept)
      BY FailoverPollsAssumption DEF Failovers, News, Listed
    <2> HIDE DEF v, w, n, prev
    <2>5. \A x \in Workers : \A f \in Failovers :
            announced[v][x][f] > 0 => x = w /\ f <= n /\ prev.seen > 0
      BY <1>3, <2>1, <2>3, <2>4
    <2>6. CASE News(p) /\ n > 0
      <3>1. n \in Failovers /\ n > prev.seen
        BY <1>3, <2>4, <2>6
      <3>2. announced[v][w][n] = 0
        BY <1>3, <2>2, <2>3, <2>4, <3>1
      <3>3. announced'[v][w][n] = 1
        BY <1>1, <1>3, <1>5, <2>6, <3>1, <3>2
      <3>4. ASSUME NEW x \in Workers, NEW f \in Failovers, ~(x = w /\ f = n)
            PROVE  announced'[v][x][f] = announced[v][x][f]
        BY <1>1, <1>5, <3>4
      <3> QED BY <1>3, <2>2, <2>4, <2>5, <3>1, <3>3, <3>4
    <2>7. CASE ~(News(p) /\ n > 0)
      <3>1. \A x \in Workers : \A f \in Failovers :
              announced'[v][x][f] = announced[v][x][f]
        BY <1>1, <1>5, <2>7
      <3>2. n \in 1 .. Kept => w = prev.of /\ n = prev.seen
        BY <1>3, <2>1, <2>4, <2>7
      <3>3. n \in 1 .. Kept => n \in Failovers
        BY <1>3, <2>4
      <3> QED BY <1>3, <2>2, <2>4, <2>5, <3>1, <3>2, <3>3
    <2> QED BY <2>6, <2>7
  <1>9. ASSUME NEW u \in Visits \ jumbled', u # v
        PROVE  /\ u \in Visits \ jumbled /\ prevEvents'[u] = prevEvents[u]
               /\ \A x \in Workers : \A f \in Failovers :
                    announced'[u][x][f] = announced[u][x][f]
    BY <1>4, <1>5, <1>6, <1>9
  <1>10. AnnouncedOnce'
    <2> SUFFICES ASSUME NEW u \in Visits \ jumbled'
                 PROVE  /\ \A x \in Workers, f \in Failovers :
                             announced'[u][x][f] <= 1
                        /\ prevEvents'[u].seen \in 1 .. Kept =>
                             announced'[u][prevEvents'[u].of]
                                          [prevEvents'[u].seen] = 1
      BY DEF AnnouncedOnce, Visits, Failovers
    <2>1. CASE u = v
      BY <1>6, <1>8, <2>1
    <2>2. CASE u # v
      <3>1. prevEvents[u] \in Lists
        BY <1>1
      <3>2. /\ prevEvents[u].of \in Workers
            /\ prevEvents[u].seen \in 1 .. Kept =>
                 prevEvents[u].seen \in Failovers
        BY <1>1, <3>1, ListOf, FailoverPollsAssumption DEF Failovers
      <3> QED BY <1>0, <1>9, <2>2, <3>2 DEF AnnouncedOnce
    <2> QED BY <2>1, <2>2
  <1>11. NoneAhead'
    <2> SUFFICES ASSUME NEW u \in Visits \ jumbled', NEW x \in Workers,
                        NEW f \in Failovers, announced'[u][x][f] > 0
                 PROVE  x = prevEvents'[u].of /\ f <= prevEvents'[u].seen
      BY DEF NoneAhead, Visits, Failovers
    <2>1. CASE u = v
      BY <1>6, <1>8, <2>1
    <2>2. CASE u # v
      BY <1>0, <1>9, <2>2 DEF NoneAhead
    <2> QED BY <2>1, <2>2
  <1> QED BY <1>7, <1>10, <1>11 DEF PollsIInv

(* Every step of the polls keeps it.                                       *)
LEMMA PollsSteps ==
  ASSUME PollsIInv, [PollsNext]_pollVars PROVE PollsIInv'
  <1>0. PollsTypeOK
    BY DEF PollsIInv
  <1>1. ASSUME NEW w \in Workers, RecordFailover(w) PROVE PollsIInv'
    <2>1. /\ failovers' \in [Workers -> 0 .. MaxFailovers]
          /\ \A x \in Workers : failovers'[x] >= failovers[x]
      BY <1>0, <1>1, FailoverPollsAssumption DEF PollsTypeOK, RecordFailover
    <2>2. Lists \subseteq Lists'
      BY <1>0, <2>1, ListsGrow, FailoverPollsAssumption DEF PollsTypeOK
    <2>3. UNCHANGED <<onPage, visit, polls, prevEvents, announced, jumbled>>
      BY <1>1 DEF RecordFailover
    <2>4. PollsTypeOK'
      BY <1>0, <2>1, <2>2, <2>3 DEF PollsTypeOK
    <2> QED BY <2>3, <2>4, NothingTaken DEF PollsIInv
  <1>2. ASSUME UNCHANGED <<failovers, prevEvents, announced, jumbled>>,
               onPage' \in BOOLEAN, visit' \in visit .. MaxVisits,
               onPage' => visit' > 0,
               polls' \subseteq [visit : 1 .. visit', list : Lists]
        PROVE  PollsIInv'
    <2>1. Lists' = Lists
      BY <1>2 DEF Lists
    <2>2. visit' \in 0 .. MaxVisits
      BY <1>0, <1>2, FailoverPollsAssumption DEF PollsTypeOK
    <2>3. PollsTypeOK'
      BY <1>0, <1>2, <2>1, <2>2 DEF PollsTypeOK
    <2> QED BY <1>2, <2>3, NothingTaken DEF PollsIInv
  <1>3. /\ onPage \in BOOLEAN /\ visit \in 0 .. MaxVisits
        /\ visit \in visit .. MaxVisits /\ (onPage => visit > 0)
        /\ polls \subseteq [visit : 1 .. visit, list : Lists]
    BY <1>0, FailoverPollsAssumption DEF PollsTypeOK
  <1>4. CASE UNCHANGED pollVars
    BY <1>2, <1>3, <1>4 DEF pollVars
  <1>5. CASE OpenPage
    <2>1. visit' \in visit .. MaxVisits /\ visit' = visit + 1
      BY <1>3, <1>5, FailoverPollsAssumption DEF OpenPage
    <2>2. polls' \subseteq [visit : 1 .. visit', list : Lists]
      BY <1>3, <1>5, <2>1 DEF OpenPage
    <2> QED BY <1>2, <1>3, <1>5, <2>1, <2>2 DEF OpenPage
  <1>6. CASE LeavePage
    BY <1>2, <1>3, <1>6 DEF LeavePage
  <1>7. ASSUME NEW w \in Workers, Poll(w) PROVE PollsIInv'
    <2>1. List(w, failovers[w]) \in Lists
      BY <1>0, ListOf, FailoverPollsAssumption DEF PollsTypeOK
    <2>2. visit \in 1 .. visit
      BY <1>3, <1>7 DEF Poll
    <2>3. polls' \subseteq [visit : 1 .. visit, list : Lists]
      BY <1>3, <1>7, <2>1, <2>2 DEF Poll
    <2> QED BY <1>2, <1>3, <1>7, <2>3 DEF Poll
  <1>8. ASSUME NEW p \in polls, PollFailed(p) PROVE PollsIInv'
    BY <1>2, <1>3, <1>8 DEF PollFailed
  <1> QED BY <1>1, <1>4, <1>5, <1>6, <1>7, <1>8, AnswerTaken DEF PollsNext

-----------------------------------------------------------------------------
(* The stream's types.                                                     *)
LEMMA StreamStart == StreamInit => StreamTypeOK
  <1> SUFFICES ASSUME StreamInit PROVE StreamTypeOK
    OBVIOUS
  <1>1. onScreen \in BOOLEAN /\ connected \in BOOLEAN
    BY DEF StreamInit
  <1>2. stream \in
          [Runs -> {"none", "connecting", "open", "closing", "waiting"}]
    BY DEF StreamInit
  <1>3. /\ mount \in 0 .. MaxMounts /\ run \in 0 .. MaxRuns
        /\ wsRef \in 0 .. MaxRuns
    BY MetricsStreamAssumption DEF StreamInit
  <1>4. streamOf \in [Runs -> 0 .. MaxMounts]
    BY MetricsStreamAssumption DEF StreamInit
  <1> QED BY <1>1, <1>2, <1>3, <1>4 DEF StreamTypeOK

(* The page is mounted, with a new run of the effect.                      *)
LEMMA MountTypes == ASSUME StreamTypeOK, Mount PROVE StreamTypeOK'
  <1>1. onScreen' \in BOOLEAN /\ connected' \in BOOLEAN
    BY DEF Mount
  <1> USE MetricsStreamAssumption
  <1>2. /\ mount' \in 0 .. MaxMounts /\ run' \in 0 .. MaxRuns
        /\ wsRef' \in 0 .. MaxRuns
    BY DEF Mount, NewRun, StreamTypeOK
  <1>3. stream' \in
          [Runs -> {"none", "connecting", "open", "closing", "waiting"}]
    BY DEF Mount, NewRun, StreamTypeOK
  <1>4. streamOf' \in [Runs -> 0 .. MaxMounts]
    <2>1. streamOf' = [streamOf EXCEPT ![run + 1] = mount + 1]
      BY DEF Mount, NewRun
    <2>2. mount + 1 \in 0 .. MaxMounts
      BY DEF Mount, StreamTypeOK
    <2>3. streamOf \in [Runs -> 0 .. MaxMounts]
      BY DEF StreamTypeOK
    <2> QED BY <2>1, <2>2, <2>3
  <1> QED BY <1>1, <1>2, <1>3, <1>4 DEF StreamTypeOK

(* A run opens, closes or connects again.                                  *)
LEMMA RunTypes ==
  ASSUME StreamTypeOK, NEW r \in Runs, Opened(r) \/ Closed(r) \/ Reconnect(r)
  PROVE  StreamTypeOK'
  <1>1. onScreen' \in BOOLEAN /\ connected' \in BOOLEAN
    BY DEF Opened, Closed, Reconnect, StreamTypeOK
  <1> USE MetricsStreamAssumption
  <1>2. UNCHANGED <<mount, run, streamOf>>
    BY DEF Opened, Closed, Reconnect
  <1>4. wsRef' \in {wsRef, r}
    BY DEF Opened, Closed, Reconnect
  <1>3. stream' \in
          [Runs -> {"none", "connecting", "open", "closing", "waiting"}]
    BY DEF Opened, Closed, Reconnect, StreamTypeOK
  <1> QED BY <1>1, <1>2, <1>3, <1>4 DEF StreamTypeOK, Runs

(* Every step of the stream keeps its types.                               *)
LEMMA StreamSteps ==
  ASSUME StreamTypeOK, [StreamNext]_streamVars PROVE StreamTypeOK'
  <1> USE MetricsStreamAssumption DEF StreamTypeOK
  <1>1. CASE UNCHANGED streamVars
    BY <1>1 DEF streamVars
  <1>2. CASE Unmount
    BY <1>2 DEF Unmount, Cleanup
  <1>3. CASE TokenChanges
    <2>1. Cleanup \in [Runs -> {"none", "connecting", "open", "closing",
                                "waiting"}]
      BY DEF Cleanup
    <2> QED BY <1>3, <2>1 DEF TokenChanges, NewRun, Runs
  <1> QED BY <1>1, <1>2, <1>3, MountTypes, RunTypes DEF StreamNext

-----------------------------------------------------------------------------
(* The latency test's state is well formed.                                *)
LEMMA JitterStart == JitterInit => JitterTypeOK
  <1> SUFFICES ASSUME JitterInit PROVE JitterTypeOK
    OBVIOUS
  <1> USE JitterTestAssumption
  <1>1. mounted \in BOOLEAN /\ mixed \in BOOLEAN
    BY DEF JitterInit
  <1>2. /\ phase = "idle" /\ test = 0 /\ timerRef = 0 /\ readings = 0
        /\ spikes = 0 /\ elapsed = 0 /\ intervals = {}
    BY DEF JitterInit
  <1>3. /\ warming \in [Tests -> 0 .. 2] /\ age \in [Tests -> 0 .. Duration]
        /\ pings \in [Tests -> 0 .. MaxPings]
    BY DEF JitterInit
  <1>4. \A t \in Tests : warming[t] = 0 /\ pings[t] = 0
    BY DEF JitterInit
  <1> QED BY <1>1, <1>2, <1>3, <1>4 DEF JitterTypeOK

(* A warm-up ping that is over keeps the types.                            *)
LEMMA WarmedKeepsTypes ==
  ASSUME JitterTypeOK, NEW t \in Tests, Warmed(t) PROVE JitterTypeOK'
  <1> USE JitterTestAssumption
  <1>1. mounted' \in BOOLEAN /\ mixed' \in BOOLEAN
    BY DEF JitterTypeOK, Warmed
  <1>2. /\ UNCHANGED <<test, age, pings, readings, spikes, elapsed>>
       /\ \/ UNCHANGED <<phase, intervals, timerRef>>
          \/ /\ phase' = "running" /\ timerRef' = t
             /\ intervals' = intervals \cup {t}
    BY DEF Warmed
  <1>3. warming' = [warming EXCEPT ![t] = warming[t] - 1] /\ warming[t] > 0
    BY DEF Warmed
  <1>4. /\ warming \in [Tests -> 0 .. 2] /\ t <= test
        /\ \A u \in Tests : warming[u] > 0 \/ pings[u] > 0 => u <= test
    BY <1>3 DEF JitterTypeOK
  <1>5. /\ warming' \in [Tests -> 0 .. 2]
        /\ \A u \in Tests : warming'[u] > 0 => warming[u] > 0
    BY <1>3, <1>4
  <1>6. t \in 1 .. test /\ test \in 0 .. MaxTests
    <2>1. test \in 0 .. MaxTests
      BY DEF JitterTypeOK
    <2> QED BY <1>4, <2>1 DEF Tests
  <1>7. /\ phase' \in {"idle", "warmup", "running", "done"}
        /\ phase' = "done" => test > 0
    BY <1>2 DEF JitterTypeOK
  <1>8. timerRef' \in 0 .. test /\ intervals' \subseteq 1 .. test
    <2>1. timerRef \in 0 .. test /\ intervals \subseteq 1 .. test
      BY DEF JitterTypeOK
    <2>2. t \in 0 .. test
      BY <1>6
    <2>3. timerRef' \in {timerRef, t} /\ intervals' \subseteq intervals \cup {t}
      BY <1>2
    <2> QED BY <1>6, <2>1, <2>2, <2>3
  <1>9. \A u \in Tests : warming'[u] > 0 \/ pings[u] > 0 => u <= test
    BY <1>4, <1>5
  <1> QED BY <1>1, <1>2, <1>5, <1>6, <1>7, <1>8, <1>9
             DEF JitterTypeOK

(* A ping that is over was one of a test begun.                            *)
LEMMA AnswerOver ==
  ASSUME JitterTypeOK, NEW t \in Tests, Taken(t)
  PROVE  /\ pings' \in [Tests -> 0 .. MaxPings] /\ t <= test
         /\ \A u \in Tests : pings'[u] > 0 => pings[u] > 0
  <1>1. /\ pings \in [Tests -> 0 .. MaxPings] /\ pings[t] > 0
        /\ pings' = [pings EXCEPT ![t] = pings[t] - 1]
    BY DEF JitterTypeOK, Taken
  <1>2. pings[t] \in 0 .. MaxPings /\ pings[t] - 1 \in 0 .. MaxPings
    BY <1>1, JitterTestAssumption
  <1>3. t <= test
    BY <1>1 DEF JitterTypeOK
  <1> QED BY <1>1, <1>2, <1>3

(* A ping that is sent, or measures nothing, keeps the types.              *)
LEMMA PingsKeepTypes ==
  ASSUME JitterTypeOK, NEW t \in Tests, Fire(t) \/ Unmeasured(t)
  PROVE  JitterTypeOK'
  <1> USE JitterTestAssumption
  <1>1. UNCHANGED <<mounted, phase, test, warming, age, intervals, timerRef,
                 readings, spikes, elapsed, mixed>>
    BY DEF Fire, Unmeasured
  <1>2. /\ pings' \in [Tests -> 0 .. MaxPings]
        /\ \A u \in Tests : pings'[u] > 0 => pings[u] > 0 \/ u <= test
    <2>1. CASE Unmeasured(t)
      BY <2>1, AnswerOver DEF Unmeasured
    <2>2. CASE Fire(t)
      BY <2>2 DEF Fire, JitterTypeOK, Tests
    <2> QED BY <2>1, <2>2
  <1> QED BY <1>1, <1>2 DEF JitterTypeOK

(* So does an answer.                                                      *)
LEMMA MeasuredKeepsTypes ==
  ASSUME JitterTypeOK, NEW t \in Tests, Measured(t) PROVE JitterTypeOK'
  <1> USE JitterTestAssumption
  <1>1. mounted' \in BOOLEAN /\ mixed' \in BOOLEAN
    BY DEF JitterTypeOK, Measured
  <1>2. /\ UNCHANGED <<test, warming, age, timerRef>> /\ elapsed' = age[t]
        /\ intervals' \subseteq intervals
        /\ phase' = IF Over(t) THEN "done" ELSE phase
    BY DEF Measured
  <1>3. /\ pings' \in [Tests -> 0 .. MaxPings] /\ t <= test
        /\ \A u \in Tests : pings'[u] > 0 => pings[u] > 0
    BY AnswerOver DEF Measured
  <1>4. readings' \in 0 .. MaxReadings /\ spikes' \in 0 .. MaxReadings
    BY DEF JitterTypeOK, Measured, UpTo
  <1>5. age[t] \in 0 .. Duration
    BY DEF JitterTypeOK
  <1> QED BY <1>1, <1>2, <1>3, <1>4, <1>5 DEF JitterTypeOK, Tests

(* Every step of the test keeps its state well formed.                     *)
LEMMA JitterSteps ==
  ASSUME JitterTypeOK, [JitterNext]_jitterVars PROVE JitterTypeOK'
  <1> USE JitterTestAssumption DEF JitterTypeOK, Tests
  <1>1. CASE UNCHANGED jitterVars
    BY <1>1 DEF jitterVars
  <1>2. CASE Start
    BY <1>2 DEF Start
  <1>3. CASE LeaveTest
    BY <1>3 DEF LeaveTest
  <1>4. CASE Tick
    BY <1>4 DEF Tick, Begun, UpTo
  <1> QED BY <1>1, <1>2, <1>3, <1>4, WarmedKeepsTypes, PingsKeepTypes,
             MeasuredKeepsTypes DEF JitterNext

-----------------------------------------------------------------------------
(* A sample waits: it is buffered, or in a batch that is not saved.        *)
Waits(s) == s \in buffer \/ \E b \in batches : b.state = "sent" /\ s \in b.samples

(* What a batch may be.                                                    *)
Batches(n, k) ==
  [samples : SUBSET (1 .. n), state : {"sent", "saved", "thrown"},
   opening : 1 .. k]

(* What the samples' invariant says of every sample.                       *)
Accounted ==
  /\ \A s \in 1 .. measured :
       Waits(s) \/ s \in Saved \/ s \in refused \/ s \in abandoned
  /\ \A s \in Samples : log[s] > 1 => s \in unheard

(* Pending is what waits, now and after a step.                            *)
LEMMA PendingWaits ==
  /\ \A s : s \in Pending <=> Waits(s)
  /\ \A s : s \in Pending' <=> Waits(s)'
  BY DEF Pending, Unsaved, Waits

(* Samples are accounted for one by one.                                   *)
LEMMA OneByOne ==
  /\ PingTypeOK => (EverySampleAccounted <=> Accounted)
  /\ PingTypeOK' => (EverySampleAccounted' <=> Accounted')
  <1>1. ASSUME PingTypeOK PROVE EverySampleAccounted <=> Accounted
    <2>1. Pending \cup Saved \cup refused \cup abandoned \subseteq 1 .. measured
      <3>1. \A b \in batches : b.samples \subseteq 1 .. measured
        BY <1>1 DEF PingTypeOK
      <3> QED BY <1>1, <3>1, PendingWaits DEF Waits, PingTypeOK
    <2> QED BY <2>1, PendingWaits DEF EverySampleAccounted, Accounted
  <1>2. ASSUME PingTypeOK' PROVE EverySampleAccounted' <=> Accounted'
    <2>1. (Pending \cup Saved \cup refused \cup abandoned)'
            \subseteq 1 .. measured'
      <3>1. \A b \in batches' : b.samples \subseteq 1 .. measured'
        BY <1>2 DEF PingTypeOK
      <3> QED BY <1>2, <3>1, PendingWaits DEF Waits, PingTypeOK
    <2> QED BY <2>1, PendingWaits DEF EverySampleAccounted, Accounted
  <1> QED BY <1>1, <1>2

(* The samples begin in their invariant.                                   *)
LEMMA PingStart == PingInit => PingIInv
  <1> SUFFICES ASSUME PingInit PROVE PingIInv
    OBVIOUS
  <1> USE PingLoggerAssumption DEF PingInit
  <1>1. Saved = {} /\ log \in [Samples -> 0 .. 2]
    BY DEF Saved
  <1>2. opened \in BOOLEAN /\ (opened => opening > 0)
    OBVIOUS
  <1>3. PingTypeOK
    BY <1>1, <1>2 DEF PingTypeOK
  <1>4. Accounted
    BY DEF Accounted
  <1>5. OnePlace /\ NoPlace /\ ChartKeepsUp
    BY <1>1 DEF OnePlace, NoPlace, ChartKeepsUp, Unsaved, Awaited
  <1> QED BY <1>3, <1>4, <1>5, OneByOne DEF PingIInv

(* Where no sample moves, they stay accounted for and in one place.        *)
LEMMA NoneMoves ==
  ASSUME PingIInv, PingTypeOK',
         UNCHANGED <<measured, buffer, batches, logVars, abandoned>>
  PROVE  EverySampleAccounted' /\ OnePlace'
  <1>1. UNCHANGED <<log, unheard, refused>>
    BY DEF logVars
  <1>2. Saved' = Saved /\ Pending' = Pending
    BY <1>1 DEF Saved, Pending, Unsaved
  <1> QED BY <1>1, <1>2 DEF PingIInv, EverySampleAccounted, OnePlace, Awaited

(* The page is opened, and what is under way is not its own.               *)
LEMMA OpenAccounts == ASSUME PingIInv, Open PROVE PingIInv'
  <1> USE PingLoggerAssumption
  <1>1. /\ ~opened /\ opened' /\ opening < MaxOpenings
        /\ opening' = opening + 1 /\ chart' = {} /\ buffer' = {}
        /\ charted' = {} /\ historyLoad' = "asked" /\ history' = {}
        /\ UNCHANGED <<measured, batches, log, unheard, refused, abandoned>>
    BY DEF Open, logVars
  <1>2. buffer = {} /\ opening \in 0 .. MaxOpenings
    BY <1>1 DEF PingIInv, PingTypeOK
  <1>3. batches' \subseteq Batches(measured, opening')
    BY <1>1, <1>2 DEF PingIInv, PingTypeOK, Batches
  <1>4. Saved' = Saved /\ opened' \in BOOLEAN /\ opening' \in 0 .. MaxOpenings
    BY <1>1, <1>2 DEF Saved, Open
  <1>5. PingTypeOK'
    BY <1>1, <1>2, <1>3, <1>4 DEF PingIInv, PingTypeOK, Batches
  <1>6. EverySampleAccounted' /\ OnePlace'
    BY <1>1, <1>2, <1>5, NoneMoves DEF logVars
  <1>7. NoPlace'
    BY <1>1 DEF PingIInv, NoPlace, Own, Unsaved
  <1> QED BY <1>1, <1>5, <1>6, <1>7 DEF PingIInv, ChartKeepsUp

(* The history moves no sample.                                            *)
LEMMA HistoryAccounts ==
  ASSUME PingIInv,
         HistoryRead \/ HistoryLoaded \/ HistoryFailed \/ UNCHANGED pingVars
  PROVE  PingIInv'
  <1>1. UNCHANGED <<opened, opening, measured, buffer, batches, log, unheard,
                    refused, abandoned>>
    BY DEF HistoryRead, HistoryLoaded, HistoryFailed, pingVars, logVars
  <1>2. /\ historyLoad' \in {"asked", "answered", "done"}
        /\ history' \in {{}, history, Saved}
        /\ \/ UNCHANGED <<chart, charted>>
           \/ chart' = history /\ charted' = {}
    BY DEF HistoryRead, HistoryLoaded, HistoryFailed, pingVars, PingIInv,
           PingTypeOK
  <1>3. Saved' = Saved
    BY <1>1 DEF Saved
  <1>4. history \subseteq Saved /\ Saved \subseteq 1 .. measured
    BY DEF PingIInv, PingTypeOK
  <1>5. PingTypeOK'
    BY <1>1, <1>2, <1>3, <1>4 DEF PingIInv, PingTypeOK
  <1>6. NoPlace' /\ ChartKeepsUp'
    BY <1>1, <1>2 DEF PingIInv, NoPlace, Own, Unsaved, ChartKeepsUp
  <1> QED BY <1>1, <1>5, <1>6, NoneMoves DEF PingIInv, logVars

(* A sample is measured: it waits, and is in no other place.               *)
LEMMA MeasureAccounts == ASSUME PingIInv, Measure PROVE PingIInv'
  <1> USE PingLoggerAssumption
  <1> DEFINE s0 == measured + 1
  <1>1. /\ opened /\ measured < MaxSamples /\ measured' = s0
        /\ chart' = chart \cup {s0} /\ charted' = charted \cup {s0}
        /\ buffer' = buffer \cup {s0}
        /\ UNCHANGED <<opened, opening, historyLoad, history, batches, log,
                       unheard, refused, abandoned>>
    BY DEF Measure, logVars
  <1>2. measured \in Nat /\ 1 .. measured' = (1 .. measured) \cup {s0}
    BY <1>1 DEF PingIInv, PingTypeOK
  <1>3. Saved' = Saved
    BY <1>1 DEF Saved
  <1>4. \A b \in batches : b.samples \subseteq 1 .. measured
    BY DEF PingIInv, PingTypeOK
  <1>5. PingTypeOK'
    <2>1. batches' \subseteq Batches(measured', opening')
      BY <1>1, <1>2 DEF PingIInv, PingTypeOK, Batches
    <2>2. measured' \in 0 .. MaxSamples
      BY <1>1, <1>2
    <2>3. /\ chart' \subseteq 1 .. measured'
          /\ charted' \subseteq 1 .. measured'
          /\ buffer' \subseteq 1 .. measured'
          /\ (Saved \cup unheard \cup refused \cup abandoned)'
               \subseteq 1 .. measured'
      BY <1>1, <1>2, <1>3 DEF PingIInv, PingTypeOK
    <2> QED BY <1>1, <1>3, <2>1, <2>2, <2>3
            DEF PingIInv, PingTypeOK, Batches
  <1>6. \A s : Waits(s)' <=> Waits(s) \/ s = s0
    BY <1>1 DEF Waits
  <1>7. EverySampleAccounted'
    <2>1. Accounted
      BY OneByOne DEF PingIInv
    <2>2. Accounted'
      BY <1>1, <1>2, <1>3, <1>6, <2>1 DEF Accounted
    <2> QED BY <1>5, <2>2, OneByOne
  <1>8. OnePlace'
    <2>1. s0 \notin Saved /\ \A b \in batches : s0 \notin b.samples
      BY <1>2, <1>4 DEF PingIInv, PingTypeOK
    <2>2. \A s \in Saved' : s \in Pending' => s \in unheard'
      BY <1>1, <1>3, <1>6, <2>1, PendingWaits DEF PingIInv, OnePlace, Awaited
    <2> QED BY <1>1, <1>3, <2>1, <2>2 DEF PingIInv, OnePlace, Awaited
  <1>9. NoPlace' /\ ChartKeepsUp'
    BY <1>1 DEF PingIInv, NoPlace, Own, Unsaved, ChartKeepsUp
  <1> QED BY <1>5, <1>7, <1>8, <1>9 DEF PingIInv

(* What is buffered leaves as a batch, and waits in it.                    *)
LEMMA SendAccounts == ASSUME PingIInv, SendBatch PROVE PingIInv'
  <1> DEFINE b0 == [samples |-> buffer, state |-> "sent", opening |-> opening]
  <1>1. /\ opened /\ batches' = batches \cup {b0} /\ buffer' = {}
        /\ UNCHANGED <<opened, opening, measured, chart, historyLoad, history,
                       log, unheard, refused, abandoned, charted>>
    BY DEF SendBatch, logVars
  <1>2. /\ b0.samples = buffer /\ b0.state = "sent" /\ b0.opening = opening
        /\ opening \in 1 .. opening /\ buffer \subseteq 1 .. measured
    BY <1>1 DEF PingIInv, PingTypeOK
  <1>3. b0 \in Batches(measured, opening)
    BY <1>2 DEF Batches
  <1>4. Saved' = Saved
    BY <1>1 DEF Saved
  <1> HIDE DEF b0
  <1>5. PingTypeOK'
    BY <1>1, <1>2, <1>3, <1>4 DEF PingIInv, PingTypeOK, Batches
  <1>6. \A s : Waits(s)' <=> Waits(s)
    BY <1>1, <1>2 DEF Waits
  <1>7. EverySampleAccounted'
    <2>1. Accounted
      BY OneByOne DEF PingIInv
    <2>2. Accounted'
      BY <1>1, <1>4, <1>6, <2>1 DEF Accounted
    <2> QED BY <1>5, <2>2, OneByOne
  <1>8. OnePlace'
    <2>1. \A s \in Saved' : s \in Pending' => s \in unheard'
      BY <1>1, <1>4, <1>6, PendingWaits DEF PingIInv, OnePlace, Awaited
    <2> QED BY <1>1, <1>2, <1>4, <2>1 DEF PingIInv, OnePlace, Awaited
  <1>9. NoPlace' /\ ChartKeepsUp'
    BY <1>1, <1>2 DEF PingIInv, NoPlace, Own, Unsaved, ChartKeepsUp
  <1> QED BY <1>5, <1>7, <1>8, <1>9 DEF PingIInv

(* What a batch is, and what its commit saves.                             *)
LEMMA BatchSaved ==
  ASSUME PingIInv, NEW b \in batches, Commit(b), UNCHANGED measured
  PROVE  /\ log' \in [Samples -> 0 .. 2]
         /\ \A s : s \in Saved' <=> s \in Saved \/ s \in b.samples
         /\ b.samples \subseteq 1 .. measured /\ 1 .. measured \subseteq Samples
         /\ Saved' \subseteq 1 .. measured
         /\ \A s \in Samples : log'[s] > 1 =>
              s \in unheard \/ (s \in b.samples /\ s \in Saved)
  <1> USE PingLoggerAssumption
  <1>1. /\ b.samples \subseteq 1 .. measured /\ 1 .. measured \subseteq Samples
        /\ log \in [Samples -> 0 .. 2] /\ Saved \subseteq 1 .. measured
    BY DEF PingIInv, PingTypeOK, Samples
  <1>2. log' = [s \in Samples |->
          IF s \in b.samples THEN IF log[s] = 0 THEN 1 ELSE 2 ELSE log[s]]
    BY DEF Commit
  <1>3. log' \in [Samples -> 0 .. 2]
    BY <1>1, <1>2
  <1>4. \A s : s \in Saved' <=> s \in Saved \/ s \in b.samples
    BY <1>1, <1>2 DEF Saved
  <1>5. \A s \in Samples : log[s] > 1 => s \in unheard
    BY DEF PingIInv, EverySampleAccounted
  <1>6. \A s \in Samples : log'[s] > 1 =>
          s \in unheard \/ (s \in b.samples /\ s \in Saved)
    BY <1>1, <1>2, <1>5 DEF Saved
  <1> QED BY <1>1, <1>3, <1>4, <1>6

(* A batch is saved: its samples wait no longer.                           *)
LEMMA SaveAccounts ==
  ASSUME PingIInv, NEW b \in batches, SaveBatch(b) PROVE PingIInv'
  <1> DEFINE b1 == [b EXCEPT !.state = "saved"]
  <1>1. /\ b.state = "sent" /\ batches' = (batches \ {b}) \cup {b1}
        /\ UNCHANGED <<opened, opening, measured, chart, historyLoad, history,
                       buffer, unheard, refused, abandoned, charted>>
    BY DEF SaveBatch
  <1>2. /\ log' \in [Samples -> 0 .. 2]
        /\ \A s : s \in Saved' <=> s \in Saved \/ s \in b.samples
        /\ b.samples \subseteq 1 .. measured /\ 1 .. measured \subseteq Samples
        /\ Saved' \subseteq 1 .. measured
        /\ \A s \in Samples : log'[s] > 1 =>
             s \in unheard \/ (s \in b.samples /\ s \in Saved)
    BY <1>1, BatchSaved DEF SaveBatch
  <1>3. /\ b1.samples = b.samples /\ b1.state = "saved"
        /\ b1.opening = b.opening /\ b1 \in Batches(measured, opening)
    BY DEF PingIInv, PingTypeOK, Batches
  <1> HIDE DEF b1
  <1>4. PingTypeOK'
    <2>1. batches' \subseteq Batches(measured, opening)
      BY <1>1, <1>3 DEF PingIInv, PingTypeOK, Batches
    <2>2. history \subseteq Saved'
      BY <1>2 DEF PingIInv, PingTypeOK
    <2> QED BY <1>1, <1>2, <2>1, <2>2 DEF PingIInv, PingTypeOK, Batches
  <1>5. \A s : Waits(s)' <=> Waits(s) /\ s \notin b.samples
    <2>1. \A s \in b.samples : s \notin buffer
      BY <1>1 DEF PingIInv, OnePlace, Awaited
    <2>2. \A c \in batches :
            c.state = "sent" /\ c # b => c.samples \cap b.samples = {}
      BY <1>1 DEF PingIInv, OnePlace, Awaited
    <2> QED BY <1>1, <1>3, <2>1, <2>2 DEF Waits
  <1>6. \A s \in b.samples : s \in Saved => s \in unheard
    <2>1. \A s \in b.samples : s \in Pending
      BY <1>1, PendingWaits DEF Waits
    <2> QED BY <2>1 DEF PingIInv, OnePlace
  <1>7. EverySampleAccounted'
    <2>1. Accounted
      BY OneByOne DEF PingIInv
    <2>2. \A s \in Samples : log'[s] > 1 => s \in unheard
      BY <1>2, <1>6
    <2>3. \A s \in 1 .. measured :
            Waits(s)' \/ s \in Saved' \/ s \in refused \/ s \in abandoned
      BY <1>2, <1>5, <2>1 DEF Accounted
    <2>4. Accounted'
      BY <1>1, <2>2, <2>3 DEF Accounted
    <2> QED BY <1>4, <2>4, OneByOne
  <1>8. OnePlace'
    <2>0. \A c \in Awaited' : c = b1 \/ (c \in Awaited /\ c # b)
      BY <1>1 DEF Awaited
    <2>1. \A s \in Saved' : s \in Pending' => s \in unheard'
      BY <1>1, <1>2, <1>5, PendingWaits DEF PingIInv, OnePlace
    <2>2. \A c \in Awaited' : buffer' \cap c.samples = {}
      BY <1>1, <1>3, <2>0 DEF PingIInv, OnePlace, Awaited
    <2>3. \A c, d \in Awaited' : c # d => c.samples \cap d.samples = {}
      <3>1. b \in Awaited
        BY <1>1 DEF Awaited
      <3> QED BY <1>3, <2>0, <3>1 DEF PingIInv, OnePlace
    <2>4. \A c \in batches' : c.state = "saved" => c.samples \subseteq Saved'
      BY <1>1, <1>2, <1>3 DEF PingIInv, OnePlace
    <2> QED BY <2>1, <2>2, <2>3, <2>4 DEF OnePlace
  <1>9. NoPlace' /\ ChartKeepsUp'
    BY <1>1, <1>3 DEF PingIInv, NoPlace, Own, Unsaved, ChartKeepsUp
  <1> QED BY <1>4, <1>7, <1>8, <1>9 DEF PingIInv

(* So is one whose request threw: its page has put it back long ago.       *)
LEMMA ThrownAccounts ==
  ASSUME PingIInv, NEW b \in batches, SaveThrown(b) PROVE PingIInv'
  <1>1. /\ b.state = "thrown" /\ batches' = batches \ {b}
        /\ unheard' = unheard \cup b.samples
        /\ UNCHANGED <<opened, opening, measured, chart, historyLoad, history,
                       buffer, refused, abandoned, charted>>
    BY DEF SaveThrown
  <1>2. /\ log' \in [Samples -> 0 .. 2]
        /\ \A s : s \in Saved' <=> s \in Saved \/ s \in b.samples
        /\ b.samples \subseteq 1 .. measured
        /\ Saved' \subseteq 1 .. measured
        /\ \A s \in Samples : log'[s] > 1 =>
             s \in unheard \/ (s \in b.samples /\ s \in Saved)
    BY <1>1, BatchSaved DEF SaveThrown
  <1>3. PingTypeOK'
    <2>1. history \subseteq Saved' /\ unheard' \subseteq 1 .. measured
      BY <1>1, <1>2 DEF PingIInv, PingTypeOK
    <2> QED BY <1>1, <1>2, <2>1 DEF PingIInv, PingTypeOK
  <1>4. \A s : Waits(s)' <=> Waits(s)
    BY <1>1 DEF Waits
  <1>5. EverySampleAccounted'
    <2>1. Accounted
      BY OneByOne DEF PingIInv
    <2>2. Accounted'
      BY <1>1, <1>2, <1>4, <2>1 DEF Accounted
    <2> QED BY <1>3, <2>2, OneByOne
  <1>6. OnePlace'
    <2>1. \A s \in Saved' : s \in Pending' => s \in unheard'
      BY <1>1, <1>2, <1>4, PendingWaits DEF PingIInv, OnePlace
    <2>2. Awaited' = Awaited
      BY <1>1 DEF Awaited
    <2> QED BY <1>1, <1>2, <2>1, <2>2 DEF PingIInv, OnePlace
  <1>7. NoPlace' /\ ChartKeepsUp'
    BY <1>1 DEF PingIInv, NoPlace, Own, Unsaved, ChartKeepsUp
  <1> QED BY <1>3, <1>5, <1>6, <1>7 DEF PingIInv

(* A batch that is answered, with an error or not, is over.                *)
LEMMA AnsweredAccounts ==
  ASSUME PingIInv, NEW b \in batches, BatchAnswered(b) PROVE PingIInv'
  <1>1. /\ batches' = batches \ {b}
        /\ b.state = "sent" => refused' = refused \cup b.samples
        /\ b.state # "sent" => b.state = "saved" /\ refused' = refused
        /\ UNCHANGED <<opened, opening, measured, chart, historyLoad, history,
                       buffer, log, unheard, abandoned, charted>>
    BY DEF BatchAnswered, PingIInv, PingTypeOK
  <1>2. /\ b.samples \subseteq 1 .. measured
        /\ b.state = "saved" => b.samples \subseteq Saved
    BY DEF PingIInv, PingTypeOK, OnePlace
  <1>3. Saved' = Saved
    BY <1>1 DEF Saved
  <1>4. PingTypeOK'
    <2>1. refused' \subseteq 1 .. measured
      BY <1>1, <1>2 DEF PingIInv, PingTypeOK
    <2> QED BY <1>1, <1>3, <2>1 DEF PingIInv, PingTypeOK
  <1>5. /\ \A s : Waits(s)' => Waits(s)
        /\ \A s : Waits(s) =>
             Waits(s)' \/ (b.state = "sent" /\ s \in b.samples)
    BY <1>1 DEF Waits
  <1>6. EverySampleAccounted'
    <2>1. Accounted
      BY OneByOne DEF PingIInv
    <2>2. Accounted'
      BY <1>1, <1>2, <1>3, <1>5, <2>1 DEF Accounted
    <2> QED BY <1>4, <2>2, OneByOne
  <1>7. OnePlace'
    <2>1. \A s \in Saved' : s \in Pending' => s \in unheard'
      BY <1>1, <1>3, <1>5, PendingWaits DEF PingIInv, OnePlace
    <2> QED BY <1>1, <1>3, <2>1 DEF PingIInv, OnePlace, Awaited
  <1>8. NoPlace' /\ ChartKeepsUp'
    BY <1>1 DEF PingIInv, NoPlace, Own, Unsaved, ChartKeepsUp
  <1> QED BY <1>4, <1>6, <1>7, <1>8 DEF PingIInv

(* A batch whose request throws waits again, or has no place to go to.     *)
LEMMA PutBackAccounts ==
  ASSUME PingIInv, NEW b \in batches, PutBack(b) PROVE PingIInv'
  <1> DEFINE b1 == [b EXCEPT !.state = "thrown"]
  <1>1. /\ b.state # "thrown"
        /\ batches \ {b} \subseteq batches'
        /\ batches' \subseteq (batches \ {b}) \cup {b1}
        /\ buffer' = IF Own(b) THEN buffer \cup b.samples ELSE buffer
        /\ unheard' = IF b.state = "saved" THEN unheard \cup b.samples
                      ELSE unheard
        /\ UNCHANGED <<opened, opening, measured, chart, historyLoad, history,
                       log, refused, abandoned, charted>>
    BY DEF PutBack, Throws
  <1>2. /\ b.samples \subseteq 1 .. measured
        /\ b.state = "saved" => b.samples \subseteq Saved
        /\ b.state = "sent" /\ ~Own(b) => b.samples \subseteq abandoned
        /\ b.state # "saved" => b.state = "sent"
    BY <1>1 DEF PingIInv, PingTypeOK, OnePlace, NoPlace, Unsaved
  <1>3. /\ b1.state = "thrown" /\ b1 \in Batches(measured, opening)
    BY DEF PingIInv, PingTypeOK, Batches
  <1> HIDE DEF b1
  <1>4. /\ b \notin batches'
        /\ \A c \in batches' : c.state # "thrown" => c \in batches /\ c # b
    BY <1>1, <1>3
  <1>5. Saved' = Saved
    BY <1>1 DEF Saved
  <1>6. PingTypeOK'
    <2>1. /\ unheard' \subseteq 1 .. measured /\ buffer' \subseteq 1 .. measured
          /\ buffer' # {} => opened
      BY <1>1, <1>2 DEF PingIInv, PingTypeOK, Own
    <2>2. batches' \subseteq Batches(measured, opening)
      BY <1>1, <1>3 DEF PingIInv, PingTypeOK, Batches
    <2> QED BY <1>1, <1>5, <2>1, <2>2 DEF PingIInv, PingTypeOK, Batches
  <1>7. /\ \A s : Waits(s)' => Waits(s) \/ (Own(b) /\ s \in b.samples)
        /\ \A s : Waits(s) => \/ Waits(s)'
                              \/ /\ b.state = "sent" /\ ~Own(b)
                                 /\ s \in b.samples
    BY <1>1, <1>4 DEF Waits
  <1>8. EverySampleAccounted'
    <2>1. Accounted
      BY OneByOne DEF PingIInv
    <2>2. Accounted'
      BY <1>1, <1>2, <1>5, <1>7, <2>1 DEF Accounted
    <2> QED BY <1>6, <2>2, OneByOne
  <1>9. OnePlace'
    <2>1. \A s \in Saved : s \in Pending => s \in unheard
      BY DEF PingIInv, OnePlace
    <2>2. b.state = "sent" => \A s \in b.samples : s \in Pending
      BY PendingWaits DEF Waits
    <2>3. \A s \in Saved' : s \in Pending' => s \in unheard'
      BY <1>1, <1>2, <1>5, <1>7, <2>1, <2>2, PendingWaits
    <2>4. \A c \in Awaited' : c \in Awaited /\ c # b /\ b \in Awaited
      BY <1>1, <1>4 DEF Awaited
    <2>5. \A c \in Awaited' : buffer' \cap c.samples = {}
      BY <1>1, <2>4 DEF PingIInv, OnePlace
    <2>6. \A c, d \in Awaited' : c # d => c.samples \cap d.samples = {}
      BY <2>4 DEF PingIInv, OnePlace
    <2>7. \A c \in batches' : c.state = "saved" => c.samples \subseteq Saved'
      BY <1>4, <1>5 DEF PingIInv, OnePlace
    <2> QED BY <2>3, <2>5, <2>6, <2>7 DEF OnePlace
  <1>10. NoPlace' /\ ChartKeepsUp'
    BY <1>1, <1>4 DEF PingIInv, NoPlace, Own, Unsaved, ChartKeepsUp
  <1> QED BY <1>6, <1>8, <1>9, <1>10 DEF PingIInv

(* The page is left, and what waits is given up or saved without it.       *)
LEMMA LeaveAccounts == ASSUME PingIInv, Leave PROVE PingIInv'
  <1>1. /\ ~opened' /\ opened' \in BOOLEAN /\ historyLoad' = "done"
        /\ history' = {} /\ buffer' = {} /\ chart' = {} /\ charted' = {}
        /\ \A s : s \in abandoned' <=> s \in abandoned \/ Waits(s)
        /\ UNCHANGED <<opening, measured, batches, log, unheard, refused>>
    BY DEF Leave, logVars, Waits, Unsaved
  <1>2. Saved' = Saved
    BY <1>1 DEF Saved
  <1>3. abandoned' \subseteq 1 .. measured
    <2>1. \A b \in batches : b.samples \subseteq 1 .. measured
      BY DEF PingIInv, PingTypeOK
    <2> QED BY <1>1, <2>1 DEF PingIInv, PingTypeOK, Waits
  <1>4. PingTypeOK'
    BY <1>1, <1>2, <1>3 DEF PingIInv, PingTypeOK
  <1>5. EverySampleAccounted'
    <2>1. Accounted
      BY OneByOne DEF PingIInv
    <2>2. Accounted'
      BY <1>1, <1>2, <2>1 DEF Accounted
    <2> QED BY <1>4, <2>2, OneByOne
  <1>6. OnePlace'
    <2>1. \A s : Waits(s)' => Waits(s)
      BY <1>1 DEF Waits
    <2>2. \A s \in Saved' : s \in Pending' => s \in unheard'
      BY <1>1, <1>2, <2>1, PendingWaits DEF PingIInv, OnePlace, Awaited
    <2> QED BY <1>1, <1>2, <2>2 DEF PingIInv, OnePlace, Awaited
  <1>7. NoPlace'
    BY <1>1 DEF NoPlace, Unsaved, Waits
  <1> QED BY <1>1, <1>4, <1>5, <1>6, <1>7 DEF PingIInv, ChartKeepsUp

(* Every step of the samples keeps their invariant.                        *)
LEMMA PingSteps ==
  ASSUME PingIInv, [PingNext]_pingVars PROVE PingIInv'
  BY OpenAccounts, HistoryAccounts, MeasureAccounts, SendAccounts,
     SaveAccounts, ThrownAccounts, AnsweredAccounts, PutBackAccounts, LeaveAccounts
     DEF PingNext

-----------------------------------------------------------------------------
(* What a vote may be.                                                     *)
VoteStates ==
  {NoVote} \cup [step : {"sent", "read", "committed"}, request : Votable,
                 known : SUBSET Votable, visit : Nat, read : Nat]

(* The votes begin in their invariant.                                     *)
LEMMA VotesStart == VotesInit => VotesIInv
  <1> SUFFICES ASSUME VotesInit PROVE VotesIInv
    OBVIOUS
  <1> USE GameVotesAssumption DEF VotesInit
  <1>1. hasty \in BOOLEAN /\ raced \in BOOLEAN
    OBVIOUS
  <1>2. \A v \in Voters : vote[v] = NoVote
    OBVIOUS
  <1>3. /\ votes \in [Votable -> Nat] /\ own \in [Votable -> Nat]
        /\ others \in [Votable -> Nat]
    OBVIOUS
  <1>4. vote \in [Voters -> VoteStates]
    BY DEF VoteStates
  <1>5. VotesTypeOK
    BY <1>1, <1>3, <1>4 DEF VotesTypeOK, VoteStates
  <1>6. VotedOnce /\ VotesAddUp
    BY DEF VotedOnce, VotesAddUp
  <1>7. \A v \in Voters : vote[v].step = "none"
    BY <1>2 DEF NoVote
  <1>8. OwnUnderWay = {}
    BY <1>7 DEF OwnUnderWay, Clicked, Voters
  <1>9. VotesKnown /\ ReadIsCount
    BY <1>7, <1>8 DEF VotesKnown, ReadIsCount
  <1> QED BY <1>5, <1>6, <1>9 DEF VotesIInv

(* A vote that is sent, and one that is over, change that vote only.       *)
LEMMA VoteSet ==
  ASSUME VotesTypeOK, NEW v \in Voters, NEW x \in VoteStates,
         vote' = [vote EXCEPT ![v] = x]
  PROVE  /\ vote' \in [Voters -> VoteStates] /\ vote'[v] = x
         /\ \A w \in Voters \ {v} : vote'[w] = vote[w]
         /\ v = Other => OwnUnderWay' = OwnUnderWay
         /\ v # Other /\ x.step # "none" => OwnUnderWay' = OwnUnderWay \cup {v}
         /\ v # Other /\ x.step = "none" => OwnUnderWay' = OwnUnderWay \ {v}
  <1>1. vote \in [Voters -> VoteStates]
    BY DEF VotesTypeOK, VoteStates
  <1>2. /\ vote' \in [Voters -> VoteStates] /\ vote'[v] = x
        /\ \A w \in Voters \ {v} : vote'[w] = vote[w]
    BY <1>1
  <1>3. /\ \A w : w \in Clicked <=> w \in Voters /\ w # Other
    BY GameVotesAssumption DEF Clicked, Voters, Other
  <1> QED BY <1>2, <1>3 DEF OwnUnderWay

(* A vote under way is a whole one.                                        *)
LEMMA VoteWhole ==
  ASSUME VotesTypeOK, NEW v \in Voters, vote[v].step # "none"
  PROVE  /\ vote[v] \in [step : {"sent", "read", "committed"},
                         request : Votable, known : SUBSET Votable,
                         visit : Nat, read : Nat]
         /\ v # Other => v \in OwnUnderWay
  <1>1. vote[v] \in VoteStates /\ vote[v] # NoVote
    BY DEF VotesTypeOK, VoteStates, NoVote
  <1>2. v # Other => v \in Clicked
    BY GameVotesAssumption DEF Clicked, Voters, Other
  <1> QED BY <1>1, <1>2 DEF VoteStates, OwnUnderWay

(* A browser votes where it has not, and as the only one unless hasty.     *)
LEMMA VoteSafe ==
  ASSUME VotesIInv, NEW g \in Votable, Vote(g) \/ VoteOfOther(g)
  PROVE  VotesIInv'
  <1> USE GameVotesAssumption
  <1> DEFINE v == IF Vote(g) THEN click + 1 ELSE Other
             x == [step |-> "sent", request |-> g, known |-> votedIds,
                   visit |-> visitNo, read |-> 0]
  <1>1. /\ vote' = [vote EXCEPT ![v] = x]
        /\ v # Other => /\ g \notin votedIds
                        /\ hasty' = (hasty \/ OwnUnderWay # {})
        /\ v = Other => hasty' = hasty
        /\ click' \in 0 .. MaxVotes /\ v \in Voters
        /\ UNCHANGED <<votedIds, ajVoted, visitNo, votes, own, others, unsaid,
                       raced>>
    BY DEF Vote, VoteOfOther, Send, VotesIInv, VotesTypeOK, Voters, Other
  <1>2. x \in VoteStates /\ x.step = "sent" /\ x.request = g
        /\ x.known = votedIds /\ x.visit = visitNo
    BY DEF VoteStates, VotesIInv, VotesTypeOK
  <1> HIDE DEF v, x
  <1>3. /\ vote' \in [Voters -> VoteStates] /\ vote'[v] = x
        /\ \A w \in Voters \ {v} : vote'[w] = vote[w]
        /\ v = Other => OwnUnderWay' = OwnUnderWay
        /\ v # Other => OwnUnderWay' = OwnUnderWay \cup {v}
    BY <1>1, <1>2, VoteSet DEF VotesIInv
  <1>4. hasty' \in BOOLEAN
    BY <1>1 DEF VotesIInv, VotesTypeOK
  <1>5. VotesTypeOK'
    BY <1>1, <1>3, <1>4 DEF VotesIInv, VotesTypeOK, VoteStates
  <1>6. ReadIsCount' /\ VotesAddUp'
    BY <1>1, <1>2, <1>3 DEF VotesIInv, ReadIsCount, VotesAddUp
  <1>7. CASE v # Other
    <2>1. ~hasty' => ~hasty /\ OwnUnderWay = {} /\ OwnUnderWay' = {v}
      BY <1>1, <1>3, <1>7
    <2>2. VotedOnce'
      BY <1>1, <2>1 DEF VotesIInv, VotedOnce
    <2>3. VotesKnown'
      BY <1>1, <1>2, <1>3, <1>7, <2>1 DEF VotesIInv, VotesKnown
    <2> QED BY <1>5, <1>6, <2>2, <2>3 DEF VotesIInv
  <1>8. CASE v = Other
    <2>1. \A w \in OwnUnderWay : vote'[w] = vote[w]
      BY <1>3, <1>8 DEF OwnUnderWay, Clicked, Voters, Other
    <2>2. VotedOnce' /\ VotesKnown'
      BY <1>1, <1>3, <1>8, <2>1 DEF VotesIInv, VotedOnce, VotesKnown
    <2> QED BY <1>5, <1>6, <2>2 DEF VotesIInv
  <1> QED BY <1>7, <1>8

(* A row is read as it is.                                                 *)
LEMMA ReadSafe ==
  ASSUME VotesIInv, NEW v \in Voters, ReadRow(v) PROVE VotesIInv'
  <1> DEFINE x == [vote[v] EXCEPT !.step = "read",
                                  !.read = votes[vote[v].request]]
  <1>1. /\ vote[v].step = "sent" /\ vote' = [vote EXCEPT ![v] = x]
        /\ raced' = (raced \/ \E w \in Voters :
             vote[w].step = "read" /\ vote[w].request = vote[v].request)
        /\ UNCHANGED <<votedIds, ajVoted, visitNo, click, votes, own, others,
                       hasty, unsaid>>
    BY DEF ReadRow, VotesIInv, VotesTypeOK
  <1>2. /\ vote[v] \in [step : {"sent", "read", "committed"},
                        request : Votable, known : SUBSET Votable,
                        visit : Nat, read : Nat]
        /\ v # Other => v \in OwnUnderWay
    BY <1>1, VoteWhole DEF VotesIInv
  <1>3. /\ x \in VoteStates /\ x.step = "read"
        /\ x.read = votes[vote[v].request] /\ x.request = vote[v].request
        /\ x.known = vote[v].known /\ x.visit = vote[v].visit
    BY <1>2 DEF VoteStates, VotesIInv, VotesTypeOK
  <1> HIDE DEF x
  <1>4. /\ vote' \in [Voters -> VoteStates] /\ vote'[v] = x
        /\ \A w \in Voters \ {v} : vote'[w] = vote[w]
        /\ OwnUnderWay' = OwnUnderWay
    <2>1. /\ vote' \in [Voters -> VoteStates] /\ vote'[v] = x
          /\ \A w \in Voters \ {v} : vote'[w] = vote[w]
          /\ v = Other => OwnUnderWay' = OwnUnderWay
          /\ v # Other => OwnUnderWay' = OwnUnderWay \cup {v}
      BY <1>1, <1>3, VoteSet DEF VotesIInv
    <2>2. v # Other => OwnUnderWay \cup {v} = OwnUnderWay
      BY <1>2
    <2> QED BY <2>1, <2>2
  <1>5. raced' \in BOOLEAN
    BY <1>1 DEF VotesIInv, VotesTypeOK
  <1>6. VotesTypeOK'
    BY <1>1, <1>4, <1>5 DEF VotesIInv, VotesTypeOK, VoteStates
  <1>7. ~raced' =>
          /\ ~raced
          /\ \A w \in Voters :
               ~(vote[w].step = "read" /\ vote[w].request = vote[v].request)
    BY <1>1
  <1>8. ReadIsCount'
    <2> SUFFICES ASSUME ~raced', NEW u \in Voters, vote'[u].step = "read"
                 PROVE  /\ vote'[u].read = votes[vote'[u].request]
                        /\ \A w \in Voters :
                             vote'[w].step = "read"
                             /\ vote'[w].request = vote'[u].request => w = u
      BY <1>1 DEF ReadIsCount
    <2>1. CASE u = v
      BY <1>3, <1>4, <1>7, <2>1
    <2>2. CASE u # v
      BY <1>3, <1>4, <1>7, <2>2 DEF VotesIInv, ReadIsCount
    <2> QED BY <2>1, <2>2
  <1>9. VotesAddUp'
    BY <1>1, <1>7 DEF VotesIInv, VotesAddUp
  <1>10. VotedOnce' /\ VotesKnown'
    <2>1. /\ \A w \in OwnUnderWay : /\ vote'[w].known = vote[w].known
                                    /\ vote'[w].request = vote[w].request
                                    /\ vote'[w].visit = vote[w].visit
          /\ \A w \in OwnUnderWay : vote[w].step = "committed" =>
                                      vote'[w].step = "committed"
      BY <1>1, <1>3, <1>4 DEF OwnUnderWay, Clicked, Voters
    <2> QED BY <1>1, <1>4, <2>1 DEF VotesIInv, VotedOnce, VotesKnown
  <1> QED BY <1>6, <1>8, <1>9, <1>10 DEF VotesIInv

(* A row is committed with one vote more than it had.                      *)
LEMMA CommitSafe ==
  ASSUME VotesIInv, NEW v \in Voters, CommitRow(v) PROVE VotesIInv'
  <1> DEFINE g == vote[v].request
             x == IF v = Other THEN NoVote
                  ELSE [vote[v] EXCEPT !.step = "committed"]
  <1>1. /\ vote[v].step = "read" /\ vote' = [vote EXCEPT ![v] = x]
        /\ votes' = [votes EXCEPT ![g] = vote[v].read + 1]
        /\ v = Other => others' = [others EXCEPT ![g] = others[g] + 1]
                        /\ own' = own
        /\ v # Other => own' = [own EXCEPT ![g] = own[g] + 1]
                        /\ others' = others
        /\ UNCHANGED <<votedIds, ajVoted, visitNo, click, hasty, unsaid, raced>>
    BY DEF CommitRow, VotesIInv, VotesTypeOK
  <1>2. /\ vote[v] \in [step : {"sent", "read", "committed"},
                        request : Votable, known : SUBSET Votable,
                        visit : Nat, read : Nat]
        /\ v # Other => v \in OwnUnderWay
        /\ g \in Votable
    BY <1>1, VoteWhole DEF VotesIInv
  <1>3. /\ x \in VoteStates
        /\ v = Other => x.step = "none"
        /\ v # Other => /\ x.step = "committed" /\ x.request = g
                        /\ x.known = vote[v].known /\ x.visit = vote[v].visit
    BY <1>2 DEF VoteStates, NoVote
  <1> HIDE DEF x
  <1>4. /\ vote' \in [Voters -> VoteStates] /\ vote'[v] = x
        /\ \A w \in Voters \ {v} : vote'[w] = vote[w]
        /\ OwnUnderWay' = OwnUnderWay
    <2>1. /\ vote' \in [Voters -> VoteStates] /\ vote'[v] = x
          /\ \A w \in Voters \ {v} : vote'[w] = vote[w]
          /\ v = Other => OwnUnderWay' = OwnUnderWay
          /\ v # Other => OwnUnderWay' = OwnUnderWay \cup {v}
      BY <1>1, <1>3, VoteSet DEF VotesIInv
    <2>2. v # Other => OwnUnderWay \cup {v} = OwnUnderWay
      BY <1>2
    <2> QED BY <2>1, <2>2
  <1>5. /\ votes \in [Votable -> Nat] /\ own \in [Votable -> Nat]
        /\ others \in [Votable -> Nat] /\ vote[v].read \in Nat
    BY <1>2 DEF VotesIInv, VotesTypeOK
  <1> HIDE DEF g
  <1>6. /\ votes' \in [Votable -> Nat] /\ own' \in [Votable -> Nat]
        /\ others' \in [Votable -> Nat]
        /\ votes'[g] = vote[v].read + 1
        /\ own'[g] + others'[g] = own[g] + others[g] + 1
        /\ v = Other => own' = own
        /\ v # Other => own'[g] = own[g] + 1
        /\ \A h \in Votable \ {g} : /\ votes'[h] = votes[h]
                                    /\ own'[h] = own[h]
                                    /\ others'[h] = others[h]
    <2>1. CASE v = Other
      BY <1>1, <1>2, <1>5, <2>1
    <2>2. CASE v # Other
      BY <1>1, <1>2, <1>5, <2>2
    <2> QED BY <2>1, <2>2
  <1>7. VotesTypeOK'
    BY <1>1, <1>4, <1>6 DEF VotesIInv, VotesTypeOK, VoteStates
  <1>8. ~raced => vote[v].read = votes[g]
                  /\ \A w \in Voters \ {v} :
                       vote[w].step = "read" => vote[w].request # g
    BY <1>1 DEF VotesIInv, ReadIsCount, g
  <1>9. VotesAddUp'
    BY <1>1, <1>2, <1>5, <1>6, <1>8 DEF VotesIInv, VotesAddUp
  <1>10. ReadIsCount'
    <2>1. \A w \in Voters : vote'[w].step = "read" =>
            w # v /\ vote[w].step = "read" /\ vote'[w] = vote[w]
      BY <1>3, <1>4
    <2>2. \A w \in Voters : vote[w].step = "read" => vote[w].request \in Votable
      BY VoteWhole DEF VotesIInv
    <2> QED BY <1>1, <1>6, <1>8, <2>1, <2>2 DEF VotesIInv, ReadIsCount
  <1>11. CASE v = Other
    <2>1. own' = own /\ \A w \in OwnUnderWay : vote'[w] = vote[w]
      BY <1>4, <1>6, <1>11 DEF OwnUnderWay, Clicked, Voters, Other
    <2>2. VotedOnce' /\ VotesKnown'
      BY <1>1, <1>4, <2>1 DEF VotesIInv, VotedOnce, VotesKnown
    <2> QED BY <1>7, <1>9, <1>10, <2>2 DEF VotesIInv
  <1>12. CASE v # Other
    <2>1. ~hasty => /\ OwnUnderWay = {v} /\ g \notin votedIds
                    /\ g \notin unsaid => own[g] = 0
      <3> SUFFICES ASSUME ~hasty
                   PROVE  /\ OwnUnderWay = {v} /\ g \notin votedIds
                          /\ g \notin unsaid => own[g] = 0
        OBVIOUS
      <3>1. OwnUnderWay = {v} /\ g \notin votedIds
        BY <1>2, <1>12 DEF VotesIInv, VotesKnown, g
      <3>2. g \notin unsaid => ~(own[g] > 0)
        BY <1>1, <1>2, <3>1 DEF VotesIInv, VotesKnown
      <3> QED BY <1>2, <1>5, <3>1, <3>2
    <2>2. VotedOnce'
      BY <1>1, <1>2, <1>4, <1>6, <1>12, <2>1 DEF VotesIInv, VotedOnce
    <2>3. VotesKnown'
      <3> SUFFICES ASSUME ~hasty PROVE VotesKnown'
        BY <1>1 DEF VotesKnown
      <3>1. /\ vote'[v].known = votedIds /\ vote'[v].request = g
            /\ vote'[v].visit = visitNo /\ vote'[v].step = "committed"
            /\ ajVoted = votedIds
        BY <1>2, <1>3, <1>4, <1>12 DEF VotesIInv, VotesKnown
      <3>2. \A h \in Votable \ unsaid : h # g /\ own[h] > 0 => h \in votedIds
        BY <1>1, <2>1 DEF VotesIInv, VotesKnown
      <3> QED BY <1>1, <1>4, <1>6, <2>1, <3>1, <3>2 DEF VotesKnown
    <2> QED BY <1>7, <1>9, <1>10, <2>2, <2>3 DEF VotesIInv
  <1> QED BY <1>11, <1>12

(* A vote that is told is remembered, and one whose answer is lost is not. *)
LEMMA EndSafe ==
  ASSUME VotesIInv, NEW v \in Voters, VoteTold(v) \/ VoteLost(v)
  PROVE  VotesIInv'
  <1> DEFINE g == vote[v].request
  <1>1. /\ v # Other /\ vote[v].step # "none"
        /\ vote' = [vote EXCEPT ![v] = NoVote]
        /\ UNCHANGED <<visitNo, click, votes, own, others, hasty, raced>>
    BY DEF VoteTold, VoteLost
  <1>2. /\ vote[v] \in [step : {"sent", "read", "committed"},
                        request : Votable, known : SUBSET Votable,
                        visit : Nat, read : Nat]
        /\ v \in OwnUnderWay /\ g \in Votable
    BY <1>1, VoteWhole DEF VotesIInv
  <1>3. NoVote \in VoteStates /\ NoVote.step = "none"
    BY DEF VoteStates, NoVote
  <1>4. /\ vote' \in [Voters -> VoteStates] /\ vote'[v].step = "none"
        /\ \A w \in Voters \ {v} : vote'[w] = vote[w]
        /\ OwnUnderWay' = OwnUnderWay \ {v}
    BY <1>1, <1>3, VoteSet DEF VotesIInv
  <1>5. \/ /\ VoteTold(v) /\ unsaid' = unsaid
           /\ ajVoted' = vote[v].known \cup {g}
           /\ votedIds' = IF vote[v].visit = visitNo
                          THEN vote[v].known \cup {g} ELSE votedIds
        \/ /\ UNCHANGED <<ajVoted, votedIds>>
           /\ unsaid' = IF vote[v].step = "committed" THEN unsaid \cup {g}
                        ELSE unsaid
    BY DEF VoteTold, VoteLost
  <1> HIDE DEF g
  <1>6. /\ ajVoted' \subseteq Votable /\ votedIds' \subseteq Votable
        /\ unsaid' \subseteq Votable /\ unsaid \subseteq unsaid'
    BY <1>2, <1>5 DEF VotesIInv, VotesTypeOK
  <1>7. VotesTypeOK'
    BY <1>1, <1>4, <1>6 DEF VotesIInv, VotesTypeOK, VoteStates
  <1>8. VotesAddUp' /\ ReadIsCount'
    <2>1. \A w \in Voters : vote'[w].step = "read" =>
            vote[w].step = "read" /\ vote'[w] = vote[w]
      BY <1>4
    <2> QED BY <1>1, <2>1 DEF VotesIInv, VotesAddUp, ReadIsCount
  <1>9. ~hasty =>
          /\ OwnUnderWay' = {} /\ ajVoted' = votedIds'
          /\ \A h \in Votable \ unsaid' : own[h] > 0 => h \in votedIds'
    <2> SUFFICES ASSUME ~hasty
                 PROVE  /\ OwnUnderWay' = {} /\ ajVoted' = votedIds'
                        /\ \A h \in Votable \ unsaid' :
                             own[h] > 0 => h \in votedIds'
      OBVIOUS
    <2>1. /\ OwnUnderWay = {v} /\ vote[v].known = votedIds
          /\ vote[v].visit = visitNo /\ ajVoted = votedIds
          /\ \A h \in Votable \ unsaid : own[h] > 0 =>
               h \in votedIds \/ (vote[v].step = "committed" /\ h = g)
      BY <1>2 DEF VotesIInv, VotesKnown, g
    <2> QED BY <1>4, <1>5, <1>6, <2>1
  <1>10. VotedOnce' /\ VotesKnown'
    BY <1>1, <1>6, <1>9 DEF VotesIInv, VotedOnce, VotesKnown
  <1> QED BY <1>7, <1>8, <1>10 DEF VotesIInv

(* Every step of the votes keeps their invariant.                          *)
LEMMA VotesSteps ==
  ASSUME VotesIInv, [VotesNext]_votesVars PROVE VotesIInv'
  <1>1. CASE OpenAgain
    <2>1. /\ votedIds' = ajVoted /\ visitNo' = visitNo + 1
          /\ hasty' = (hasty \/ OwnUnderWay # {})
          /\ UNCHANGED <<ajVoted, click, vote, votes, own, others, unsaid,
                         raced>>
      BY <1>1 DEF OpenAgain
    <2>2. hasty' \in BOOLEAN /\ (~hasty' => ~hasty /\ OwnUnderWay = {})
      BY <2>1 DEF VotesIInv, VotesTypeOK
    <2>3. OwnUnderWay' = OwnUnderWay
      BY <2>1 DEF OwnUnderWay
    <2>4. VotesTypeOK'
      BY <2>1, <2>2 DEF VotesIInv, VotesTypeOK
    <2>5. VotedOnce' /\ VotesKnown'
      BY <2>1, <2>2, <2>3 DEF VotesIInv, VotedOnce, VotesKnown
    <2>6. VotesAddUp' /\ ReadIsCount'
      BY <2>1 DEF VotesIInv, VotesAddUp, ReadIsCount
    <2> QED BY <2>4, <2>5, <2>6 DEF VotesIInv
  <1>2. CASE UNCHANGED votesVars
    <2>1. UNCHANGED <<votedIds, ajVoted, visitNo, click, vote, votes, own,
                      others, hasty, unsaid, raced>>
      BY <1>2 DEF votesVars
    <2> QED BY <2>1 DEF VotesIInv, VotesTypeOK, VotedOnce, VotesAddUp,
                        VotesKnown, ReadIsCount, OwnUnderWay
  <1> QED BY <1>1, <1>2, VoteSafe, ReadSafe, CommitSafe, EndSafe DEF VotesNext

-----------------------------------------------------------------------------
(* The form begins in its invariant.                                       *)
LEMMA FormStart == FormInit => FormIInv
  <1> SUFFICES ASSUME FormInit PROVE FormIInv
    OBVIOUS
  <1> USE GameFormAssumption DEF FormInit
  <1>1. showForm \in BOOLEAN /\ submitting \in BOOLEAN /\ racedEntry \in BOOLEAN
    OBVIOUS
  <1>2. \A s \in Submitters : entry[s] = "none"
    OBVIOUS
  <1>3. entry \in [Submitters ->
          {"none", "sent", "checked", "exists", "failed", "submitted"}]
    OBVIOUS
  <1> QED BY <1>1, <1>2, <1>3 DEF FormIInv, FormTypeOK, AskedOnce, LookUpsRight

(* The steps of the page itself leave the rows and the look-ups.           *)
LEMMA FormPages ==
  ASSUME FormIInv,
         ToggleForm \/ OpenForm \/ SubmitForm \/ SubmitElsewhere
         \/ UNCHANGED formVars
  PROVE  FormIInv'
  <1> USE GameFormAssumption
  <1>1. showForm' \in BOOLEAN /\ submitting' \in BOOLEAN
    BY DEF ToggleForm, OpenForm, SubmitForm, SubmitElsewhere, formVars,
           FormIInv, FormTypeOK
  <1>2. UNCHANGED <<entries, racedEntry>> /\ told' \in {told, "nothing"}
    BY DEF ToggleForm, OpenForm, SubmitForm, SubmitElsewhere, formVars
  <1>3. formPage' \in 1 .. MaxFormPages
    BY DEF ToggleForm, OpenForm, SubmitForm, SubmitElsewhere, formVars,
           FormIInv, FormTypeOK
  <1>4. \/ entry' = entry
        \/ \E s \in Submitters : entry' = [entry EXCEPT ![s] = "sent"]
    BY DEF ToggleForm, OpenForm, SubmitForm, SubmitElsewhere, formVars,
           FormIInv, FormTypeOK, Submitters, OtherBrowser
  <1>5. /\ entry' \in [Submitters ->
             {"none", "sent", "checked", "exists", "failed", "submitted"}]
        /\ \A s \in Submitters : entry'[s] = entry[s] \/ entry'[s] = "sent"
    BY <1>4 DEF FormIInv, FormTypeOK
  <1>6. FormTypeOK'
    BY <1>1, <1>2, <1>3, <1>5 DEF FormIInv, FormTypeOK
  <1>7. AskedOnce' /\ LookUpsRight'
    BY <1>2, <1>5 DEF FormIInv, AskedOnce, LookUpsRight
  <1> QED BY <1>6, <1>7 DEF FormIInv

(* A look-up finds what there is.                                          *)
LEMMA LookUpRight ==
  ASSUME FormIInv, NEW s \in Submitters, CheckEntry(s) PROVE FormIInv'
  <1> DEFINE a == Found(entries)
  <1>1. /\ entry[s] = "sent" /\ entry' = [entry EXCEPT ![s] = a]
        /\ racedEntry' = (racedEntry \/ (a = "checked" /\
                            \E q \in Submitters : entry[q] = "checked"))
        /\ UNCHANGED <<formPage, showForm, submitting, told, entries>>
    BY DEF CheckEntry, LookUp
  <1>2. /\ a \in {"checked", "exists", "failed"}
        /\ a = "checked" => entries = 0
        /\ a = "exists" => entries > 0
    BY DEF Found, FormIInv, FormTypeOK
  <1> HIDE DEF a
  <1>3. FormTypeOK'
    <2>1. racedEntry' \in BOOLEAN
      BY <1>1 DEF FormIInv, FormTypeOK
    <2>2. entry' \in [Submitters ->
            {"none", "sent", "checked", "exists", "failed", "submitted"}]
      BY <1>1, <1>2 DEF FormIInv, FormTypeOK
    <2> QED BY <1>1, <2>1, <2>2 DEF FormIInv, FormTypeOK
  <1>4. /\ entry'[s] = a
        /\ \A q \in Submitters \ {s} : entry'[q] = entry[q]
    BY <1>1 DEF FormIInv, FormTypeOK
  <1>5. ~racedEntry' => /\ ~racedEntry
                        /\ a = "checked" =>
                             \A q \in Submitters : entry[q] # "checked"
    BY <1>1
  <1>6. AskedOnce'
    BY <1>1, <1>5 DEF FormIInv, AskedOnce
  <1>7. LookUpsRight'
    BY <1>1, <1>2, <1>4, <1>5 DEF FormIInv, LookUpsRight
  <1> QED BY <1>3, <1>6, <1>7 DEF FormIInv

(* A row is added by who found none.                                       *)
LEMMA AddRight ==
  ASSUME FormIInv, NEW s \in Submitters, AddEntry(s) PROVE FormIInv'
  <1>1. /\ entry[s] = "checked" /\ entries' = entries + 1
        /\ entry' = [entry EXCEPT ![s] = "submitted"]
        /\ UNCHANGED <<formPage, showForm, submitting, told, racedEntry>>
    BY DEF AddEntry
  <1>2. entries \in Nat
    BY DEF FormIInv, FormTypeOK
  <1>3. FormTypeOK'
    BY <1>1 DEF FormIInv, FormTypeOK
  <1>4. /\ entry'[s] = "submitted"
        /\ \A q \in Submitters \ {s} : entry'[q] = entry[q]
    BY <1>1 DEF FormIInv, FormTypeOK
  <1>5. ~racedEntry => entries = 0 /\ \A q \in Submitters \ {s} :
                                        entry[q] # "checked"
    BY <1>1 DEF FormIInv, LookUpsRight
  <1>6. AskedOnce' /\ LookUpsRight'
    BY <1>1, <1>2, <1>4, <1>5 DEF FormIInv, AskedOnce, LookUpsRight
  <1> QED BY <1>3, <1>6 DEF FormIInv

(* An answer says what there is.                                           *)
LEMMA AnswerRight ==
  ASSUME FormIInv, NEW s \in Submitters, FormAnswered(s) \/ FormLost(s)
  PROVE  FormIInv'
  <1>1. PICK message \in {"submitted", "exists", "failed"} :
          /\ message \in {entry[s], "failed"}
          /\ CloseRequest(s, message)
    BY DEF FormAnswered, FormLost
  <1>2. /\ entry' = [entry EXCEPT ![s] = "none"]
        /\ submitting' \in {submitting, FALSE} /\ told' \in {told, message}
        /\ UNCHANGED <<formPage, entries, racedEntry>>
    BY <1>1 DEF CloseRequest
  <1>3. showForm' \in BOOLEAN
    BY <1>1 DEF CloseRequest, FormIInv, FormTypeOK
  <1>4. /\ entry' \in [Submitters ->
             {"none", "sent", "checked", "exists", "failed", "submitted"}]
        /\ \A q \in Submitters : entry'[q] = entry[q] \/ entry'[q] = "none"
    BY <1>2 DEF FormIInv, FormTypeOK
  <1>5. submitting' \in BOOLEAN
    BY <1>2 DEF FormIInv, FormTypeOK
  <1>6. FormTypeOK'
    BY <1>1, <1>2, <1>3, <1>4, <1>5 DEF FormIInv, FormTypeOK
  <1>7. message \in {"submitted", "exists"} => entries > 0
    BY <1>1 DEF FormIInv, LookUpsRight
  <1>8. AskedOnce' /\ LookUpsRight'
    BY <1>2, <1>4, <1>7 DEF FormIInv, AskedOnce, LookUpsRight
  <1> QED BY <1>6, <1>8 DEF FormIInv

(* Every step of the form keeps its invariant.                             *)
LEMMA FormSteps ==
  ASSUME FormIInv, [FormNext]_formVars PROVE FormIInv'
  BY FormPages, LookUpRight, AddRight, AnswerRight DEF FormNext

-----------------------------------------------------------------------------
(* The tab's types.                                                        *)
LEMMA InterfacesStart == InterfacesInit => InterfacesTypeOK
  <1> SUFFICES ASSUME InterfacesInit PROVE InterfacesTypeOK
    OBVIOUS
  <1> USE InterfacesAssumption DEF InterfacesInit
  <1>1. tabOpen \in BOOLEAN
    OBVIOUS
  <1>2. /\ links \in Links /\ changes \in 0 .. MaxChanges
        /\ cards = NoCards /\ scans = {} /\ toggles = {} /\ toggling = NoIface
    OBVIOUS
  <1> QED BY <1>1, <1>2 DEF InterfacesTypeOK

(* A link that is set to up or down leaves links.                          *)
LEMMA LinkSet ==
  ASSUME NEW l \in Links, NEW i, NEW to \in {"up", "down"}
  PROVE  [l EXCEPT ![i] = to] \in Links
  BY DEF Links

(* Every step of the tab keeps its types.                                  *)
LEMMA InterfacesSteps ==
  ASSUME InterfacesTypeOK, [InterfacesNext]_ifaceVars PROVE InterfacesTypeOK'
  <1> USE InterfacesAssumption DEF InterfacesTypeOK
  <1>1. CASE UNCHANGED ifaceVars
    BY <1>1 DEF ifaceVars
  <1>2. CASE OpenTab
    BY <1>2 DEF OpenTab
  <1>3. CASE CloseTab
    BY <1>3 DEF CloseTab
  <1>4. CASE Scan
    BY <1>4 DEF Scan
  <1>5. ASSUME NEW s \in scans, ScanShown(s) \/ ScanFailed(s)
        PROVE  InterfacesTypeOK'
    BY <1>5 DEF ScanShown, ScanFailed
  <1>6. ASSUME NEW i \in Ifaces, Toggle(i) PROVE InterfacesTypeOK'
    <2>1. PICK to \in {"up", "down"} :
            toggles' = toggles \cup
              {[iface |-> i, served |-> FALSE, to |-> to]}
      BY <1>6 DEF Toggle
    <2> DEFINE t == [iface |-> i, served |-> FALSE, to |-> to]
    <2>4. t \in [iface : Ifaces, served : BOOLEAN, to : {"up", "down"}]
      OBVIOUS
    <2> HIDE DEF t
    <2>2. toggles' \subseteq [iface : Ifaces, served : BOOLEAN,
                              to : {"up", "down"}]
      BY <2>1, <2>4 DEF t
    <2>3. /\ UNCHANGED <<tabOpen, links, changes, cards, scans>>
          /\ toggling' = i
      BY <1>6 DEF Toggle
    <2> QED BY <2>2, <2>3
  <1>7. ASSUME NEW i \in Ifaces, LinkChanges(i) PROVE InterfacesTypeOK'
    <2>1. links' \in Links
      BY <1>7, LinkSet DEF LinkChanges
    <2>2. changes' \in 0 .. MaxChanges
      BY <1>7 DEF LinkChanges
    <2> QED BY <1>7, <2>1, <2>2 DEF LinkChanges
  <1>8. ASSUME NEW t \in toggles, SetLink(t) PROVE InterfacesTypeOK'
    <2>1. t \in [iface : Ifaces, served : BOOLEAN, to : {"up", "down"}]
      OBVIOUS
    <2>2. links' \in Links
      <3>1. PICK now \in {"down", t.to} :
              links' = [links EXCEPT ![t.iface] = now]
        BY <1>8 DEF SetLink
      <3> QED BY <2>1, <3>1, LinkSet
    <2>3. changes' \in 0 .. MaxChanges
      BY <1>8 DEF SetLink
    <2>4. toggles' \subseteq [iface : Ifaces, served : BOOLEAN,
                              to : {"up", "down"}]
      BY <1>8, <2>1 DEF SetLink
    <2> QED BY <1>8, <2>2, <2>3, <2>4 DEF SetLink
  <1>9. ASSUME NEW t \in toggles, ToggleShown(t) \/ ToggleFailed(t)
        PROVE  InterfacesTypeOK'
    <2>1. t \in [iface : Ifaces, served : BOOLEAN, to : {"up", "down"}]
      OBVIOUS
    <2>2. cards' \in Links \cup {NoCards} /\ (~tabOpen => cards' = NoCards)
      <3>1. CASE ToggleShown(t) /\ cards # NoCards
        BY <2>1, <3>1, LinkSet DEF ToggleShown
      <3>2. CASE ~(ToggleShown(t) /\ cards # NoCards)
        BY <1>9, <3>2 DEF ToggleShown, ToggleFailed
      <3> QED BY <3>1, <3>2
    <2> QED BY <1>9, <2>2 DEF ToggleShown, ToggleFailed
  <1> QED BY <1>1, <1>2, <1>3, <1>4, <1>5, <1>6, <1>7, <1>8, <1>9
          DEF InterfacesNext

-----------------------------------------------------------------------------
(* What a report of the backend may be.                                    *)
ReportStates(n) ==
  [step : {"none", "received", "opened", "closing"},
   says : {"clear", "obstructed"}, row : 0 .. n]

(* The outages begin in their invariant.                                   *)
LEMMA OutagesStart == OutagesInit => OutagesIInv
  <1> SUFFICES ASSUME OutagesInit PROVE OutagesIInv
    OBVIOUS
  <1> USE OutagesAssumption DEF OutagesInit
  <1>1. timeline \in BOOLEAN /\ banner \in BOOLEAN /\ spoiled \in BOOLEAN
    OBVIOUS
  <1>2. Served = {}
    BY DEF Served, NoReport
  <1>3. report \in [Reports -> ReportStates(outages)]
    BY DEF NoReport, ReportStates
  <1>4. openOutage \in [Workers -> 0 .. outages]
    OBVIOUS
  <1>5. OutagesTypeOK
    BY <1>1, <1>3, <1>4 DEF OutagesTypeOK, ReportStates
  <1> QED BY <1>2, <1>5 DEF OutagesIInv, OpenOutagesHeld, OneServed

(* Every step of the outages keeps their types.                            *)
LEMMA OutagesTypes ==
  ASSUME OutagesTypeOK, [OutagesNext]_outageVars PROVE OutagesTypeOK'
  <1> USE OutagesAssumption DEF OutagesTypeOK
  <1>1. /\ timeline' \in BOOLEAN /\ banner' \in BOOLEAN /\ spoiled' \in BOOLEAN
        /\ loads' \subseteq BOOLEAN
    <2>1. CASE OutagesNext
      BY <2>1 DEF OutagesNext, DishTurns, RestartBackend, TokenExpires,
           ShowTimeline, LeaveTimeline, Load, Push, Ingest, OpenRow, Remember,
           Forget, EndRow, CommitFails, Loaded, LoadFailed, timelineVars
    <2> QED BY <2>1 DEF outageVars, timelineVars
  <1>2. CASE UNCHANGED <<dish, turns, poller, report, outages, open,
                         openOutage>>
    BY <1>1, <1>2
  <1>3. CASE DishTurns
    BY <1>1, <1>3 DEF DishTurns
  <1>4. CASE RestartBackend
    <2>1. report' \in [Reports -> ReportStates(outages)]
      BY <1>4 DEF RestartBackend, NoReport, ReportStates
    <2> QED BY <1>1, <1>4, <2>1 DEF RestartBackend, ReportStates
  <1>5. CASE TokenExpires
    BY <1>1, <1>5 DEF TokenExpires
  <1>6. ASSUME NEW r \in Reports, Push(r) PROVE OutagesTypeOK'
    <2>1. report' \in [Reports -> ReportStates(outages)]
      BY <1>6 DEF Push, ReportStates
    <2> QED BY <1>1, <1>6, <2>1 DEF Push, ReportStates
  <1>7. ASSUME NEW r \in Reports,
               Ingest(r) \/ Remember(r) \/ EndRow(r) \/ CommitFails(r)
        PROVE  OutagesTypeOK'
    <2>1. report' = [report EXCEPT ![r] = NoReport]
      BY <1>7 DEF Ingest, Remember, EndRow, CommitFails, Done
    <2>2. report' \in [Reports -> ReportStates(outages)]
      BY <2>1 DEF NoReport, ReportStates
    <2>3. UNCHANGED <<dish, turns, poller, outages>> /\ open' \subseteq open
      BY <1>7 DEF Ingest, Remember, EndRow, CommitFails
    <2>4. openOutage' \in [Workers -> 0 .. outages]
      BY <1>7 DEF Ingest, Remember, EndRow, CommitFails, Know
    <2> QED BY <1>1, <2>2, <2>3, <2>4 DEF ReportStates
  <1>8. ASSUME NEW r \in Reports, OpenRow(r) PROVE OutagesTypeOK'
    <2>1. /\ report' = [report EXCEPT ![r].step = "opened",
                                      ![r].row = outages + 1]
          /\ outages < MaxOutages /\ outages' = outages + 1
          /\ open' = open \cup {outages + 1}
          /\ UNCHANGED <<dish, turns, poller, openOutage>>
      BY <1>8 DEF OpenRow
    <2>2. /\ 0 .. outages \subseteq 0 .. outages'
          /\ outages + 1 \in 0 .. outages' /\ outages' \in 0 .. MaxOutages
      BY <2>1
    <2>3. report' \in [Reports -> ReportStates(outages')]
      BY <2>1, <2>2 DEF ReportStates
    <2>4. openOutage' \in [Workers -> 0 .. outages']
      BY <2>1, <2>2
    <2> QED BY <1>1, <2>1, <2>2, <2>3, <2>4 DEF ReportStates
  <1>9. ASSUME NEW r \in Reports, Forget(r) PROVE OutagesTypeOK'
    <2>1. /\ report' = [report EXCEPT ![r].step = "closing",
                                      ![r].row = Known(r)]
          /\ openOutage' = [openOutage EXCEPT ![WorkerOf[r]] = 0]
          /\ UNCHANGED <<dish, turns, poller, outages, open>>
      BY <1>9 DEF Forget, Know
    <2>2. Known(r) \in 0 .. outages
      BY DEF Known
    <2>3. report' \in [Reports -> ReportStates(outages)]
      BY <2>1, <2>2 DEF ReportStates
    <2>4. openOutage' \in [Workers -> 0 .. outages]
      BY <2>1
    <2> QED BY <1>1, <2>1, <2>3, <2>4 DEF ReportStates
  <1>10. CASE ShowTimeline \/ LeaveTimeline \/ Load
              \/ \E l \in loads : Loaded(l) \/ LoadFailed(l)
    BY <1>2, <1>10 DEF ShowTimeline, LeaveTimeline, Load, Loaded, LoadFailed
  <1>11. CASE UNCHANGED outageVars
    BY <1>2, <1>11 DEF outageVars
  <1> QED BY <1>3, <1>4, <1>5, <1>6, <1>7, <1>8, <1>9, <1>10, <1>11
          DEF OutagesNext

(* Where the reports and the rows stay, so does what is held.              *)
LEMMA RowsStay ==
  ASSUME OutagesIInv, UNCHANGED <<report, open, openOutage>>,
         spoiled => spoiled'
  PROVE  OpenOutagesHeld' /\ OneServed'
  <1>1. Served' = Served
    BY DEF Served
  <1>2. \A w \in Workers : ServedBy(w)' = ServedBy(w)
    BY <1>1 DEF ServedBy
  <1>3. \A w \in Workers : \A row : Holds(w, row)' <=> Holds(w, row)
    BY <1>2 DEF Holds
  <1>4. OpenOutagesHeld'
    BY <1>3 DEF OutagesIInv, OpenOutagesHeld
  <1>5. OneServed'
    <2>1. \A r \in Served : WorkerOf[r] \in Workers
      BY OutagesAssumption DEF Served
    <2>2. \A r \in Served : /\ ServedBy(WorkerOf[r])' = ServedBy(WorkerOf[r])
                            /\ Known(r)' = Known(r)
      BY <1>2, <2>1 DEF Known
    <2> QED BY <1>1, <2>2 DEF OutagesIInv, OneServed
  <1> QED BY <1>4, <1>5

(* A step of a report is one of its worker only.                           *)
LEMMA OtherWorkers ==
  ASSUME OutagesTypeOK, NEW r \in Reports, NEW x,
         report' = [report EXCEPT ![r] = x],
         \A w \in Workers \ {WorkerOf[r]} : openOutage'[w] = openOutage[w]
  PROVE  /\ \A q \in Reports \ {r} : report'[q] = report[q]
         /\ \A q \in Reports \ {r} : q \in Served' <=> q \in Served
         /\ report'[r] = x
         /\ \A w \in Workers \ {WorkerOf[r]} :
              /\ ServedBy(w)' = ServedBy(w)
              /\ \A row : Holds(w, row)' <=> Holds(w, row)
  <1>1. /\ report'[r] = x /\ \A q \in Reports \ {r} : report'[q] = report[q]
    BY DEF OutagesTypeOK
  <1>2. \A q \in Reports \ {r} : q \in Served' <=> q \in Served
    BY <1>1 DEF Served
  <1>3. ASSUME NEW w \in Workers \ {WorkerOf[r]}
        PROVE  /\ ServedBy(w)' = ServedBy(w)
               /\ \A row : Holds(w, row)' <=> Holds(w, row)
    <2>1. \A q : q \in ServedBy(w) => q \in Reports \ {r}
      BY <1>3 DEF ServedBy, Served
    <2>2. ServedBy(w)' = ServedBy(w)
      BY <1>2, <1>3 DEF ServedBy, Served
    <2>3. openOutage'[w] = openOutage[w]
      BY <1>3
    <2> QED BY <1>1, <2>1, <2>2, <2>3 DEF Holds
  <1> QED BY <1>1, <1>2, <1>3

(* What the worker of a report that is served holds, before and after it.  *)
LEMMA OwnWorker ==
  ASSUME OutagesIInv, ~spoiled, NEW r \in Served,
         \A q \in Reports \ {r} : q \in Served' <=> q \in Served
  PROVE  /\ \A row : Holds(WorkerOf[r], row) <=>
              \/ Known(r) = row
              \/ /\ report[r].step \in {"opened", "closing"}
                 /\ report[r].row = row
         /\ \A row : Holds(WorkerOf[r], row)' <=>
              \/ Known(r)' = row
              \/ /\ report'[r].step \in {"opened", "closing"}
                 /\ report'[r].row = row
         /\ \A q \in Served' : WorkerOf[q] = WorkerOf[r] => q = r
  <1>1. r \in Reports /\ ServedBy(WorkerOf[r]) = {r}
    BY DEF Served, OutagesIInv, OneServed
  <1>2. \A q \in Served' : WorkerOf[q] = WorkerOf[r] => q = r
    BY <1>1 DEF Served, ServedBy
  <1>3. /\ ServedBy(WorkerOf[r])' \subseteq {r}
        /\ report'[r].step # "none" => r \in ServedBy(WorkerOf[r])'
    BY <1>1, <1>2 DEF ServedBy, Served
  <1> QED BY <1>1, <1>2, <1>3 DEF Holds, Known

(* What a step of a report has to show, for what is held to be right.      *)
LEMMA HeldKept ==
  ASSUME OutagesIInv, ~spoiled, NEW r \in Served,
         \A w \in Workers \ {WorkerOf[r]} :
           \A row : Holds(w, row)' <=> Holds(w, row),
         \A row \in open' : row \in open \/ Holds(WorkerOf[r], row)',
         \A row \in open' :
           Holds(WorkerOf[r], row) => Holds(WorkerOf[r], row)',
         \A row \in open' \ open : \A w \in Workers : ~Holds(w, row),
         \A row, other \in open' :
           Holds(WorkerOf[r], row)' /\ Holds(WorkerOf[r], other)' =>
             row = other
  PROVE  OpenOutagesHeld'
  <1>1. WorkerOf[r] \in Workers
    BY OutagesAssumption DEF Served
  <1>2. /\ \A row \in open : \E w \in Workers : Holds(w, row)
        /\ \A w \in Workers : \A row, other \in open :
             Holds(w, row) /\ Holds(w, other) => row = other
    BY DEF OutagesIInv, OpenOutagesHeld
  <1>3. ASSUME NEW row \in open' PROVE \E w \in Workers : Holds(w, row)'
    <2>1. CASE row \in open
      <3> PICK w \in Workers : Holds(w, row)
        BY <1>2, <2>1
      <3>1. CASE w = WorkerOf[r]
        BY <1>1, <3>1
      <3>2. CASE w # WorkerOf[r]
        BY <3>2
      <3> QED BY <3>1, <3>2
    <2>2. CASE row \notin open
      BY <1>1, <2>2
    <2> QED BY <2>1, <2>2
  <1>4. ASSUME NEW w \in Workers, NEW row \in open', NEW other \in open',
               Holds(w, row)', Holds(w, other)'
        PROVE  row = other
    <2>1. CASE w = WorkerOf[r]
      BY <1>4, <2>1
    <2>2. CASE w # WorkerOf[r]
      <3>1. Holds(w, row) /\ Holds(w, other)
        BY <1>4, <2>2
      <3>2. row \in open /\ other \in open
        BY <3>1
      <3> QED BY <1>2, <3>1, <3>2
    <2> QED BY <2>1, <2>2
  <1> QED BY <1>3, <1>4 DEF OpenOutagesHeld

(* Its worker still serves one report, and knows no row while it is        *)
(* opening or closing one.                                                 *)
LEMMA ServedKept ==
  ASSUME OutagesIInv, ~spoiled, NEW r \in Served,
         \A q \in Reports \ {r} : /\ report'[q] = report[q]
                                  /\ q \in Served' <=> q \in Served,
         \A w \in Workers \ {WorkerOf[r]} : /\ ServedBy(w)' = ServedBy(w)
                                            /\ openOutage'[w] = openOutage[w],
         r \in Served' => Known(r)' = 0
  PROVE  OneServed'
  <1> SUFFICES ASSUME NEW q \in Served'
               PROVE  /\ ServedBy(WorkerOf[q])' = {q}
                      /\ report'[q].step # "received" => Known(q)' = 0
    BY DEF OneServed
  <1>1. r \in Reports /\ q \in Reports /\ WorkerOf[q] \in Workers
    BY OutagesAssumption DEF Served
  <1>2. CASE WorkerOf[q] = WorkerOf[r]
    <2>1. q = r
      BY <1>2, OwnWorker
    <2>2. \A p \in Served' : WorkerOf[p] = WorkerOf[r] => p = r
      BY OwnWorker
    <2> QED BY <1>1, <2>1, <2>2 DEF ServedBy
  <1>3. CASE WorkerOf[q] # WorkerOf[r]
    <2>1. q \in Served /\ report'[q] = report[q]
      BY <1>1, <1>3
    <2>2. ServedBy(WorkerOf[q])' = ServedBy(WorkerOf[q]) /\ Known(q)' = Known(q)
      BY <1>1, <1>3 DEF Known
    <2> QED BY <2>1, <2>2 DEF OutagesIInv, OneServed
  <1> QED BY <1>2, <1>3

(* A report that ends leaves its row held, or ended.                       *)
LEMMA ReportOver ==
  ASSUME OutagesIInv, ~spoiled, ~spoiled', NEW r \in Reports,
         Ingest(r) \/ Remember(r) \/ EndRow(r) \/ CommitFails(r)
  PROVE  OpenOutagesHeld' /\ OneServed'
  <1>0. r \in Served /\ OutagesTypeOK
    BY DEF Ingest, Remember, EndRow, CommitFails, Served, OutagesIInv
  <1>1. report' = [report EXCEPT ![r] = NoReport] /\ NoReport.step = "none"
    BY DEF Ingest, Remember, EndRow, CommitFails, Done, NoReport
  <1>2. /\ WorkerOf[r] \in Workers /\ openOutage \in [Workers -> 0 .. outages]
        /\ open \subseteq 1 .. outages /\ outages \in Nat
    BY <1>0, OutagesAssumption DEF OutagesTypeOK
  <1>3. \A w \in Workers \ {WorkerOf[r]} : openOutage'[w] = openOutage[w]
    BY <1>2 DEF Ingest, Remember, EndRow, CommitFails, Know
  <1>4. /\ \A q \in Reports \ {r} : /\ report'[q] = report[q]
                                    /\ q \in Served' <=> q \in Served
        /\ report'[r] = NoReport
        /\ \A w \in Workers \ {WorkerOf[r]} :
             /\ ServedBy(w)' = ServedBy(w)
             /\ \A row : Holds(w, row)' <=> Holds(w, row)
    BY <1>0, <1>1, <1>3, OtherWorkers
  <1>5. r \notin Served'
    BY <1>1, <1>4 DEF Served
  <1>6. /\ \A row : Holds(WorkerOf[r], row) <=>
             \/ Known(r) = row
             \/ /\ report[r].step \in {"opened", "closing"}
                /\ report[r].row = row
        /\ \A row : Holds(WorkerOf[r], row)' <=> Known(r)' = row
    BY <1>0, <1>1, <1>4, OwnWorker
  <1>7. report[r].step # "received" => Known(r) = 0
    BY <1>0 DEF OutagesIInv, OneServed
  <1>8. /\ open' \subseteq open
        /\ \A row \in open' :
             Holds(WorkerOf[r], row) => Holds(WorkerOf[r], row)'
    <2>1. CASE Ingest(r)
      <3>1. /\ report[r].step = "received" /\ open' = open
            /\ openOutage' = openOutage
        BY <2>1 DEF Ingest
      <3> QED BY <1>6, <3>1 DEF Known
    <2>2. CASE Remember(r)
      <3>1. /\ report[r].step = "opened" /\ open' = open
            /\ Known(r)' = report[r].row
        BY <1>2, <2>2 DEF Remember, Know, Known
      <3> QED BY <1>2, <1>6, <1>7, <3>1
    <2>3. CASE EndRow(r)
      <3>1. /\ report[r].step = "closing" /\ open' = open \ {report[r].row}
            /\ openOutage' = openOutage
        BY <2>3 DEF EndRow
      <3> QED BY <1>2, <1>6, <1>7, <3>1
    <2>4. CASE CommitFails(r)
      <3>1. /\ report[r].step = "received" /\ open' = open
            /\ openOutage' = openOutage
        BY <2>4 DEF CommitFails
      <3> QED BY <1>6, <3>1 DEF Known
    <2> QED BY <2>1, <2>2, <2>3, <2>4
  <1>9. OpenOutagesHeld'
    <2>1. \A row, other \in open' :
            Holds(WorkerOf[r], row)' /\ Holds(WorkerOf[r], other)' =>
              row = other
      BY <1>6
    <2> QED BY <1>0, <1>4, <1>8, <2>1, HeldKept
  <1>10. OneServed'
    BY <1>0, <1>3, <1>4, <1>5, ServedKept
  <1> QED BY <1>9, <1>10

(* A report that opens a row, or forgets one, holds it.                    *)
LEMMA ReportTurns ==
  ASSUME OutagesIInv, ~spoiled, NEW r \in Reports, OpenRow(r) \/ Forget(r)
  PROVE  OpenOutagesHeld' /\ OneServed'
  <1> DEFINE row0 == IF OpenRow(r) THEN outages + 1 ELSE Known(r)
             step == IF OpenRow(r) THEN "opened" ELSE "closing"
             x == [report[r] EXCEPT !.step = step, !.row = row0]
  <1>0. r \in Served /\ OutagesTypeOK
    BY DEF OpenRow, Forget, Served, OutagesIInv
  <1>1. /\ WorkerOf[r] \in Workers /\ openOutage \in [Workers -> 0 .. outages]
        /\ open \subseteq 1 .. outages /\ outages \in Nat
        /\ report \in [Reports -> ReportStates(outages)]
    BY <1>0, OutagesAssumption DEF OutagesTypeOK, ReportStates
  <1>2. /\ report[r].step = "received"
        /\ report' = [report EXCEPT ![r] = x]
        /\ OpenRow(r) => Known(r) = 0 /\ open' = open \cup {row0}
                         /\ openOutage' = openOutage
        /\ ~OpenRow(r) => open' = open /\ row0 = Known(r)
                          /\ openOutage' = [openOutage EXCEPT ![WorkerOf[r]] = 0]
    BY <1>1 DEF OpenRow, Forget, Know
  <1>3. x.step = step /\ x.row = row0 /\ step \in {"opened", "closing"}
    BY <1>1 DEF ReportStates
  <1>4. OpenRow(r) => row0 = outages + 1
    OBVIOUS
  <1> HIDE DEF row0, step, x
  <1>5. \A w \in Workers \ {WorkerOf[r]} : openOutage'[w] = openOutage[w]
    BY <1>1, <1>2
  <1>6. Known(r)' = 0
    BY <1>1, <1>2 DEF Known
  <1>7. /\ \A q \in Reports \ {r} : /\ report'[q] = report[q]
                                    /\ q \in Served' <=> q \in Served
        /\ report'[r] = x
        /\ \A w \in Workers \ {WorkerOf[r]} :
             /\ ServedBy(w)' = ServedBy(w)
             /\ \A row : Holds(w, row)' <=> Holds(w, row)
    BY <1>0, <1>2, <1>5, OtherWorkers
  <1>8. /\ \A row : Holds(WorkerOf[r], row) <=> Known(r) = row
        /\ \A row : Holds(WorkerOf[r], row)' <=> row = 0 \/ row = row0
    <2>1. /\ \A row : Holds(WorkerOf[r], row) <=>
               \/ Known(r) = row
               \/ /\ report[r].step \in {"opened", "closing"}
                  /\ report[r].row = row
          /\ \A row : Holds(WorkerOf[r], row)' <=>
               \/ Known(r)' = row
               \/ /\ report'[r].step \in {"opened", "closing"}
                  /\ report'[r].row = row
      BY <1>0, <1>7, OwnWorker
    <2> QED BY <1>2, <1>3, <1>6, <1>7, <2>1
  <1>9. /\ \A row \in open' : row # 0
        /\ \A row \in open' : row \in open \/ row = row0
        /\ \A row \in open' : Known(r) = row => row = row0
    BY <1>1, <1>2, <1>4
  <1>10. ASSUME NEW row \in open' \ open, NEW w \in Workers
         PROVE  ~Holds(w, row)
    <2>1. row = outages + 1
      BY <1>2, <1>4, <1>10
    <2>2. openOutage[w] # row /\ \A q \in Served : report[q].row # row
      BY <1>1, <2>1 DEF Served, ReportStates
    <2> QED BY <2>2 DEF Holds, ServedBy
  <1>11. OpenOutagesHeld'
    <2>1. \A row, other \in open' :
            Holds(WorkerOf[r], row)' /\ Holds(WorkerOf[r], other)' =>
              row = other
      BY <1>8, <1>9
    <2>2. \A row \in open' : row \in open \/ Holds(WorkerOf[r], row)'
      BY <1>8, <1>9
    <2>3. \A row \in open' :
            Holds(WorkerOf[r], row) => Holds(WorkerOf[r], row)'
      BY <1>8, <1>9
    <2> QED BY <1>0, <1>7, <1>10, <2>1, <2>2, <2>3, HeldKept
  <1>12. OneServed'
    BY <1>0, <1>5, <1>6, <1>7, ServedKept
  <1> QED BY <1>11, <1>12

(* A report that arrives at a worker that serves none holds nothing yet.   *)
LEMMA ReportPushed ==
  ASSUME OutagesIInv, ~spoiled, ~spoiled', NEW r \in Reports, Push(r)
  PROVE  OpenOutagesHeld' /\ OneServed'
  <1> DEFINE x == [step |-> "received", says |-> dish, row |-> 0]
  <1>1. /\ report' = [report EXCEPT ![r] = x] /\ x.step = "received"
        /\ UNCHANGED <<open, openOutage>>
        /\ r \notin Served /\ ServedBy(WorkerOf[r]) = {}
    BY DEF Push
  <1> HIDE DEF x
  <1>2. WorkerOf[r] \in Workers /\ OutagesTypeOK
    BY OutagesAssumption DEF OutagesIInv
  <1>3. /\ \A q \in Reports \ {r} : /\ report'[q] = report[q]
                                    /\ q \in Served' <=> q \in Served
        /\ report'[r] = x
        /\ \A w \in Workers \ {WorkerOf[r]} :
             /\ ServedBy(w)' = ServedBy(w)
             /\ \A row : Holds(w, row)' <=> Holds(w, row)
    BY <1>1, <1>2, OtherWorkers
  <1>4. ServedBy(WorkerOf[r])' = {r}
    BY <1>1, <1>3 DEF ServedBy, Served
  <1>5. \A w \in Workers : \A row : Holds(w, row)' <=> Holds(w, row)
    <2>1. \A row : Holds(WorkerOf[r], row)' <=> Holds(WorkerOf[r], row)
      BY <1>1, <1>3, <1>4 DEF Holds
    <2> QED BY <1>3, <2>1
  <1>6. OpenOutagesHeld'
    BY <1>1, <1>5 DEF OutagesIInv, OpenOutagesHeld
  <1>7. OneServed'
    <2> SUFFICES ASSUME NEW q \in Served'
                 PROVE  /\ ServedBy(WorkerOf[q])' = {q}
                        /\ report'[q].step # "received" => Known(q)' = 0
      BY DEF OneServed
    <2>1. q \in Reports /\ WorkerOf[q] \in Workers
      BY OutagesAssumption DEF Served
    <2>2. CASE q = r
      BY <1>1, <1>3, <1>4, <2>2
    <2>3. CASE q # r
      <3>1. q \in Served /\ q \in ServedBy(WorkerOf[q])
        BY <1>3, <2>1, <2>3 DEF ServedBy
      <3>2. WorkerOf[q] # WorkerOf[r]
        BY <1>1, <3>1
      <3> QED BY <1>1, <1>3, <2>1, <2>3, <3>1, <3>2
              DEF OutagesIInv, OneServed, Known
    <2> QED BY <2>2, <2>3
  <1> QED BY <1>6, <1>7

(* Every step keeps the open rows held, and one report served by a worker. *)
LEMMA OutagesSteps ==
  ASSUME OutagesIInv, [OutagesNext]_outageVars PROVE OutagesIInv'
  <1>0. OutagesTypeOK'
    BY OutagesTypes DEF OutagesIInv
  <1>1. CASE spoiled'
    BY <1>0, <1>1 DEF OutagesIInv, OpenOutagesHeld, OneServed
  <1>2. CASE DishTurns \/ TokenExpires \/ UNCHANGED outageVars
             \/ ShowTimeline \/ LeaveTimeline \/ Load
             \/ \E l \in loads : Loaded(l) \/ LoadFailed(l)
    <2>1. UNCHANGED <<report, open, openOutage>> /\ (spoiled => spoiled')
      BY <1>2 DEF DishTurns, TokenExpires, ShowTimeline, LeaveTimeline, Load,
                  Loaded, LoadFailed, outageVars
    <2> QED BY <1>0, <2>1, RowsStay DEF OutagesIInv
  <1>3. CASE ~spoiled' /\ RestartBackend
    <2>1. open' = {} /\ report' = [r \in Reports |-> NoReport]
      BY <1>3 DEF RestartBackend
    <2>2. Served' = {}
      BY <2>1 DEF Served, NoReport
    <2> QED BY <1>0, <2>1, <2>2 DEF OutagesIInv, OpenOutagesHeld, OneServed
  <1> QED BY <1>0, <1>1, <1>2, <1>3, ReportOver, ReportTurns, ReportPushed
          DEF OutagesNext, OutagesIInv

-----------------------------------------------------------------------------
(* A step of the whole is a step or a stutter of every part.               *)
LEMMA PartSteps ==
  ASSUME [WebNext]_webVars
  PROVE  /\ [SessionNext]_sessionVars /\ [PollsNext]_pollVars
         /\ [StreamNext]_streamVars /\ [PingNext]_pingVars
         /\ [BillingNext]_billingVars /\ [JitterNext]_jitterVars
         /\ [VotesNext]_votesVars /\ [FormNext]_formVars
         /\ [InterfacesNext]_ifaceVars /\ [OutagesNext]_outageVars
         /\ watched' = watched
  <1>1. CASE UNCHANGED webVars
    BY <1>1 DEF webVars
  <1>2. CASE WebNext
    BY <1>2 DEF WebNext, Step, Keep
  <1> QED BY <1>1, <1>2

(* Every state is well formed, and each part's invariant holds.            *)
THEOREM WebInvariant == WebSpec => []WebIInv
  <1>1. WebInit => WebIInv
    BY SessionStart, PollsStart, StreamStart, PingStart, BillingStart,
       JitterStart, VotesStart, FormStart, InterfacesStart, OutagesStart
       DEF WebInit, WebIInv
  <1>2. WebIInv /\ [WebNext]_webVars => WebIInv'
    <2> SUFFICES ASSUME WebIInv, [WebNext]_webVars PROVE WebIInv'
      OBVIOUS
    <2> QED BY PartSteps, SessionSteps, PollsSteps, StreamSteps, PingSteps,
               BillingSteps, JitterSteps, VotesSteps, FormSteps,
               InterfacesSteps, OutagesSteps DEF WebIInv, Parts
  <1> QED BY <1>1, <1>2, PTL DEF WebSpec

(* The pages speak of the account whose token they send, unless an answer  *)
(* was taken by another session than the one that asked.                   *)
THEOREM SignedInRight == WebSpec => []SignedInIsSelf
  <1>1. WebIInv => SignedInIsSelf
    BY DEF WebIInv, SessionIInv
  <1> QED BY <1>1, WebInvariant, PTL

(* A token the backend accepts is given up by signing out only, but for    *)
(* the same exception.                                                     *)
THEOREM SessionKept == WebSpec => LiveSessionStays
  <1>1. WebIInv /\ [WebNext]_webVars =>
          [(token \in live /\ token' = NoToken)
             => (crossed' \/ SignOut)]_sessionVars
    BY PartSteps, AcceptedStays DEF WebIInv
  <1> QED BY <1>1, WebInvariant, PTL DEF WebSpec, LiveSessionStays

(* A visit that took its answers in order announces no failover twice and  *)
(* misses none it knows of while the backend's list grows.                 *)
THEOREM FailoversAnnounced == WebSpec => []AnnouncedOnce
  <1>1. WebIInv => AnnouncedOnce
    BY DEF WebIInv, PollsIInv
  <1> QED BY <1>1, WebInvariant, PTL

(* Every sample waits or is saved, or was refused or abandoned, and is     *)
(* saved twice only after a lost answer.                                   *)
THEOREM SamplesAccounted == WebSpec => []EverySampleAccounted
  <1>1. WebIInv => EverySampleAccounted
    BY DEF WebIInv, PingIInv
  <1> QED BY <1>1, WebInvariant, PTL

(* A configuration file that was downloaded works while its subscription   *)
(* lives, undisturbed by provisions that overlap or events out of order.   *)
THEOREM ConfigsWork == WebSpec => []ConfigWorks
  <1>1. WebIInv => ConfigWorks
    BY DEF WebIInv, BillingIInv
  <1> QED BY <1>1, WebInvariant, PTL

(* A subscription that was deleted leaves no peer, with the same           *)
(* exceptions.                                                             *)
THEOREM AccessWithdrawn == WebSpec => []AccessEnds
  <1>1. WebIInv => AccessEnds
    BY DEF WebIInv, BillingIInv
  <1> QED BY <1>1, WebInvariant, PTL

(* Neither a vote nor a request for a game counts twice, but for the races *)
(* the two parts name.                                                     *)
THEOREM NothingCountsTwice == WebSpec => []CountedOnce
  <1>1. WebIInv => CountedOnce
    BY DEF WebIInv, VotesIInv, FormIInv, CountedOnce
  <1> QED BY <1>1, WebInvariant, PTL

(* Where nothing has spoiled it, every open row is held by one of the      *)
(* backend's workers, which can end it, and no worker holds two.           *)
THEOREM OutagesHeld == WebSpec => []OpenOutagesHeld
  <1>1. WebIInv => OpenOutagesHeld
    BY DEF WebIInv, OutagesIInv
  <1> QED BY <1>1, WebInvariant, PTL

-----------------------------------------------------------------------------
(***************************************************************************)
(* What follows from the invariants, or rests on a little more.            *)
(***************************************************************************)

(* The key a subscription was given is the only one that works for it on   *)
(* this host: two peers of one subscription, of neither of which anything  *)
(* failed, are the same, undisturbed by provisions that overlap or events  *)
(* out of order.                                                           *)
THEOREM OnePeerHolds == WebSpec => []OnePeerEach
  <1>1. WebIInv => OnePeerEach
    <2> SUFFICES ASSUME BillingIInv, ~disturbed,
                        NEW p \in peers, NEW q \in peers, p.row = q.row,
                        p.key \notin failed, q.key \notin failed
                 PROVE  p = q
      BY DEF WebIInv, OnePeerEach
    <2>1. OneProvision /\ KeysKnown
      BY DEF BillingIInv
    <2>2. /\ p \in [row : Rows, key : 1 .. keys] /\ p.key # 0
          /\ q \in [row : Rows, key : 1 .. keys] /\ q.key # 0
      BY DEF BillingIInv, BillingTypeOK, RowsTypeOK
    <2>3. \/ rows[p.row].key = p.key
          \/ \E c \in Provisioning : /\ c # "app" /\ provision[c].row = p.row
                                     /\ provision[c].key = p.key
      BY <2>1 DEF KeysKnown
    <2>4. \/ rows[p.row].key = q.key
          \/ \E c \in Provisioning : /\ c # "app" /\ provision[c].row = p.row
                                     /\ provision[c].key = q.key
      BY <2>1 DEF KeysKnown
    <2>5. \A c \in Provisioning :
            c # "app" /\ provision[c].row = p.row => rows[p.row].key = 0
      BY <2>1 DEF OneProvision
    <2>6. \A c, d \in Provisioning : c = d
      BY <2>1 DEF OneProvision
    <2>7. p.key = q.key
      BY <2>2, <2>3, <2>4, <2>5, <2>6
    <2> QED BY <2>2, <2>7
  <1> QED BY <1>1, WebInvariant, PTL

(* A vote is counted on top of all the others, unless two of one request   *)
(* were served at once: what the backend read is still the count.          *)
THEOREM VotesOnlyGrow == WebSpec => VotesGrow
  <1>1. ASSUME VotesIInv, [VotesNext]_votesVars, ~raced', NEW g \in Votable
        PROVE  votes'[g] = votes[g] \/ votes'[g] = votes[g] + 1
    <2>1. CASE \E v \in Voters : CommitRow(v)
      <3> PICK v \in Voters : CommitRow(v)
        BY <2>1
      <3>1. /\ vote[v].step = "read" /\ ~raced
            /\ votes' = [votes EXCEPT ![vote[v].request] = vote[v].read + 1]
        BY <1>1 DEF CommitRow
      <3>2. vote[v].read = votes[vote[v].request]
        BY <1>1, <3>1 DEF VotesIInv, ReadIsCount
      <3>3. votes \in [Votable -> Nat]
        BY <1>1 DEF VotesIInv, VotesTypeOK
      <3> QED BY <3>1, <3>2, <3>3
    <2>2. CASE ~\E v \in Voters : CommitRow(v)
      <3>1. votes' = votes
        BY <1>1, <2>2 DEF VotesNext, Vote, VoteOfOther, ReadRow, VoteTold,
             VoteLost, OpenAgain, votesVars
      <3> QED BY <3>1
    <2> QED BY <2>1, <2>2
  <1>2. WebIInv /\ [WebNext]_webVars =>
          [~raced' => \A g \in Votable :
             votes'[g] = votes[g] \/ votes'[g] = votes[g] + 1]_votesVars
    BY <1>1, PartSteps DEF WebIInv
  <1> QED BY <1>2, WebInvariant, PTL DEF WebSpec, VotesGrow

(* A browser that had one vote under way at a time forgets none of them,   *)
(* although an answer stores what the page knew when the vote was clicked. *)
THEOREM VotesRemembered == WebSpec => VotedStays
  <1>1. ASSUME VotesIInv, [VotesNext]_votesVars, ~hasty'
        PROVE  votedIds \subseteq votedIds' /\ ajVoted \subseteq ajVoted'
    <2>1. CASE \E v \in Voters : VoteTold(v)
      <3> PICK v \in Voters : VoteTold(v)
        BY <2>1
      <3>1. ~hasty /\ v \in OwnUnderWay
        BY <1>1 DEF VoteTold, OwnUnderWay, Voters, Clicked, Other
      <3>2. ajVoted = votedIds /\ vote[v].known = votedIds
        BY <1>1, <3>1 DEF VotesIInv, VotesKnown
      <3> QED BY <3>2 DEF VoteTold
    <2>2. CASE OpenAgain
      <3>1. ~hasty
        BY <1>1, <2>2 DEF OpenAgain
      <3>2. ajVoted = votedIds
        BY <1>1, <3>1 DEF VotesIInv, VotesKnown
      <3> QED BY <2>2, <3>2 DEF OpenAgain
    <2>3. CASE ~OpenAgain /\ ~\E v \in Voters : VoteTold(v)
      <3>1. UNCHANGED <<votedIds, ajVoted>>
        BY <1>1, <2>3 DEF VotesNext, Vote, VoteOfOther, ReadRow, CommitRow,
             VoteLost, votesVars
      <3> QED BY <3>1
    <2> QED BY <2>1, <2>2, <2>3
  <1>2. WebIInv /\ [WebNext]_webVars =>
          [~hasty' => votedIds \subseteq votedIds'
                      /\ ajVoted \subseteq ajVoted']_votesVars
    BY <1>1, PartSteps DEF WebIInv
  <1> QED BY <1>2, WebInvariant, PTL DEF WebSpec, VotedStays

(* A stream is held by its run, and "connected" is said of an open one.    *)
LEMMA StreamAliveSteps ==
  ASSUME StreamTypeOK, StreamAlive, [StreamNext]_streamVars
  PROVE  StreamAlive'
  <1>a. /\ stream \in [Runs -> {"none", "connecting", "open", "closing", "waiting"}]
        /\ streamOf \in [Runs -> 0 .. MaxMounts]
        /\ run \in 0 .. MaxRuns /\ MaxRuns \in Nat
    BY MetricsStreamAssumption DEF StreamTypeOK
  <1>b. \A r \in Runs : /\ Cleanup[r] = "none" <=> stream[r] = "none"
                        /\ stream[r] \in {"open", "closing"} =>
                             Cleanup[r] \in {"open", "closing"}
    BY <1>a DEF Cleanup
  <1>c. Cleanup \in [Runs -> {"none", "connecting", "open", "closing", "waiting"}]
    BY <1>a DEF Cleanup
  <1>d. /\ \A r \in Runs : stream[r] # "none" <=> r <= run
        /\ onScreen => \E r \in Runs :
             /\ streamOf[r] = mount /\ stream[r] # "none"
             /\ connected => stream[r] \in {"open", "closing"}
    BY DEF StreamAlive, Shown
  <1>1. CASE Mount
    <2>1. /\ run < MaxRuns /\ run' = run + 1
          /\ stream' = [stream EXCEPT ![run + 1] = "connecting"]
          /\ streamOf' = [streamOf EXCEPT ![run + 1] = mount']
          /\ onScreen' /\ ~connected'
      BY <1>1 DEF Mount, NewRun
    <2>2. run + 1 \in Runs
      BY <1>a, <2>1 DEF Runs
    <2>3. \A r \in Runs : stream'[r] # "none" <=> r <= run'
      BY <1>a, <1>d, <2>1, <2>2 DEF Runs
    <2>4. streamOf'[run + 1] = mount' /\ stream'[run + 1] = "connecting"
      BY <1>a, <2>1, <2>2
    <2> QED BY <2>1, <2>2, <2>3, <2>4 DEF StreamAlive, Shown
  <1>2. CASE TokenChanges
    <2>1. /\ run < MaxRuns /\ run' = run + 1
          /\ stream' = [Cleanup EXCEPT ![run + 1] = "connecting"]
          /\ streamOf' = [streamOf EXCEPT ![run + 1] = mount]
          /\ onScreen /\ UNCHANGED <<onScreen, mount, connected>>
      BY <1>2 DEF TokenChanges, NewRun
    <2>2. run + 1 \in Runs
      BY <1>a, <2>1 DEF Runs
    <2>3. \A r \in Runs : stream'[r] # "none" <=> r <= run'
      BY <1>a, <1>b, <1>c, <1>d, <2>1, <2>2 DEF Runs
    <2> PICK r \in Runs : /\ streamOf[r] = mount /\ stream[r] # "none"
                          /\ connected => stream[r] \in {"open", "closing"}
      BY <1>d, <2>1
    <2>4. r # run + 1
      BY <1>a, <1>d DEF Runs
    <2>5. streamOf'[r] = mount /\ stream'[r] = Cleanup[r]
      BY <1>a, <1>c, <2>1, <2>4
    <2> QED BY <1>b, <2>1, <2>3, <2>5 DEF StreamAlive, Shown
  <1>3. CASE Unmount
    <2>1. stream' = Cleanup /\ ~onScreen' /\ run' = run
      BY <1>3 DEF Unmount
    <2> QED BY <1>b, <1>d, <2>1 DEF StreamAlive
  <1>4. ASSUME NEW q \in Runs, Opened(q) PROVE StreamAlive'
    <2>1. /\ stream[q] = "connecting" /\ stream' = [stream EXCEPT ![q] = "open"]
          /\ UNCHANGED <<onScreen, mount, run, streamOf>>
          /\ connected' = IF Shown(q) THEN TRUE ELSE connected
      BY <1>4 DEF Opened
    <2>2. stream'[q] = "open" /\ \A r \in Runs \ {q} : stream'[r] = stream[r]
      BY <1>a, <2>1
    <2>3. CASE Shown(q)
      BY <1>d, <2>1, <2>2, <2>3 DEF StreamAlive, Shown
    <2>4. CASE ~Shown(q)
      BY <1>d, <2>1, <2>2, <2>4 DEF StreamAlive, Shown
    <2> QED BY <2>3, <2>4
  <1>5. ASSUME NEW q \in Runs, Closed(q) PROVE StreamAlive'
    <2>1. /\ stream[q] # "none" /\ stream' = [stream EXCEPT ![q] = "waiting"]
          /\ UNCHANGED <<onScreen, mount, run, streamOf>>
          /\ connected' = IF Shown(q) THEN FALSE ELSE connected
      BY <1>5 DEF Closed
    <2>2. stream'[q] = "waiting" /\ \A r \in Runs \ {q} : stream'[r] = stream[r]
      BY <1>a, <2>1
    <2>3. CASE Shown(q)
      BY <1>d, <2>1, <2>2, <2>3 DEF StreamAlive, Shown
    <2>4. CASE ~Shown(q)
      BY <1>d, <2>1, <2>2, <2>4 DEF StreamAlive, Shown
    <2> QED BY <2>3, <2>4
  <1>6. ASSUME NEW q \in Runs, Reconnect(q) PROVE StreamAlive'
    <2>1. /\ stream[q] = "waiting" /\ stream' = [stream EXCEPT ![q] = "connecting"]
          /\ UNCHANGED <<onScreen, mount, run, streamOf, connected>>
      BY <1>6 DEF Reconnect
    <2>2. /\ stream'[q] = "connecting"
          /\ \A r \in Runs \ {q} : stream'[r] = stream[r]
      BY <1>a, <2>1
    <2> QED BY <1>d, <2>1, <2>2 DEF StreamAlive, Shown
  <1>7. CASE UNCHANGED streamVars
    BY <1>7, <1>d DEF streamVars, StreamAlive, Shown
  <1> QED BY <1>1, <1>2, <1>3, <1>4, <1>5, <1>6, <1>7 DEF StreamNext

(* A page on the screen has a stream that is up or on its way, and does    *)
(* not claim to be connected without; no run of the effect ever lets go of *)
(* its stream, so that those of pages that were left stay for ever         *)
(* (dashboard/frontend/src/hooks/useMetrics.js).                           *)
THEOREM StreamsStayAlive == WebSpec => []StreamAlive
  <1>1. WebInit => StreamAlive
    <2> SUFFICES ASSUME StreamInit PROVE StreamAlive
      BY DEF WebInit
    <2>1. \A r \in Runs : stream[r] = "none" /\ ~(r <= run)
      BY MetricsStreamAssumption DEF StreamInit, Runs
    <2> QED BY <2>1 DEF StreamInit, StreamAlive
  <1>2. WebIInv /\ StreamAlive /\ [WebNext]_webVars => StreamAlive'
    BY StreamAliveSteps, PartSteps DEF WebIInv
  <1> QED BY <1>1, <1>2, WebInvariant, PTL DEF WebSpec

(* A test's timer is the page's, from the end of its warm-up until its     *)
(* last answer.                                                            *)
LEMMA TimerSteps ==
  ASSUME JitterTypeOK, JitterTypeOK', TimerInv, [JitterNext]_jitterVars
  PROVE  TimerInv'
  <1> USE DEF TimerInv, NoTimerLeft, OwnTimer
  <1>a. /\ warming \in [Tests -> 0 .. 2] /\ pings \in [Tests -> 0 .. MaxPings]
        /\ intervals \subseteq 1 .. test /\ test \in 0 .. MaxTests
        /\ mixed \in BOOLEAN
        /\ phase \in {"idle", "warmup", "running", "done"}
        /\ MaxTests \in Nat /\ MaxPings \in Nat
        /\ \A t \in Tests : pings[t] > 0 => t <= test
    BY JitterTestAssumption DEF JitterTypeOK
  <1>b. 1 .. test \subseteq Tests
    BY <1>a DEF Tests
  <1>1. CASE Start
    <2>1. /\ phase \in {"idle", "done"} /\ phase' = "warmup" /\ test' = test + 1
          /\ test < MaxTests
          /\ warming' = [warming EXCEPT ![test + 1] = 2]
          /\ UNCHANGED <<intervals, timerRef, pings, mixed>>
      BY <1>1 DEF Start, Startable
    <2>2. test + 1 \in Tests /\ test + 1 \notin intervals /\ ~(pings[test + 1] > 0)
      BY <1>a, <2>1 DEF Tests
    <2>3. /\ warming'[test + 1] = 2
          /\ \A t \in Tests \ {test + 1} : warming'[t] = warming[t]
      BY <1>a, <2>1, <2>2
    <2>4. \A t \in Tests : t \in intervals' \/ pings'[t] > 0 => warming'[t] = 0
      BY <2>1, <2>2, <2>3
    <2>5. ~mixed => \A t \in Tests : warming[t] = 0
      BY <1>a, <2>1
    <2> QED BY <2>1, <2>3, <2>4, <2>5
  <1>2. ASSUME NEW t \in Tests, Warmed(t) PROVE TimerInv'
    <2>1. /\ warming[t] > 0 /\ warming' = [warming EXCEPT ![t] = @ - 1]
          /\ UNCHANGED <<test, pings>>
      BY <1>2 DEF Warmed
    <2>2. /\ warming'[t] = warming[t] - 1
          /\ \A u \in Tests \ {t} : warming'[u] = warming[u]
          /\ warming[t] \in {1, 2}
      BY <1>a, <2>1
    <2>3. CASE warming[t] = 2
      <3>1. UNCHANGED <<phase, intervals, timerRef, mixed>>
        BY <1>2, <2>3 DEF Warmed
      <3>2. \A u \in Tests : /\ warming'[u] > 0 <=> warming[u] > 0
                             /\ warming'[u] = 0 <=> warming[u] = 0
        BY <2>2, <2>3
      <3> QED BY <2>1, <3>1, <3>2
    <2>4. CASE warming[t] = 1
      <3>1. /\ phase' = "running" /\ intervals' = intervals \cup {t}
            /\ timerRef' = t /\ mixed' = (mixed \/ t # test)
        BY <1>2, <2>4 DEF Warmed
      <3>2. warming'[t] = 0
        BY <2>2, <2>4
      <3>3. \A u \in Tests : u \in intervals' \/ pings'[u] > 0 => warming'[u] = 0
        BY <2>1, <2>2, <3>1, <3>2
      <3>4. ~mixed' => ~mixed /\ t = test
        BY <1>a, <3>1
      <3>5. ~mixed' => intervals = {} /\ \A u \in Tests : ~(warming'[u] > 0)
        BY <2>1, <2>2, <3>2, <3>4
      <3> QED BY <2>1, <3>1, <3>3, <3>4, <3>5
    <2> QED BY <2>2, <2>3, <2>4
  <1>3. ASSUME NEW t \in Tests, Fire(t) PROVE TimerInv'
    <2>1. /\ t \in intervals /\ pings' = [pings EXCEPT ![t] = @ + 1]
          /\ UNCHANGED <<phase, test, warming, intervals, timerRef, mixed>>
      BY <1>3 DEF Fire
    <2>2. \A u \in Tests \ {t} : pings'[u] = pings[u]
      BY <1>a, <2>1
    <2> QED BY <2>1, <2>2
  <1>4. ASSUME NEW t \in Tests, Measured(t) \/ Unmeasured(t) PROVE TimerInv'
    <2>1. /\ pings[t] > 0 /\ pings' = [pings EXCEPT ![t] = @ - 1]
          /\ UNCHANGED <<test, warming, timerRef>>
      BY <1>4 DEF Measured, Unmeasured, Taken
    <2>2. \A u \in Tests : pings'[u] > 0 => pings[u] > 0
      BY <1>a, <2>1
    <2>3. /\ \/ UNCHANGED <<phase, intervals>>
             \/ Measured(t) /\ phase' = "done" /\ intervals' = intervals \ {timerRef}
          /\ ~mixed' => ~mixed
          /\ Measured(t) /\ ~mixed' => t = test
      BY <1>4, <1>a DEF Measured, Unmeasured
    <2>4. \A u \in Tests : u \in intervals' \/ pings'[u] > 0 => warming'[u] = 0
      BY <2>1, <2>2, <2>3
    <2>5. CASE UNCHANGED <<phase, intervals>>
      BY <2>1, <2>3, <2>4, <2>5
    <2>6. CASE /\ Measured(t) /\ phase' = "done"
               /\ intervals' = intervals \ {timerRef}
      <3>1. warming[t] = 0
        BY <2>1
      <3>2. ~mixed' => phase # "warmup" /\ \A u \in Tests : ~(warming[u] > 0)
        BY <1>a, <2>3, <2>6, <3>1
      <3>3. ~mixed' => intervals' = {}
        BY <2>3, <2>6
      <3> QED BY <2>1, <2>4, <2>6, <3>2, <3>3
    <2> QED BY <2>3, <2>5, <2>6
  <1>5. CASE LeaveTest
    <2>1. /\ intervals' = intervals \ {timerRef}
          /\ UNCHANGED <<phase, test, warming, timerRef, pings, mixed>>
      BY <1>5 DEF LeaveTest
    <2> QED BY <2>1
  <1>6. CASE Tick \/ UNCHANGED jitterVars
    <2>1. UNCHANGED <<phase, test, warming, intervals, timerRef, pings, mixed>>
      BY <1>6 DEF Tick, jitterVars
    <2> QED BY <2>1
  <1> QED BY <1>1, <1>2, <1>3, <1>4, <1>5, <1>6 DEF JitterNext

(* A latency test that is over runs no timer, and the one under way is the *)
(* only one that measures, however often one starts again and whenever the *)
(* answers come (dashboard/frontend/src/pages/JitterTest.jsx), unless one  *)
(* of an earlier test was taken late.                                      *)
THEOREM NoTimerIsLeft == WebSpec => []NoTimerLeft
  <1>1. WebInit => TimerInv
    <2> SUFFICES ASSUME JitterInit PROVE TimerInv
      BY DEF WebInit
    <2>1. \A t \in Tests : warming[t] = 0
      BY DEF JitterInit
    <2> QED BY <2>1 DEF JitterInit, TimerInv, NoTimerLeft, OwnTimer
  <1>2. WebIInv /\ WebIInv' /\ TimerInv /\ [WebNext]_webVars => TimerInv'
    BY TimerSteps, PartSteps DEF WebIInv
  <1>3. TimerInv => NoTimerLeft
    BY DEF TimerInv
  <1> QED BY <1>1, <1>2, <1>3, WebInvariant, PTL DEF WebSpec
=============================================================================

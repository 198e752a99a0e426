----------------------------- MODULE WebSession -----------------------------
(***************************************************************************)
(* The session of one browser tab of the web dashboard                     *)
(* (dashboard/frontend/src: contexts/AuthContext.jsx, App.jsx,             *)
(* components/ProtectedRoute.jsx, the two sign-in pages and the sign-out   *)
(* of pages/Dashboard.jsx).                                                *)
(*                                                                         *)
(* Every request carries the token of the render that made it, and its     *)
(* answer acts on the session of the moment it arrives in.  The backend    *)
(* accepts a token until it expires; an answer may also be an error.  The  *)
(* dashboard asks again and again, the pages of the subscription           *)
(* (pages/Subscription.jsx, pages/SubscriptionSuccess.jsx) when they are   *)
(* opened and on clicks, the public pages without a token.                 *)
(***************************************************************************)
EXTENDS Naturals

CONSTANTS
  Tokens,       (* what the backend may issue                              *)
  Accounts,
  Owner,        (* whose token it is                                       *)
  NoToken

ASSUME WebSessionAssumption ==
  /\ Owner \in [Tokens -> Accounts]
  /\ NoToken \notin Tokens
  /\ "loading" \notin Accounts /\ "nobody" \notin Accounts

Forms == {"login", "register"}
Protected == {"dashboard", "subscription"}
Pages == Forms \cup Protected \cup {"public"}

VARIABLES
  user,         (* loading, nobody, or an account                          *)
  token,        (* AuthProvider's token                                    *)
  stored,       (* localStorage's aj_token                                 *)
  page,         (* the route                                               *)
  requests,     (* in flight                                               *)
  live,         (* external: tokens the backend accepts                    *)
  issued,       (* external: tokens it has given out                       *)
  crossed       (* history: since the last sign-in, sign-out or reload, an *)
                (* answer was taken by another session than the one that   *)
                (* asked                                                   *)

backend == <<live, issued>>
sessionVars == <<user, token, stored, page, requests, live, issued, crossed>>

Validation(t) == [kind |-> "me", token |-> t, fresh |-> t \in live]
Api(t) == [kind |-> "api", token |-> t]
SignIn(p) == [kind |-> "sign-in", page |-> p]

(* AuthProvider is mounted: the stored token, if any, is validated.        *)
Mounted(t) ==
  /\ token' = t
  /\ user' = IF t = NoToken THEN "nobody" ELSE "loading"
  /\ requests' = IF t = NoToken THEN {} ELSE {Validation(t)}

SessionInit ==
  /\ stored \in Tokens \cup {NoToken}
  /\ issued = {stored} \ {NoToken}
  /\ live \in {{}, issued}
  /\ token = stored
  /\ user = IF stored = NoToken THEN "nobody" ELSE "loading"
  /\ requests = IF stored = NoToken THEN {} ELSE {Validation(stored)}
  /\ page \in Pages
  /\ crossed = FALSE

-----------------------------------------------------------------------------
Logout == token' = NoToken /\ user' = "nobody" /\ stored' = NoToken

(* The answer of r is taken, for whichever session there is now.           *)
Take(r) ==
  /\ requests' = requests \ {r}
  /\ crossed' = (crossed \/ r.token # token)

Denied(r) == r.token \notin live

(* Wrong: every error ends the session.                                    *)
ValidatedStrictly(r) ==
  /\ r.kind = "me"
  /\ Take(r)
  /\ \/ /\ r.fresh
        /\ user' = Owner[r.token]
        /\ UNCHANGED <<token, stored>>
     \/ Logout
  /\ UNCHANGED <<page, backend>>

(* The validation answers: the account, a 401, or another error.           *)
Validated(r) ==
  /\ r.kind = "me"
  /\ Take(r)
  /\ \/ /\ r.fresh
        /\ user' = Owner[r.token]
        /\ UNCHANGED <<token, stored>>
     \/ Denied(r) /\ Logout
     \/ user' = "nobody" /\ UNCHANGED <<token, stored>>
  /\ UNCHANGED <<page, backend>>

(* SubmitBtn is disabled while an answer is awaited.                       *)
SubmitEnabled == SignIn(page) \notin requests

(* handleSubmit of Login and Register, for what passes Register's checks.  *)
Submit ==
  /\ page \in Forms
  /\ SubmitEnabled
  /\ requests' = requests \cup {SignIn(page)}
  /\ UNCHANGED <<user, token, stored, page, backend, crossed>>

(* Wrong: the token is stored for the next visit only.                     *)
SignedInLater(r, t) ==
  /\ r.kind = "sign-in"
  /\ requests' = requests \ {r}
  /\ t \notin issued
  /\ issued' = issued \cup {t} /\ live' = live \cup {t}
  /\ stored' = t /\ user' = Owner[t] /\ UNCHANGED token
  /\ page' = "dashboard"
  /\ crossed' = FALSE

(* login and register succeed; the page goes to the dashboard, wherever    *)
(* the user has gone meanwhile.                                            *)
SignedIn(r, t) ==
  /\ r.kind = "sign-in"
  /\ requests' = requests \ {r}
  /\ t \notin issued
  /\ issued' = issued \cup {t} /\ live' = live \cup {t}
  /\ stored' = t /\ token' = t /\ user' = Owner[t]
  /\ page' = "dashboard"
  /\ crossed' = FALSE

SignInFailed(r) ==
  /\ r.kind = "sign-in"
  /\ requests' = requests \ {r}
  /\ UNCHANGED <<user, token, stored, page, backend, crossed>>

-----------------------------------------------------------------------------
(* useApiFetch, on a page that is rendered.                                *)
Rendered == page \in Protected /\ user \in Accounts

Ask ==
  /\ Rendered
  /\ Api(token) \notin requests
  /\ requests' = requests \cup {Api(token)}
  /\ UNCHANGED <<user, token, stored, page, backend, crossed>>

(* Wrong: a 401 is an error like every other.                              *)
ExpiryIgnored(r) ==
  /\ r.kind = "api" /\ Denied(r)
  /\ Take(r)
  /\ UNCHANGED <<user, token, stored, page, backend>>

(* It signs out on a 401.                                                  *)
SessionExpired(r) ==
  /\ r.kind = "api" /\ Denied(r)
  /\ Take(r)
  /\ Logout
  /\ UNCHANGED <<page, backend>>

Answered(r) ==
  /\ r.kind = "api"
  /\ requests' = requests \ {r}
  /\ UNCHANGED <<user, token, stored, page, backend, crossed>>

-----------------------------------------------------------------------------
(* ProtectedRoute.                                                         *)
Redirect ==
  /\ page \in Protected /\ user = "nobody"
  /\ page' = "login"
  /\ UNCHANGED <<user, token, stored, requests, backend, crossed>>

(* The links of the pages, and the address bar's history.                  *)
Navigate(p) ==
  /\ p # page
  /\ page' = p
  /\ UNCHANGED <<user, token, stored, requests, backend, crossed>>

(* Sign out, a button of the dashboard's header.                           *)
HandleLogout == Logout /\ page' = "login" /\ crossed' = FALSE

SignOut ==
  /\ page = "dashboard" /\ user \in Accounts
  /\ HandleLogout
  /\ UNCHANGED <<requests, backend>>

(* The tab is reloaded: what was in flight is dropped.                     *)
Reload ==
  /\ Mounted(stored)
  /\ crossed' = FALSE
  /\ UNCHANGED <<stored, page, backend>>

Expire(t) ==
  /\ t \in live
  /\ live' = live \ {t}
  /\ UNCHANGED <<user, token, stored, page, requests, issued, crossed>>

-----------------------------------------------------------------------------
SessionNext ==
  \/ \E r \in requests : \/ Validated(r) \/ SignInFailed(r)
                         \/ \E t \in Tokens : SignedIn(r, t)
                         \/ SessionExpired(r) \/ Answered(r)
  \/ Submit \/ Ask \/ Redirect \/ SignOut \/ Reload
  \/ \E p \in Pages : Navigate(p)
  \/ \E t \in Tokens : Expire(t)

(* Pages are rendered, the dashboard asks again and again, and not every   *)
(* answer is lost.                                                         *)
SessionFair1 == Redirect
SessionFair2 == Ask /\ page = "dashboard"
SessionFair3 == \E r \in requests : SessionExpired(r)
SessionFair4 == \E r \in requests : Validated(r)

SessionSpec ==
  /\ SessionInit /\ [][SessionNext]_sessionVars
  /\ SF_sessionVars(SessionFair1) /\ WF_sessionVars(SessionFair2)
  /\ SF_sessionVars(SessionFair3) /\ WF_sessionVars(SessionFair4)

-----------------------------------------------------------------------------
(***************************************************************************)
(* Properties.                                                             *)
(***************************************************************************)
Requests ==
  [kind : {"me"}, token : Tokens, fresh : BOOLEAN]
  \cup [kind : {"api"}, token : Tokens \cup {NoToken}]
  \cup [kind : {"sign-in"}, page : Forms]

SessionTypeOK ==
  /\ user \in {"loading", "nobody"} \cup Accounts
  /\ token \in Tokens \cup {NoToken} /\ stored \in Tokens \cup {NoToken}
  /\ page \in Pages /\ requests \subseteq Requests
  /\ live \subseteq issued /\ issued \subseteq Tokens
  /\ crossed \in BOOLEAN
  /\ \A r \in requests : r.kind = "me" => r.token \in issued
  /\ token # NoToken => token \in issued

(* The account the pages speak of is the owner of the token they send, and *)
(* a reload keeps it: unless an answer was taken by another session than   *)
(* the one that asked for it.                                              *)
SignedInIsSelf ==
  user \in Accounts /\ ~crossed =>
    token \in Tokens /\ user = Owner[token] /\ stored = token

(* What it rests on: the stored token is always the one in use.            *)
SessionIInv == SessionTypeOK /\ SignedInIsSelf /\ stored = token

(* With the same exception, a token the backend still accepts is given up  *)
(* only by signing out: no error, timeout or late answer ends the session. *)
LiveSessionStays ==
  [][(token \in live /\ token' = NoToken) => (crossed' \/ SignOut)]_sessionVars

(* A dashboard whose token has expired does not stay: it asks until it is  *)
(* told, and goes to the sign-in page.  (The subscription's pages stay: no *)
(* timer of theirs asks.)                                                  *)
ExpiredLeaves ==
  page = "dashboard" /\ token \notin live
    ~> page # "dashboard" \/ token \in live
=============================================================================

------------------------------- MODULE WinUI -------------------------------
(***************************************************************************)
(* The window of the Windows client (client/frontend/src: App.jsx,         *)
(* Login.jsx, Dashboard.jsx) over the app controller it calls              *)
(* (client/app.go), of which this module keeps what the window is told;    *)
(* WinApp models what the controller does to the host.                     *)
(*                                                                         *)
(* Wails (external) runs every call of the window on a goroutine of its    *)
(* own, so that two calls may be served in either order, and hands replies *)
(* and events to the window one by one, in the order they were emitted.    *)
(* Signal TRUE of state-changed and replies that change nothing in the     *)
(* window are not put into that queue.                                     *)
(***************************************************************************)
EXTENDS Integers, Sequences

CONSTANTS
  Regions,        (* ids of server regions                                 *)
  DefaultRegion,  (* germany, which EMPTY_STATUS and NewApp start with     *)
  SavedRegion,    (* what loadSelectedRegion finds                         *)
  MaxAttempts,    (* 50: attempts to find the Wails runtime                *)
  Choosable,      (* bound: the settings the user changes                  *)
  MaxClicks       (* bound: what the user does                             *)

ASSUME WinUIAssumption ==
  /\ DefaultRegion \in Regions /\ SavedRegion \in Regions
  /\ MaxAttempts \in Nat /\ MaxClicks \in Nat
  /\ Choosable \subseteq {"mode", "region", "routeAll"}

Modes == {"normal", "gaming"}
Settings == {"mode", "region", "routeAll"}
Switch == {"on", "off"}
Values(f) == CASE f = "mode" -> Modes
               [] f = "region" -> Regions
               [] OTHER -> Switch
SomeValue == Modes \cup Regions \cup Switch

Status == [active : BOOLEAN, mode : Modes, region : Regions, routeAll : Switch]

EmptyStatus ==
  [active |-> FALSE, mode |-> "normal", region |-> DefaultRegion,
   routeAll |-> "on"]

VARIABLES
  ready,        (* external: window.go is there                            *)
  attempts,     (* of App's check                                          *)
  screen,       (* loading, login or dashboard                             *)
  signingIn,    (* Login's loading                                         *)
  mount,        (* how many dashboards were mounted                        *)
  shown,        (* Dashboard's status                                      *)
  connecting,   (* Dashboard's connecting                                  *)
  toggling,     (* Dashboard's toggling                                    *)
  clicks,       (* how often the user did something                        *)
  calls,        (* calls of the window the app has not answered            *)
  token,        (* App.token is not empty                                  *)
  app,          (* what buildStatus reads: active and the settings         *)
  toggleMu,     (* App.toggleMu is held                                    *)
  built,        (* reports built under the lock and not yet emitted        *)
  queue,        (* events and replies on their way to the window           *)
  late          (* history: a report of a connection was emitted after its *)
                (* end had been, and no end has been emitted since         *)

window == <<ready, attempts, screen, signingIn, mount, shown, connecting,
            toggling, clicks>>
goApp == <<token, app, toggleMu, late>>
vars == <<window, calls, goApp, built, queue>>

Init ==
  /\ ready = FALSE /\ attempts = 0
  /\ screen = "loading" /\ signingIn = FALSE /\ mount = 0
  /\ shown = EmptyStatus /\ connecting = FALSE /\ toggling = FALSE
  /\ clicks = 0
  /\ calls = {}
  /\ token \in BOOLEAN
  /\ app = [EmptyStatus EXCEPT !.region = SavedRegion]
  /\ toggleMu = FALSE /\ late = FALSE
  /\ built = {} /\ queue = <<>>

-----------------------------------------------------------------------------
(* Calls, reports and what else the window is told.                        *)
Call(kind) == [kind |-> kind, phase |-> "called", mount |-> mount]

(* The calls of a dashboard that can be made again before they are served  *)
(* are told apart.                                                         *)
LogoutCall ==
  [kind |-> "Logout", phase |-> "called", mount |-> mount, id |-> clicks]

ChoiceCall(f, v) ==
  [kind |-> "Set", phase |-> "called", mount |-> mount, id |-> clicks, field |-> f, value |-> v, previous |-> shown[f]]

Report(ev, m, s) == [ev |-> ev, mount |-> m, status |-> s]
Reports == {"status", "GetStatus", "RefreshServerRegions"}

Signal(ev) == [ev |-> ev]
Reply(ev, c) == [ev |-> ev, mount |-> c.mount]
Undo(c) ==
  [ev |-> "undo", mount |-> c.mount, field |-> c.field, value |-> c.previous]

Busy == toggling \/ connecting

(* The settings can be changed neither then nor while a connection is up.  *)
Locked == shown.active \/ Busy

(* Nothing moves on a dashboard that is not there.                         *)
OnDashboard == screen = "dashboard"

-----------------------------------------------------------------------------
(* App: the first screen.                                                  *)
RuntimeStarts == /\ ~ready /\ ready' = TRUE
                 /\ UNCHANGED <<attempts, screen, signingIn, mount, shown,
                                connecting, toggling, clicks, calls, goApp,
                                built, queue>>

(* callGo rejects; the error is shown above the sign-in form.  The count   *)
(* is the check's own and forgotten with it.                               *)
CheckFails ==
  /\ screen = "loading" /\ ~ready
  /\ IF attempts < MaxAttempts
     THEN attempts' = attempts + 1 /\ UNCHANGED screen
     ELSE attempts' = 0 /\ screen' = "login"
  /\ UNCHANGED <<ready, signingIn, mount, shown, connecting, toggling, clicks,
                 calls, goApp, built, queue>>

(* Dashboard is mounted: a fresh state, its handlers in the place of those *)
(* of the one before, and the two calls of its effect.  GetStatus waits    *)
(* for nothing but the lock: it is served when it is made.                 *)
Mount ==
  /\ screen' = "dashboard"
  /\ mount' = mount + 1
  /\ calls' = calls \cup {[Call("RefreshServerRegions") EXCEPT !.mount = mount']}
  /\ built' = built \cup {Report("GetStatus", mount', app)}

(* It is unmounted: its state is gone and its handlers are removed.        *)
Unmount ==
  /\ screen' = "login"
  /\ shown' = EmptyStatus
  /\ connecting' = FALSE
  /\ toggling' = FALSE

(* IsLoggedIn answers.                                                     *)
CheckAnswers ==
  /\ screen = "loading" /\ ready
  /\ IF token THEN Mount
              ELSE screen' = "login" /\ UNCHANGED <<mount, calls, built>>
  /\ attempts' = 0
  /\ UNCHANGED <<ready, signingIn, shown, connecting, toggling, clicks,
                 goApp, queue>>

-----------------------------------------------------------------------------
(* What the user does.                                                     *)
Click == clicks < MaxClicks /\ clicks' = clicks + 1

(* handleSubmit of Login; without a runtime it fails at once.              *)
SubmitLogin ==
  /\ Click
  /\ screen = "login" /\ ~signingIn
  /\ signingIn' = ready
  /\ calls' = IF ready THEN calls \cup {Call("Login")} ELSE calls
  /\ UNCHANGED <<ready, attempts, screen, mount, shown, connecting, toggling,
                 goApp, built, queue>>

(* logout: its button is never disabled.                                   *)
ClickLogout ==
  /\ Click
  /\ OnDashboard
  /\ calls' = calls \cup {LogoutCall}
  /\ UNCHANGED <<ready, attempts, screen, signingIn, mount, shown, connecting,
                 toggling, goApp, built, queue>>

ClickToggle ==
  /\ Click
  /\ OnDashboard /\ ~Busy
  /\ toggling' = TRUE
  /\ calls' = calls \cup {Call("Toggle")}
  /\ UNCHANGED <<ready, attempts, screen, signingIn, mount, shown, connecting,
                 goApp, built, queue>>

(* setMode, setServerRegion, setRouteAll: shown at once, and undone when   *)
(* refused.  Choosing what is chosen already is left out.                  *)
Choose(f, v) ==
  /\ Click
  /\ OnDashboard /\ ~Locked
  /\ v # shown[f]
  /\ shown' = [shown EXCEPT ![f] = v]
  /\ calls' = calls \cup {ChoiceCall(f, v)}
  /\ UNCHANGED <<ready, attempts, screen, signingIn, mount, connecting,
                 toggling, goApp, built, queue>>

-----------------------------------------------------------------------------
(* The app serves the calls.                                               *)
Answer(c, msgs) == calls' = calls \ {c} /\ queue' = queue \o msgs
Advance(c, phase) == calls' = (calls \ {c}) \cup {[c EXCEPT !.phase = phase]}

ServeLogin(c) ==
  /\ c.kind = "Login"
  /\ \/ token' = TRUE /\ Answer(c, <<Reply("welcome", c)>>)
     \/ UNCHANGED token /\ Answer(c, <<Reply("denied", c)>>)
  /\ UNCHANGED <<window, app, toggleMu, late, built>>

(* stopGameMode: what the app holds is taken over in one lock, ...         *)
BeginStop(c) ==
  /\ app' = [app EXCEPT !.active = FALSE]
  /\ Advance(c, "stopping")

(* ... taken down outside of it, and the window told.                      *)
StopLogout(c) ==
  /\ c.kind = "Logout" /\ c.phase = "called"
  /\ BeginStop(c)
  /\ UNCHANGED <<window, token, toggleMu, late, built, queue>>

EndLogout(c) ==
  /\ c.kind = "Logout" /\ c.phase = "stopping"
  /\ token' = FALSE /\ late' = FALSE
  /\ Answer(c, <<Signal("ended"), Reply("bye", c)>>)
  /\ UNCHANGED <<window, app, toggleMu, built>>

(* Toggle: TryLock, and whether to start or to stop.                       *)
RefuseToggle(c) ==
  /\ c.kind = "Toggle" /\ c.phase = "called"
  /\ toggleMu \/ (~app.active /\ ~token)
  /\ Answer(c, <<Reply("toggled", c)>>)
  /\ UNCHANGED <<window, goApp, built>>

StopToggle(c) ==
  /\ c.kind = "Toggle" /\ c.phase = "called"
  /\ ~toggleMu /\ app.active
  /\ toggleMu' = TRUE
  /\ BeginStop(c)
  /\ UNCHANGED <<window, token, late, built, queue>>

EndToggle(c) ==
  /\ c.kind = "Toggle" /\ c.phase = "stopping"
  /\ toggleMu' = FALSE /\ late' = FALSE
  /\ Answer(c, <<Signal("ended"), Reply("toggled", c)>>)
  /\ UNCHANGED <<window, token, app, built>>

StartToggle(c) ==
  /\ c.kind = "Toggle" /\ c.phase = "called"
  /\ ~toggleMu /\ ~app.active /\ token
  /\ toggleMu' = TRUE
  /\ Advance(c, "starting")
  /\ queue' = Append(queue, Signal("connecting"))
  /\ UNCHANGED <<window, token, app, late, built>>

(* FetchConfig brings the regions; a selected one that is gone is replaced.*)
Selected == {app.region, DefaultRegion}

(* Wrong: an early return that does not say that connecting is over.       *)
StartFailsSilently(c) ==
  /\ c.kind = "Toggle" /\ c.phase = "starting"
  /\ toggleMu' = FALSE
  /\ \E r \in Selected : app' = [app EXCEPT !.region = r]
  /\ Answer(c, <<Reply("toggled", c)>>)
  /\ UNCHANGED <<window, token, late, built>>

(* Every early return of startGameMode after the first, before the config  *)
(* has come or after.                                                      *)
StartFails(c) ==
  /\ c.kind = "Toggle" /\ c.phase = "starting"
  /\ toggleMu' = FALSE
  /\ \E r \in Selected : app' = [app EXCEPT !.region = r]
  /\ Answer(c, <<Signal("settled"), Reply("toggled", c)>>)
  /\ UNCHANGED <<window, token, late, built>>

StartSucceeds(c) ==
  /\ c.kind = "Toggle" /\ c.phase = "starting"
  /\ toggleMu' = FALSE
  /\ \E r \in Selected : app' = [app EXCEPT !.active = TRUE, !.region = r]
  /\ Answer(c, <<Signal("settled"), Reply("toggled", c)>>)
  /\ UNCHANGED <<window, token, late, built>>

(* SetMode, SetServerRegion, SetDevRouteAll: refused while a tunnel is up; *)
(* a region may be unknown by now.                                         *)
ServeChoice(c) ==
  /\ c.kind = "Set"
  /\ \/ /\ ~app.active
        /\ app' = [app EXCEPT ![c.field] = c.value]
        /\ Answer(c, <<>>)
     \/ /\ app.active \/ c.field = "region"
        /\ Answer(c, <<Undo(c)>>)
        /\ UNCHANGED app
  /\ UNCHANGED <<window, token, toggleMu, late, built>>

(* RefreshServerRegions: signed out it reports at once, otherwise the      *)
(* answer of the API may change the selection, or fail.                    *)
ServeRefresh(c) ==
  /\ c.kind = "RefreshServerRegions"
  /\ calls' = calls \ {c}
  /\ \/ token /\ UNCHANGED <<app, built>>
     \/ /\ \E r \in {app.region} \cup (IF token THEN {DefaultRegion} ELSE {}) :
             app' = [app EXCEPT !.region = r]
        /\ built' = built \cup {Report("RefreshServerRegions", c.mount, app')}
  /\ UNCHANGED <<window, token, toggleMu, late, queue>>

Serve(c) ==
  \/ ServeLogin(c) \/ StopLogout(c) \/ EndLogout(c)
  \/ RefuseToggle(c) \/ StopToggle(c) \/ EndToggle(c)
  \/ StartToggle(c) \/ StartFails(c) \/ StartSucceeds(c)
  \/ ServeChoice(c) \/ ServeRefresh(c)

-----------------------------------------------------------------------------
(* emitStats, once a second while a connection is up.  Bound: the window   *)
(* has handled what was emitted before.                                    *)
Tick ==
  /\ app.active
  /\ built = {} /\ queue = <<>>
  /\ built' = built \cup {Report("status", 0, app)}
  /\ UNCHANGED <<window, calls, goApp, queue>>

Stopping == \E c \in calls : c.phase = "stopping"

(* What was built is emitted, outside the lock.                            *)
Emit(ev) ==
  /\ \E m \in built :
       /\ m.ev = ev
       /\ built' = built \ {m}
       /\ queue' = Append(queue, m)
       /\ late' = (late \/ (m.status.active /\ ~app.active /\ ~Stopping))
  /\ UNCHANGED <<window, calls, token, app, toggleMu>>

-----------------------------------------------------------------------------
(* The window handles what it is told.                                     *)
Told(ev) == queue # <<>> /\ Head(queue).ev = ev /\ queue' = Tail(queue)

(* What is for a dashboard that is no longer there changes nothing; events *)
(* are for whichever is there.                                             *)
ForMe == OnDashboard /\ Head(queue).mount = mount

(* Wrong: status events do not replace what is shown.                      *)
OnStatusOnce ==
  /\ Told("status")
  /\ shown' = IF OnDashboard THEN [shown EXCEPT !.active = TRUE] ELSE shown
  /\ UNCHANGED <<ready, attempts, screen, signingIn, mount, connecting,
                 toggling, clicks, calls, goApp, built>>

OnStatus ==
  /\ Told("status")
  /\ shown' = IF OnDashboard THEN Head(queue).status ELSE shown
  /\ UNCHANGED <<ready, attempts, screen, signingIn, mount, connecting,
                 toggling, clicks, calls, goApp, built>>

(* The replies of GetStatus and RefreshServerRegions.                      *)
OnReport ==
  /\ Told("GetStatus") \/ Told("RefreshServerRegions")
  /\ shown' = IF ForMe THEN Head(queue).status ELSE shown
  /\ UNCHANGED <<ready, attempts, screen, signingIn, mount, connecting,
                 toggling, clicks, calls, goApp, built>>

OnConnecting ==
  /\ Told("connecting") \/ Told("settled")
  /\ connecting' = (OnDashboard /\ Head(queue).ev = "connecting")
  /\ UNCHANGED <<ready, attempts, screen, signingIn, mount, shown, toggling,
                 clicks, calls, goApp, built>>

(* Wrong: the end of a connection leaves the status alone.                 *)
OnEndedIgnored ==
  /\ Told("ended")
  /\ UNCHANGED <<window, calls, goApp, built>>

(* state-changed: the settings stay, the rest is emptied.                  *)
OnEnded ==
  /\ Told("ended")
  /\ shown' = [shown EXCEPT !.active = FALSE]
  /\ UNCHANGED <<ready, attempts, screen, signingIn, mount, connecting,
                 toggling, clicks, calls, goApp, built>>

OnToggled ==
  /\ Told("toggled")
  /\ toggling' = (toggling /\ ~ForMe)
  /\ UNCHANGED <<ready, attempts, screen, signingIn, mount, shown, connecting,
                 clicks, calls, goApp, built>>

OnUndo ==
  /\ Told("undo")
  /\ shown' = IF ForMe THEN [shown EXCEPT ![Head(queue).field] = Head(queue).value]
                       ELSE shown
  /\ UNCHANGED <<ready, attempts, screen, signingIn, mount, connecting,
                 toggling, clicks, calls, goApp, built>>

(* onSuccess and onLogout are App's: they work whichever screen is up.     *)
OnWelcome ==
  /\ Told("welcome")
  /\ signingIn' = FALSE
  /\ Mount
  /\ UNCHANGED <<ready, attempts, shown, connecting, toggling, clicks, goApp>>

OnDenied ==
  /\ Told("denied")
  /\ signingIn' = FALSE
  /\ UNCHANGED <<ready, attempts, screen, mount, shown, connecting, toggling,
                 clicks, calls, goApp, built>>

(* Wrong: only the dashboard that asked goes away.                         *)
OnByeForMe ==
  /\ Told("bye")
  /\ IF ForMe THEN Unmount ELSE UNCHANGED <<screen, shown, connecting, toggling>>
  /\ UNCHANGED <<ready, attempts, signingIn, mount, clicks, calls, goApp, built>>

OnBye ==
  /\ Told("bye")
  /\ Unmount
  /\ UNCHANGED <<ready, attempts, signingIn, mount, clicks, calls, goApp, built>>

Deliver ==
  \/ OnStatus \/ OnReport \/ OnConnecting \/ OnEnded \/ OnToggled
  \/ OnUndo \/ OnWelcome \/ OnDenied \/ OnBye

-----------------------------------------------------------------------------
Next ==
  \/ RuntimeStarts \/ CheckFails \/ CheckAnswers
  \/ SubmitLogin \/ ClickLogout \/ ClickToggle
  \/ \E f \in Choosable : \E v \in Values(f) : Choose(f, v)
  \/ \E c \in calls : Serve(c)
  \/ Tick
  \/ \E ev \in Reports : Emit(ev)
  \/ Deliver

(* The app serves its calls and its ticker runs; the window's thread takes *)
(* what is emitted.  The user owes nothing.                                *)
Fairness ==
  /\ WF_vars(\E c \in calls : Serve(c))
  /\ WF_vars(Tick)
  /\ \A ev \in Reports : WF_vars(Emit(ev))
  /\ WF_vars(Deliver)
  /\ WF_vars(CheckAnswers \/ CheckFails)

Spec == Init /\ [][Next]_vars /\ Fairness

-----------------------------------------------------------------------------
(***************************************************************************)
(* Properties.                                                             *)
(***************************************************************************)
Calls ==
  [kind : {"Login", "RefreshServerRegions"}, phase : {"called"}, mount : Nat]
  \cup [kind : {"Toggle"}, phase : {"called", "starting", "stopping"}, mount : Nat]
  \cup [kind : {"Logout"}, phase : {"called", "stopping"}, mount : Nat, id : Nat]
  \cup {c \in [kind : {"Set"}, phase : {"called"}, mount : Nat, id : Nat,
                field : Settings, value : SomeValue,
                previous : SomeValue] :
          c.value \in Values(c.field) /\ c.previous \in Values(c.field)}

Messages ==
  [ev : Reports, mount : Nat, status : Status]
  \cup [ev : {"connecting", "settled", "ended"}]
  \cup [ev : {"toggled", "welcome", "denied", "bye"}, mount : Nat]
  \cup {m \in [ev : {"undo"}, mount : Nat, field : Settings,
                value : SomeValue] :
          m.value \in Values(m.field)}

TypeOK ==
  /\ ready \in BOOLEAN /\ attempts \in 0 .. MaxAttempts
  /\ screen \in {"loading", "login", "dashboard"} /\ signingIn \in BOOLEAN
  /\ mount \in Nat /\ clicks \in 0 .. MaxClicks
  /\ shown \in Status /\ connecting \in BOOLEAN /\ toggling \in BOOLEAN
  /\ calls \subseteq Calls
  /\ token \in BOOLEAN /\ app \in Status /\ toggleMu \in BOOLEAN
  /\ late \in BOOLEAN
  /\ built \subseteq [ev : Reports, mount : Nat, status : Status]
  /\ queue \in Seq(Messages)

(* A connection that is over is not shown for long: the event that says so *)
(* is still to come, unless a report built before the end was overtaken by *)
(* it (emitStats and the two replies are emitted outside the lock).        *)
EndOnItsWay ==
  Stopping \/ \E i \in DOMAIN queue : queue[i].ev = "ended"

NoGoneConnectionShown == shown.active /\ ~app.active => EndOnItsWay \/ late

(* The dashboard is up only for somebody signed in, or until a Logout that *)
(* has been asked for is answered: also when it was asked for twice and a  *)
(* sign-in came in between.                                                *)
LogoutOnItsWay ==
  \/ \E c \in calls : c.kind = "Logout"
  \/ \E i \in DOMAIN queue : queue[i].ev = "bye"

DashboardMeansSignedIn == OnDashboard => token \/ LogoutOnItsWay

(* The inductive invariant behind the two: what follows a report of a      *)
(* connection, and a reply to a sign-in, in the queue.                     *)
EndFollows(i) == \E j \in DOMAIN queue : j > i /\ queue[j].ev = "ended"

ByeFollows(i) ==
  \/ \E c \in calls : c.kind = "Logout"
  \/ \E j \in DOMAIN queue : j > i /\ queue[j].ev = "bye"

ReportsInv ==
  ~app.active /\ ~Stopping /\ ~late =>
    /\ shown.active => EndFollows(0)
    /\ \A i \in DOMAIN queue :
         queue[i].ev \in Reports /\ queue[i].status.active => EndFollows(i)

WelcomeInv ==
  ~token => \A i \in DOMAIN queue : queue[i].ev = "welcome" => ByeFollows(i)

IInv == TypeOK /\ ReportsInv /\ WelcomeInv /\ DashboardMeansSignedIn

(* While a connection stays up, the dashboard comes to show it and the     *)
(* settings it runs with, whatever replies and events were crossed: a      *)
(* region replaced by FetchConfig, a choice refused late, a stale reply.   *)
DashboardCatchesUp ==
  <>[](OnDashboard /\ app.active) => <>[](shown = app)

(* The power button does not stay disabled: every start and stop that      *)
(* begins ends, and says so to the dashboard that waits for it.            *)
BusyEnds == Busy ~> ~Busy

-----------------------------------------------------------------------------
(***************************************************************************)
(* The safe half of BusyEnds, and the invariant it needs.                  *)
(***************************************************************************)
Starting == \E c \in calls : c.phase = "starting"

(* The power button is disabled only while what will enable it again is on *)
(* its way: the answer of a Toggle of this very dashboard, and the event   *)
(* that the attempt is over.  A sign-out and a sign-in between the click   *)
(* and the answer leave no dashboard behind that waits for another's.      *)
ToggledOnItsWay ==
  \/ \E c \in calls : c.kind = "Toggle" /\ c.mount = mount
  \/ \E i \in DOMAIN queue : queue[i].ev = "toggled" /\ queue[i].mount = mount

SettledFollows(i) ==
  Starting \/ \E j \in DOMAIN queue : j > i /\ queue[j].ev = "settled"

ButtonComesBack ==
  /\ toggling => ToggledOnItsWay
  /\ connecting => SettledFollows(0)

(* toggleMu is held by the one Toggle that is at work; nothing is up while *)
(* it starts.                                                              *)
AtWork(c) == c.kind = "Toggle" /\ c.phase \in {"starting", "stopping"}

MuInv ==
  /\ toggleMu <=> \E c \in calls : AtWork(c)
  /\ \A c, d \in calls : AtWork(c) /\ AtWork(d) => c = d
  /\ Starting => ~app.active

(* One sign-in is under way at most, and the sign-in form waits for it: no *)
(* dashboard is replaced by a new one.                                     *)
SignInAnswers == {i \in DOMAIN queue : queue[i].ev \in {"welcome", "denied"}}

LoginInv ==
  /\ signingIn => screen = "login"
  /\ ~signingIn => SignInAnswers = {} /\ \A c \in calls : c.kind # "Login"
  /\ \A c \in calls : c.kind = "Login" => SignInAnswers = {}
  /\ \A c, d \in calls : c.kind = "Login" /\ d.kind = "Login" => c = d
  /\ \A i, j \in SignInAnswers : i = j

ConnectingInv ==
  \A i \in DOMAIN queue : queue[i].ev = "connecting" => SettledFollows(i)

ButtonInv ==
  /\ MuInv
  /\ LoginInv
  /\ ConnectingInv
  /\ toggling => OnDashboard
  /\ ButtonComesBack

(* The window's view of the app is the life of one connection, as it is    *)
(* for the controller (WinApp).                                            *)
Life == INSTANCE AppLife WITH
          starting <- Starting,
          active   <- app.active,
          stopping <- Stopping

IsAppLife == Life!Spec
=============================================================================

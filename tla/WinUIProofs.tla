---------------------------- MODULE WinUIProofs ----------------------------
(***************************************************************************)
(* What the window shows of a connection that is over, and of a user who   *)
(* is signed out, is on its way to be corrected: however many clicks and   *)
(* regions there are.                                                      *)
(***************************************************************************)
EXTENDS WinUI, TLAPS

(* What is emitted comes after what was; nothing else moves.               *)
LEMMA AfterAppend ==
  ASSUME NEW q \in Seq(Messages), NEW msgs \in Seq(Messages)
  PROVE  /\ q \o msgs \in Seq(Messages)
         /\ \A i \in DOMAIN q : i \in DOMAIN (q \o msgs) /\ (q \o msgs)[i] = q[i]
         /\ \A i \in DOMAIN msgs : /\ Len(q) + i \in DOMAIN (q \o msgs)
                                   /\ (q \o msgs)[Len(q) + i] = msgs[i]
         /\ \A i \in DOMAIN (q \o msgs) :
              \/ i \in DOMAIN q
              \/ /\ i - Len(q) \in DOMAIN msgs
                 /\ (q \o msgs)[i] = msgs[i - Len(q)]
  OBVIOUS

(* What is handled was first; everything else moves up by one.             *)
LEMMA AfterTail ==
  ASSUME NEW q \in Seq(Messages), q # <<>>
  PROVE  /\ Tail(q) \in Seq(Messages) /\ Head(q) \in Messages
         /\ 1 \in DOMAIN q /\ Head(q) = q[1]
         /\ \A i \in DOMAIN Tail(q) : i + 1 \in DOMAIN q /\ Tail(q)[i] = q[i + 1]
         /\ \A j \in DOMAIN q : j > 1 => /\ j - 1 \in DOMAIN Tail(q)
                                         /\ Tail(q)[j - 1] = q[j]
         /\ \A i \in DOMAIN q : i \in Nat /\ i >= 1
  OBVIOUS

(* One or two messages make a sequence of messages.                        *)
LEMMA ShortAnswers ==
  /\ <<>> \in Seq(Messages)
  /\ \A m \in Messages : <<m>> \in Seq(Messages)
  /\ \A m, n \in Messages : <<m, n>> \in Seq(Messages)
  OBVIOUS

(* Serving a call keeps the order of reports: what it says is no report,   *)
(* and when it was the last stop it says that the connection has ended.    *)
LEMMA ReportsKept ==
  ASSUME TypeOK, ReportsInv, NEW msgs \in Seq(Messages),
         queue' = queue \o msgs,
         \A k \in DOMAIN msgs : msgs[k].ev \notin Reports,
         shown'.active => shown.active,
         \/ app'.active \/ Stopping' \/ late'
         \/ ~app.active /\ ~Stopping /\ ~late
         \/ \E k \in DOMAIN msgs : msgs[k].ev = "ended"
  PROVE  ReportsInv'
  <1> SUFFICES ASSUME ~app'.active, ~Stopping', ~late'
               PROVE  /\ shown'.active => EndFollows(0)'
                      /\ \A i \in DOMAIN queue' :
                           queue'[i].ev \in Reports /\ queue'[i].status.active
                             => EndFollows(i)'
    BY DEF ReportsInv
  <1>1. /\ \A i \in DOMAIN queue : i \in DOMAIN queue' /\ queue'[i] = queue[i]
        /\ \A i \in DOMAIN msgs : /\ Len(queue) + i \in DOMAIN queue'
                                  /\ queue'[Len(queue) + i] = msgs[i]
        /\ \A i \in DOMAIN queue' : \/ i \in DOMAIN queue
                                    \/ /\ i - Len(queue) \in DOMAIN msgs
                                       /\ queue'[i] = msgs[i - Len(queue)]
    BY AfterAppend DEF TypeOK
  <1>2. \A i \in DOMAIN queue : i \in Nat /\ i <= Len(queue)
    BY DEF TypeOK
  <1>3. \A i \in DOMAIN msgs : i \in Nat /\ i >= 1
    OBVIOUS
  <1>4. Len(queue) \in Nat
    BY DEF TypeOK
  <1>5. CASE \E k \in DOMAIN msgs : msgs[k].ev = "ended"
    <2> PICK k \in DOMAIN msgs : msgs[k].ev = "ended"
      BY <1>5
    <2>a. /\ Len(queue) + k \in DOMAIN queue'
          /\ queue'[Len(queue) + k].ev = "ended"
          /\ \A i \in DOMAIN queue \cup {0} : Len(queue) + k > i
      BY <1>1, <1>2, <1>3, <1>4
    <2>1. \A i \in DOMAIN queue \cup {0} : EndFollows(i)'
      BY <2>a DEF EndFollows
    <2> QED BY <1>1, <2>1
  <1>6. CASE ~app.active /\ ~Stopping /\ ~late
    <2>1. \A i \in DOMAIN queue \cup {0} : EndFollows(i) => EndFollows(i)'
      BY <1>1 DEF EndFollows
    <2>2. shown'.active => EndFollows(0)'
      BY <1>6, <2>1 DEF ReportsInv
    <2>3. ASSUME NEW i \in DOMAIN queue', queue'[i].ev \in Reports,
                 queue'[i].status.active
          PROVE  EndFollows(i)'
      <3>1. i \in DOMAIN queue /\ queue'[i] = queue[i]
        BY <1>1, <2>3
      <3>2. EndFollows(i)
        BY <1>6, <2>3, <3>1 DEF ReportsInv
      <3> QED BY <2>1, <3>1, <3>2
    <2> QED BY <2>2, <2>3
  <1> QED BY <1>5, <1>6

(* Serving a call keeps what follows a sign-in.                            *)
LEMMA WelcomeKept ==
  ASSUME TypeOK, WelcomeInv, DashboardMeansSignedIn,
         NEW msgs \in Seq(Messages), queue' = queue \o msgs,
         screen' = screen,
         \/ token'
         \/ /\ ~token
            /\ \A k \in DOMAIN msgs : msgs[k].ev # "welcome"
            /\ \A c \in calls : c.kind = "Logout" =>
                 \E d \in calls' : d.kind = "Logout"
         \/ /\ \A k \in DOMAIN msgs : msgs[k].ev # "welcome"
            /\ \E k \in DOMAIN msgs : msgs[k].ev = "bye"
  PROVE  WelcomeInv' /\ DashboardMeansSignedIn'
  <1> SUFFICES ASSUME ~token'
               PROVE  /\ \A i \in DOMAIN queue' :
                           queue'[i].ev = "welcome" => ByeFollows(i)'
                      /\ OnDashboard' => LogoutOnItsWay'
    BY DEF WelcomeInv, DashboardMeansSignedIn
  <1>1. /\ \A i \in DOMAIN queue : i \in DOMAIN queue' /\ queue'[i] = queue[i]
        /\ \A i \in DOMAIN msgs : /\ Len(queue) + i \in DOMAIN queue'
                                  /\ queue'[Len(queue) + i] = msgs[i]
        /\ \A i \in DOMAIN queue' : \/ i \in DOMAIN queue
                                    \/ /\ i - Len(queue) \in DOMAIN msgs
                                       /\ queue'[i] = msgs[i - Len(queue)]
    BY AfterAppend DEF TypeOK
  <1>2. \A i \in DOMAIN queue : i \in Nat /\ i <= Len(queue)
    BY DEF TypeOK
  <1>3. \A i \in DOMAIN msgs : i \in Nat /\ i >= 1
    OBVIOUS
  <1>4. Len(queue) \in Nat
    BY DEF TypeOK
  <1>5. CASE \E k \in DOMAIN msgs : msgs[k].ev = "bye"
    <2> PICK k \in DOMAIN msgs : msgs[k].ev = "bye"
      BY <1>5
    <2>a. /\ Len(queue) + k \in DOMAIN queue'
          /\ queue'[Len(queue) + k].ev = "bye"
          /\ \A i \in DOMAIN queue : Len(queue) + k > i
      BY <1>1, <1>2, <1>3, <1>4
    <2>1. \A i \in DOMAIN queue : ByeFollows(i)'
      BY <2>a DEF ByeFollows
    <2>2. LogoutOnItsWay'
      BY <1>1, <1>5 DEF LogoutOnItsWay
    <2> QED BY <1>1, <2>1, <2>2
  <1>6. CASE /\ ~token
             /\ \A k \in DOMAIN msgs : msgs[k].ev # "welcome"
             /\ \A c \in calls : c.kind = "Logout" =>
                  \E d \in calls' : d.kind = "Logout"
    <2>1. \A i \in DOMAIN queue : ByeFollows(i) => ByeFollows(i)'
      BY <1>1, <1>6 DEF ByeFollows
    <2>2. LogoutOnItsWay => LogoutOnItsWay'
      BY <1>1, <1>6 DEF LogoutOnItsWay
    <2>3. OnDashboard' => LogoutOnItsWay'
      BY <1>6, <2>2 DEF DashboardMeansSignedIn, OnDashboard
    <2>4. ASSUME NEW i \in DOMAIN queue', queue'[i].ev = "welcome"
          PROVE  ByeFollows(i)'
      <3>1. i \in DOMAIN queue /\ queue'[i] = queue[i]
        BY <1>1, <1>6, <2>4
      <3>2. ByeFollows(i)
        BY <1>6, <2>4, <3>1 DEF WelcomeInv
      <3> QED BY <2>1, <3>1, <3>2
    <2> QED BY <2>3, <2>4
  <1> QED BY <1>5, <1>6
(* A stop that goes on is not forgotten when another call is served.       *)
LEMMA StillStopping ==
  ASSUME NEW c \in calls, c.phase # "stopping", calls \ {c} \subseteq calls',
         Stopping
  PROVE  Stopping'
  BY DEF Stopping

(* Answers are messages.                                                   *)
LEMMA AnswerTypes ==
  ASSUME TypeOK, NEW c \in calls
  PROVE  /\ c.mount \in Nat
         /\ \A ev \in {"toggled", "welcome", "denied", "bye"} :
              Reply(ev, c) \in Messages /\ Reply(ev, c).ev = ev
         /\ \A ev \in {"connecting", "settled", "ended"} :
              Signal(ev) \in Messages /\ Signal(ev).ev = ev
         /\ c.kind = "Set" => Undo(c) \in Messages /\ Undo(c).ev = "undo"
         /\ c.kind = "Set" => c.field \in Settings /\ c.value \in Values(c.field)
  <1>1. c \in Calls
    BY DEF TypeOK
  <1>2. c.mount \in Nat
    BY <1>1 DEF Calls
  <1>3. c.kind = "Set" => /\ c.field \in Settings
                          /\ c.value \in Values(c.field)
                          /\ c.previous \in Values(c.field)
                          /\ c.previous \in SomeValue
    BY <1>1 DEF Calls
  <1>4. \A ev \in {"toggled", "welcome", "denied", "bye"} :
          Reply(ev, c) \in Messages /\ Reply(ev, c).ev = ev
    BY <1>2 DEF Reply, Messages
  <1>5. \A ev \in {"connecting", "settled", "ended"} :
          Signal(ev) \in Messages /\ Signal(ev).ev = ev
    BY DEF Signal, Messages
  <1>6. c.kind = "Set" => Undo(c) \in Messages /\ Undo(c).ev = "undo"
    <2> SUFFICES ASSUME c.kind = "Set" PROVE Undo(c) \in Messages /\ Undo(c).ev = "undo"
      OBVIOUS
    <2>1. Undo(c) \in [ev : {"undo"}, mount : Nat, field : Settings, value : SomeValue]
      BY <1>2, <1>3 DEF Undo
    <2>2. Undo(c).value \in Values(Undo(c).field) /\ Undo(c).ev = "undo"
      BY <1>3 DEF Undo
    <2> QED BY <2>1, <2>2 DEF Messages
  <1> QED BY <1>2, <1>3, <1>4, <1>5, <1>6

(* A setting that is changed stays one of its values.                      *)
LEMMA StatusType ==
  ASSUME NEW s \in Status, NEW f \in Settings, NEW v \in Values(f)
  PROVE  [s EXCEPT ![f] = v] \in Status /\ [s EXCEPT ![f] = v].active = s.active
  <1>1. CASE f = "mode"
    BY <1>1 DEF Values, Status
  <1>2. CASE f = "region"
    BY <1>2 DEF Values, Status
  <1>3. CASE f = "routeAll"
    BY <1>3 DEF Values, Status
  <1> QED BY <1>1, <1>2, <1>3 DEF Settings

(* A call that is under way is a call.                                     *)
LEMMA AdvanceType ==
  ASSUME TypeOK, NEW c \in calls
  PROVE  /\ c.kind = "Toggle" => \A ph \in {"starting", "stopping"} :
              [c EXCEPT !.phase = ph] \in Calls
         /\ c.kind = "Logout" => /\ [c EXCEPT !.phase = "stopping"] \in Calls
                                 /\ [c EXCEPT !.phase = "stopping"].kind = "Logout"
         /\ [c EXCEPT !.phase = "stopping"].phase = "stopping"
         /\ c.kind = "Login" => c.phase = "called"
         /\ c.kind = "Set" => c.phase = "called"
         /\ c.kind = "RefreshServerRegions" => c.phase = "called"
  <1>1. c \in Calls
    BY DEF TypeOK
  <1>2. c.kind = "Toggle" => c \in [kind : {"Toggle"},
          phase : {"called", "starting", "stopping"}, mount : Nat]
    BY <1>1 DEF Calls
  <1>3. c.kind = "Logout" => c \in [kind : {"Logout"},
          phase : {"called", "stopping"}, mount : Nat, id : Nat]
    BY <1>1 DEF Calls
  <1>4. [c EXCEPT !.phase = "stopping"].phase = "stopping"
    BY <1>1 DEF Calls
  <1>5. /\ c.kind = "Login" => c.phase = "called"
        /\ c.kind = "Set" => c.phase = "called"
        /\ c.kind = "RefreshServerRegions" => c.phase = "called"
    BY <1>1 DEF Calls
  <1>6. c.kind = "Toggle" => \A ph \in {"starting", "stopping"} :
          [c EXCEPT !.phase = ph] \in Calls
    BY <1>2 DEF Calls
  <1>7. c.kind = "Logout" => /\ [c EXCEPT !.phase = "stopping"] \in Calls
                             /\ [c EXCEPT !.phase = "stopping"].kind = "Logout"
    BY <1>3 DEF Calls
  <1> QED BY <1>4, <1>5, <1>6, <1>7

(* Nobody is told anything, and no dashboard is up.                        *)
LEMMA InitInv == Init => IInv
  <1> SUFFICES ASSUME Init PROVE IInv
    OBVIOUS
  <1>1. EmptyStatus \in Status /\ [EmptyStatus EXCEPT !.region = SavedRegion] \in Status
    BY WinUIAssumption DEF EmptyStatus, Status, Modes, Switch
  <1>2. TypeOK
    <2>1. shown \in Status /\ app \in Status
      BY <1>1 DEF Init
    <2>2. /\ attempts \in 0 .. MaxAttempts
          /\ clicks \in 0 .. MaxClicks /\ mount \in Nat
      BY WinUIAssumption DEF Init
    <2>3. queue \in Seq(Messages) /\ built = {} /\ calls = {}
      BY ShortAnswers DEF Init
    <2>4. /\ ready \in BOOLEAN /\ screen \in {"loading", "login", "dashboard"}
          /\ signingIn \in BOOLEAN /\ connecting \in BOOLEAN
          /\ toggling \in BOOLEAN /\ token \in BOOLEAN
          /\ toggleMu \in BOOLEAN /\ late \in BOOLEAN
      BY DEF Init
    <2> QED BY <2>1, <2>2, <2>3, <2>4 DEF TypeOK
  <1>3. ReportsInv /\ WelcomeInv /\ DashboardMeansSignedIn
    BY DEF Init, ReportsInv, WelcomeInv, DashboardMeansSignedIn, OnDashboard, EmptyStatus
  <1> QED BY <1>2, <1>3 DEF IInv

(* Every call that is served keeps the invariant.                          *)
LEMMA ServeInv ==
  ASSUME IInv, NEW c \in calls, Serve(c)
  PROVE  IInv'
  <1> USE DEF IInv
  <1>a. /\ c.mount \in Nat
        /\ \A ev \in {"toggled", "welcome", "denied", "bye"} :
             Reply(ev, c) \in Messages /\ Reply(ev, c).ev = ev
        /\ \A ev \in {"connecting", "settled", "ended"} :
             Signal(ev) \in Messages /\ Signal(ev).ev = ev
        /\ c.kind = "Set" => Undo(c) \in Messages /\ Undo(c).ev = "undo"
        /\ c.kind = "Set" => c.field \in Settings /\ c.value \in Values(c.field)
    BY AnswerTypes
  <1>b. /\ c.kind = "Toggle" => \A ph \in {"starting", "stopping"} :
             [c EXCEPT !.phase = ph] \in Calls
        /\ c.kind = "Logout" => /\ [c EXCEPT !.phase = "stopping"] \in Calls
                                /\ [c EXCEPT !.phase = "stopping"].kind = "Logout"
        /\ [c EXCEPT !.phase = "stopping"].phase = "stopping"
        /\ c.kind = "Login" => c.phase = "called"
        /\ c.kind = "Set" => c.phase = "called"
        /\ c.kind = "RefreshServerRegions" => c.phase = "called"
    BY AdvanceType
  <1>c. ASSUME c.phase # "stopping", calls \ {c} \subseteq calls', Stopping
        PROVE  Stopping'
    BY <1>c, StillStopping
  <1>d. app \in Status /\ queue \in Seq(Messages) /\ calls \subseteq Calls
    BY DEF TypeOK
  <1>e. ASSUME NEW msgs \in Seq(Messages), queue' = queue \o msgs
        PROVE  queue' \in Seq(Messages)
    BY <1>d, <1>e, AfterAppend
  <1> DEFINE none == <<>>
  <1>f. queue = queue \o none /\ none \in Seq(Messages) /\ DOMAIN none = {}
    BY <1>d, ShortAnswers
  <1> HIDE DEF none
  <1>g. \A m \in Messages : Append(queue, m) = queue \o <<m>>
    BY <1>d
  <1>1. CASE ServeLogin(c)
    <2>1. PICK m \in Messages :
            /\ queue' = queue \o <<m>> /\ calls' = calls \ {c}
            /\ m.ev \in {"welcome", "denied"}
            /\ token' \/ (token' = token /\ m.ev = "denied")
            /\ token' \in BOOLEAN
      BY <1>1, <1>a DEF ServeLogin, Answer, TypeOK
    <2> DEFINE msgs == <<m>>
    <2>2. msgs \in Seq(Messages) /\ queue' = queue \o msgs
          /\ \A k \in DOMAIN msgs : msgs[k] = m
      BY <2>1, ShortAnswers
    <2>3. TypeOK'
      BY <1>1, <1>e, <2>1, <2>2 DEF ServeLogin, TypeOK, window
    <2>4. Stopping => Stopping'
      BY <1>1, <1>b, <1>c, <2>1 DEF ServeLogin
    <2> HIDE DEF msgs
    <2>5. ReportsInv'
      BY <1>1, <2>1, <2>2, <2>4, ReportsKept DEF ServeLogin, window, Reports
    <2>6. WelcomeInv' /\ DashboardMeansSignedIn'
      <3>1. \A d \in calls : d.kind = "Logout" => \E e \in calls' : e.kind = "Logout"
        BY <1>1, <2>1 DEF ServeLogin
      <3> QED BY <1>1, <2>1, <2>2, <3>1, WelcomeKept DEF ServeLogin, window
    <2> QED BY <2>3, <2>5, <2>6
  <1>2. CASE StopLogout(c) \/ StopToggle(c)
    <2>1. /\ queue' = queue \o none
          /\ calls' = (calls \ {c}) \cup {[c EXCEPT !.phase = "stopping"]}
          /\ app' = [app EXCEPT !.active = FALSE]
          /\ toggleMu' \in BOOLEAN
          /\ UNCHANGED <<window, token, late, built>>
          /\ c.kind \in {"Logout", "Toggle"}
      BY <1>2, <1>f DEF StopLogout, StopToggle, BeginStop, Advance, TypeOK
    <2>2. TypeOK'
      <3>1. calls' \subseteq Calls
        BY <1>b, <1>d, <2>1
      <3>2. app' \in Status
        BY <1>d, <2>1 DEF Status
      <3> QED BY <1>e, <1>f, <2>1, <3>1, <3>2 DEF TypeOK, window
    <2>3. Stopping'
      BY <1>b, <2>1 DEF Stopping
    <2>4. ReportsInv'
      BY <1>f, <2>1, <2>3, ReportsKept DEF window
    <2>5. WelcomeInv' /\ DashboardMeansSignedIn'
      <3>1. \A d \in calls : d.kind = "Logout" => \E e \in calls' : e.kind = "Logout"
        BY <1>b, <2>1
      <3> QED BY <1>f, <2>1, <3>1, WelcomeKept DEF window, TypeOK
    <2> QED BY <2>2, <2>4, <2>5
  <1>3. CASE EndLogout(c)
    <2> DEFINE msgs == <<Signal("ended"), Reply("bye", c)>>
    <2>1. /\ msgs \in Seq(Messages) /\ queue' = queue \o msgs
          /\ 1 \in DOMAIN msgs /\ msgs[1].ev = "ended"
          /\ 2 \in DOMAIN msgs /\ msgs[2].ev = "bye"
          /\ \A k \in DOMAIN msgs : msgs[k].ev \in {"ended", "bye"}
      BY <1>3, <1>a, ShortAnswers DEF EndLogout, Answer
    <2>2. TypeOK'
      BY <1>3, <1>e, <2>1 DEF EndLogout, Answer, TypeOK, window
    <2> HIDE DEF msgs
    <2>3. ReportsInv'
      BY <1>3, <2>1, ReportsKept DEF EndLogout, window, Reports
    <2>4. WelcomeInv' /\ DashboardMeansSignedIn'
      BY <1>3, <2>1, WelcomeKept DEF EndLogout, window
    <2> QED BY <2>2, <2>3, <2>4
  <1>4. CASE RefuseToggle(c) \/ StartToggle(c) \/ StartFails(c) \/ StartSucceeds(c)
    <2>0. c.kind = "Toggle" /\ c.phase # "stopping"
      BY <1>4 DEF RefuseToggle, StartToggle, StartFails, StartSucceeds
    <2>1. PICK msgs \in Seq(Messages) :
            /\ queue' = queue \o msgs
            /\ \A k \in DOMAIN msgs : msgs[k].ev \in {"toggled", "connecting", "settled"}
      <3>1. CASE RefuseToggle(c)
        <4> DEFINE msgs == <<Reply("toggled", c)>>
        <4>1. msgs \in Seq(Messages) /\ \A k \in DOMAIN msgs : msgs[k].ev = "toggled"
          BY <1>a, ShortAnswers
        <4> QED BY <3>1, <4>1 DEF RefuseToggle, Answer
      <3>2. CASE StartToggle(c)
        <4> DEFINE msgs == <<Signal("connecting")>>
        <4>1. msgs \in Seq(Messages) /\ \A k \in DOMAIN msgs : msgs[k].ev = "connecting"
          BY <1>a, ShortAnswers
        <4>2. queue' = queue \o msgs
          BY <1>a, <1>g, <3>2 DEF StartToggle
        <4> QED BY <4>1, <4>2
      <3>3. CASE StartFails(c) \/ StartSucceeds(c)
        <4> DEFINE msgs == <<Signal("settled"), Reply("toggled", c)>>
        <4>1. msgs \in Seq(Messages) /\
              \A k \in DOMAIN msgs : msgs[k].ev \in {"toggled", "settled"}
          BY <1>a, ShortAnswers
        <4> QED BY <3>3, <4>1 DEF StartFails, StartSucceeds, Answer
      <3> QED BY <1>4, <3>1, <3>2, <3>3
    <2>2. /\ calls \ {c} \subseteq calls' /\ calls' \subseteq Calls
          /\ app' \in Status /\ (app.active => app'.active)
          /\ toggleMu' \in BOOLEAN
          /\ UNCHANGED <<window, token, late, built>>
      <3>1. /\ calls' \in {calls \ {c}, (calls \ {c}) \cup {[c EXCEPT !.phase = "starting"]}}
            /\ toggleMu' \in BOOLEAN /\ UNCHANGED <<window, token, late, built>>
        BY <1>4 DEF RefuseToggle, StartToggle, StartFails, StartSucceeds, Answer,
                    Advance, goApp, TypeOK
      <3>2. app' \in Status /\ (app.active => app'.active)
        BY <1>4, <1>d, WinUIAssumption DEF RefuseToggle, StartToggle, StartFails,
           StartSucceeds, Selected, Status, goApp
      <3> QED BY <1>b, <1>d, <2>0, <3>1, <3>2
    <2>3. TypeOK'
      <3>1. queue' \in Seq(Messages)
        BY <1>e, <2>1
      <3> QED BY <2>2, <3>1 DEF TypeOK, window
    <2>4. Stopping => Stopping'
      BY <1>c, <2>0, <2>2
    <2>5. ReportsInv'
      <3>1. \/ app'.active \/ Stopping' \/ late'
            \/ ~app.active /\ ~Stopping /\ ~late
        BY <2>2, <2>4
      <3>2. \A k \in DOMAIN msgs : msgs[k].ev \notin Reports
        BY <2>1 DEF Reports
      <3>3. shown' = shown
        BY <2>2 DEF window
      <3> QED BY <2>1, <3>1, <3>2, <3>3, ReportsKept
    <2>6. WelcomeInv' /\ DashboardMeansSignedIn'
      <3>1. \A d \in calls : d.kind = "Logout" => \E e \in calls' : e.kind = "Logout"
        BY <2>0, <2>2
      <3> QED BY <2>1, <2>2, <3>1, WelcomeKept DEF window, TypeOK
    <2> QED BY <2>3, <2>5, <2>6
  <1>5. CASE EndToggle(c)
    <2> DEFINE msgs == <<Signal("ended"), Reply("toggled", c)>>
    <2>1. /\ msgs \in Seq(Messages) /\ queue' = queue \o msgs
          /\ 1 \in DOMAIN msgs /\ msgs[1].ev = "ended"
          /\ \A k \in DOMAIN msgs : msgs[k].ev \in {"ended", "toggled"}
      BY <1>5, <1>a, ShortAnswers DEF EndToggle, Answer
    <2>2. TypeOK'
      BY <1>5, <1>e, <2>1 DEF EndToggle, Answer, TypeOK, window
    <2> HIDE DEF msgs
    <2>3. ReportsInv'
      BY <1>5, <2>1, ReportsKept DEF EndToggle, window, Reports
    <2>4. WelcomeInv' /\ DashboardMeansSignedIn'
      <3>1. \A d \in calls : d.kind = "Logout" => \E e \in calls' : e.kind = "Logout"
        BY <1>5 DEF EndToggle, Answer
      <3> QED BY <1>5, <2>1, <3>1, WelcomeKept DEF EndToggle, window, TypeOK
    <2> QED BY <2>2, <2>3, <2>4
  <1>6. CASE ServeChoice(c)
    <2>1. PICK msgs \in Seq(Messages) :
            /\ queue' = queue \o msgs
            /\ \A k \in DOMAIN msgs : msgs[k].ev = "undo"
      <3>1. CASE queue' = queue \o <<>>
        BY <1>f, <3>1 DEF none
      <3>2. CASE queue' = queue \o <<Undo(c)>>
        <4> DEFINE msgs == <<Undo(c)>>
        <4>1. msgs \in Seq(Messages) /\ \A k \in DOMAIN msgs : msgs[k].ev = "undo"
          BY <1>6, <1>a, ShortAnswers DEF ServeChoice
        <4> QED BY <3>2, <4>1
      <3> QED BY <1>6, <3>1, <3>2 DEF ServeChoice, Answer
    <2>2. /\ calls' = calls \ {c}
          /\ app' \in Status /\ app'.active = app.active
          /\ c.kind = "Set"
          /\ UNCHANGED <<window, token, toggleMu, late, built>>
      BY <1>6, <1>a, <1>d, StatusType DEF ServeChoice, Answer
    <2>3. TypeOK'
      BY <1>e, <2>1, <2>2 DEF TypeOK, window
    <2>4. Stopping => Stopping'
      BY <1>b, <1>c, <2>2
    <2>5. ReportsInv'
      BY <2>1, <2>2, <2>4, ReportsKept DEF window, Reports
    <2>6. WelcomeInv' /\ DashboardMeansSignedIn'
      <3>1. \A d \in calls : d.kind = "Logout" => \E e \in calls' : e.kind = "Logout"
        BY <2>2
      <3> QED BY <2>1, <2>2, <3>1, WelcomeKept DEF window, TypeOK
    <2> QED BY <2>3, <2>5, <2>6
  <1>7. CASE ServeRefresh(c)
    <2>1. /\ queue' = queue \o none /\ calls' = calls \ {c}
          /\ app' \in Status /\ app'.active = app.active
          /\ c.kind = "RefreshServerRegions"
          /\ UNCHANGED <<window, token, toggleMu, late>>
      BY <1>7, <1>d, <1>f, WinUIAssumption DEF ServeRefresh, Status
    <2>2. built' \subseteq [ev : Reports, mount : Nat, status : Status]
      BY <1>7, <1>a, <2>1 DEF ServeRefresh, Report, Reports, TypeOK
    <2>3. TypeOK'
      BY <1>e, <1>f, <2>1, <2>2 DEF TypeOK, window
    <2>4. Stopping => Stopping'
      BY <1>b, <1>c, <2>1
    <2>5. ReportsInv'
      BY <1>f, <2>1, <2>4, ReportsKept DEF window
    <2>6. WelcomeInv' /\ DashboardMeansSignedIn'
      <3>1. \A d \in calls : d.kind = "Logout" => \E e \in calls' : e.kind = "Logout"
        BY <2>1
      <3> QED BY <1>f, <2>1, <3>1, WelcomeKept DEF window, TypeOK
    <2> QED BY <2>3, <2>5, <2>6
  <1> QED BY <1>1, <1>2, <1>3, <1>4, <1>5, <1>6, <1>7 DEF Serve

(* When nothing is emitted and neither the app nor a sign-in changes, only *)
(* what is shown and which calls are made matters.                         *)
LEMMA NothingEmitted ==
  ASSUME ReportsInv, WelcomeInv, DashboardMeansSignedIn,
         queue' = queue, UNCHANGED goApp, calls \subseteq calls',
         shown'.active => shown.active,
         OnDashboard' => OnDashboard \/ token
  PROVE  ReportsInv' /\ WelcomeInv' /\ DashboardMeansSignedIn'
  <1>1. Stopping => Stopping'
    BY DEF Stopping
  <1>2. ReportsInv'
    <2> SUFFICES ASSUME ~app'.active, ~Stopping', ~late'
                 PROVE  /\ shown'.active => EndFollows(0)'
                        /\ \A i \in DOMAIN queue' :
                             queue'[i].ev \in Reports /\ queue'[i].status.active
                               => EndFollows(i)'
      BY DEF ReportsInv
    <2>1. /\ shown.active => EndFollows(0)
          /\ \A i \in DOMAIN queue :
               queue[i].ev \in Reports /\ queue[i].status.active => EndFollows(i)
      BY <1>1 DEF ReportsInv, goApp
    <2>2. /\ EndFollows(0) => EndFollows(0)'
          /\ \A i \in DOMAIN queue : EndFollows(i) => EndFollows(i)'
      BY DEF EndFollows
    <2> QED BY <2>1, <2>2
  <1>3. WelcomeInv'
    <2>1. \A i \in DOMAIN queue : ByeFollows(i) => ByeFollows(i)'
      BY DEF ByeFollows
    <2> QED BY <2>1 DEF WelcomeInv, goApp
  <1>4. DashboardMeansSignedIn'
    <2>1. LogoutOnItsWay => LogoutOnItsWay'
      BY DEF LogoutOnItsWay
    <2> QED BY <2>1 DEF DashboardMeansSignedIn, goApp
  <1> QED BY <1>2, <1>3, <1>4

(* What the window and the user do by themselves keeps it.                 *)
LEMMA WindowInv ==
  ASSUME IInv,
         \/ RuntimeStarts \/ CheckFails \/ CheckAnswers
         \/ SubmitLogin \/ ClickLogout \/ ClickToggle
         \/ \E f \in Choosable : \E v \in Values(f) : Choose(f, v)
         \/ Tick
  PROVE  IInv'
  <1> USE DEF IInv
  <1>a. /\ shown \in Status /\ app \in Status /\ mount \in Nat
        /\ attempts \in 0 .. MaxAttempts /\ clicks \in 0 .. MaxClicks
        /\ MaxAttempts \in Nat /\ MaxClicks \in Nat /\ queue \in Seq(Messages)
        /\ calls \subseteq Calls
        /\ built \subseteq [ev : Reports, mount : Nat, status : Status]
    BY WinUIAssumption DEF TypeOK
  <1>b. Click => clicks' \in 0 .. MaxClicks
    BY <1>a DEF Click
  <1>c. mount + 1 \in Nat
    BY <1>a
  <1>1. CASE RuntimeStarts
    <2>1. TypeOK'
      BY <1>1 DEF RuntimeStarts, TypeOK, goApp
    <2> QED BY <1>1, <2>1, NothingEmitted DEF RuntimeStarts, OnDashboard
  <1>2. CASE CheckFails
    <2>0. /\ attempts' \in 0 .. MaxAttempts
          /\ screen' \in {"loading", "login", "dashboard"}
      BY <1>2, <1>a DEF CheckFails, TypeOK
    <2>1. TypeOK'
      BY <1>2, <2>0 DEF CheckFails, TypeOK, goApp
    <2> QED BY <1>2, <2>1, NothingEmitted DEF CheckFails, OnDashboard
  <1>3. CASE CheckAnswers
    <2>0. attempts' \in 0 .. MaxAttempts
      BY <1>3, <1>a DEF CheckAnswers
    <2>1. CASE token
      <3>1. /\ calls \subseteq calls' /\ calls' \subseteq Calls
            /\ built' \subseteq [ev : Reports, mount : Nat, status : Status]
            /\ mount' \in Nat /\ screen' = "dashboard"
        <4>1. /\ mount' = mount + 1 /\ screen' = "dashboard"
              /\ calls' = calls \cup {[Call("RefreshServerRegions") EXCEPT !.mount = mount']}
              /\ built' = built \cup {Report("GetStatus", mount', app)}
          BY <1>3, <2>1 DEF CheckAnswers, Mount
        <4>2. [Call("RefreshServerRegions") EXCEPT !.mount = mount'] \in Calls
          BY <1>c, <4>1 DEF Call, Calls
        <4>3. Report("GetStatus", mount', app)
                \in [ev : Reports, mount : Nat, status : Status]
          BY <1>a, <1>c, <4>1 DEF Report, Reports
        <4> QED BY <1>a, <1>c, <4>1, <4>2, <4>3
      <3>2. TypeOK'
        BY <1>3, <2>0, <3>1 DEF CheckAnswers, TypeOK, goApp
      <3> QED BY <1>3, <2>1, <3>1, <3>2, NothingEmitted DEF CheckAnswers
    <2>2. CASE ~token
      <3>1. TypeOK'
        BY <1>3, <2>0, <2>2 DEF CheckAnswers, TypeOK, goApp
      <3> QED BY <1>3, <2>2, <3>1, NothingEmitted DEF CheckAnswers, OnDashboard
    <2> QED BY <2>1, <2>2
  <1>4. CASE SubmitLogin
    <2>1. calls \subseteq calls' /\ calls' \subseteq Calls
      BY <1>4, <1>a DEF SubmitLogin, Call, Calls
    <2>2. TypeOK'
      BY <1>4, <1>b, <2>1 DEF SubmitLogin, TypeOK, goApp
    <2> QED BY <1>4, <2>1, <2>2, NothingEmitted DEF SubmitLogin, OnDashboard
  <1>5. CASE ClickLogout
    <2>1. calls \subseteq calls' /\ calls' \subseteq Calls
      BY <1>5, <1>a DEF ClickLogout, LogoutCall, Calls
    <2>2. TypeOK'
      BY <1>5, <1>b, <2>1 DEF ClickLogout, TypeOK, goApp
    <2> QED BY <1>5, <2>1, <2>2, NothingEmitted DEF ClickLogout, OnDashboard
  <1>6. CASE ClickToggle
    <2>1. calls \subseteq calls' /\ calls' \subseteq Calls
      BY <1>6, <1>a DEF ClickToggle, Call, Calls
    <2>2. TypeOK'
      BY <1>6, <1>b, <2>1 DEF ClickToggle, TypeOK, goApp
    <2> QED BY <1>6, <2>1, <2>2, NothingEmitted DEF ClickToggle, OnDashboard
  <1>7. CASE \E f \in Choosable : \E v \in Values(f) : Choose(f, v)
    <2> PICK f \in Choosable : \E v \in Values(f) : Choose(f, v)
      BY <1>7
    <2> PICK v \in Values(f) : Choose(f, v)
      OBVIOUS
    <2>1. f \in Settings
      BY WinUIAssumption DEF Settings
    <2>a. shown' = [shown EXCEPT ![f] = v]
      BY DEF Choose
    <2>2. shown' \in Status /\ shown'.active = shown.active
      BY <1>a, <2>1, <2>a, StatusType
    <2>3. /\ v \in SomeValue
          /\ shown[f] \in Values(f) /\ shown[f] \in SomeValue
      BY <1>a, <2>1 DEF Settings, Values, SomeValue, Status
    <2>4. ChoiceCall(f, v) \in Calls
      <3>1. ChoiceCall(f, v) \in
              [kind : {"Set"}, phase : {"called"}, mount : Nat, id : Nat,
               field : Settings, value : SomeValue, previous : SomeValue]
        BY <1>a, <2>1, <2>3 DEF ChoiceCall
      <3>2. /\ ChoiceCall(f, v).value \in Values(ChoiceCall(f, v).field)
            /\ ChoiceCall(f, v).previous \in Values(ChoiceCall(f, v).field)
        BY <2>3 DEF ChoiceCall
      <3> QED BY <3>1, <3>2 DEF Calls
    <2>5. calls \subseteq calls' /\ calls' \subseteq Calls
      BY <1>a, <2>4 DEF Choose
    <2>6. TypeOK'
      BY <1>b, <2>2, <2>5 DEF Choose, TypeOK, goApp
    <2> QED BY <2>2, <2>5, <2>6, NothingEmitted DEF Choose, OnDashboard
  <1>8. CASE Tick
    <2>0. built' \subseteq [ev : Reports, mount : Nat, status : Status]
      BY <1>8, <1>a DEF Tick, Report, Reports
    <2>1. TypeOK'
      BY <1>8, <2>0 DEF Tick, TypeOK, goApp, window
    <2> QED BY <1>8, <2>1, NothingEmitted DEF Tick, window, OnDashboard
  <1> QED BY <1>1, <1>2, <1>3, <1>4, <1>5, <1>6, <1>7, <1>8

(* A report of a connection that is over comes before its end, or is late. *)
LEMMA EmitInv ==
  ASSUME IInv, NEW ev \in Reports, Emit(ev)
  PROVE  IInv'
  <1> USE DEF IInv
  <1> PICK m \in built :
        /\ m.ev = ev /\ built' = built \ {m} /\ queue' = Append(queue, m)
        /\ late' = (late \/ (m.status.active /\ ~app.active /\ ~Stopping))
    BY DEF Emit
  <1>0. UNCHANGED <<window, calls, token, app, toggleMu>>
    BY DEF Emit
  <1>1. /\ m \in [ev : Reports, mount : Nat, status : Status] /\ m \in Messages
        /\ queue \in Seq(Messages) /\ app \in Status
    BY DEF TypeOK, Messages
  <1> DEFINE msgs == <<m>>
  <1>2. /\ msgs \in Seq(Messages) /\ queue' = queue \o msgs
        /\ DOMAIN msgs = {1} /\ msgs[1] = m
    BY <1>1
  <1> HIDE DEF msgs
  <1>3. TypeOK'
    <2>1. queue' \in Seq(Messages)
      BY <1>1, <1>2, AfterAppend
    <2>2. late' \in BOOLEAN
      BY <1>1 DEF Status, Stopping, TypeOK
    <2> QED BY <1>0, <2>1, <2>2 DEF TypeOK, window
  <1>4. WelcomeInv' /\ DashboardMeansSignedIn'
    <2>1. \A k \in DOMAIN msgs : msgs[k].ev # "welcome"
      BY <1>1, <1>2 DEF Reports
    <2> QED BY <1>0, <1>2, <2>1, WelcomeKept DEF window, TypeOK
  <1>5. ReportsInv'
    <2> SUFFICES ASSUME ~app'.active, ~Stopping', ~late'
                 PROVE  /\ shown'.active => EndFollows(0)'
                        /\ \A i \in DOMAIN queue' :
                             queue'[i].ev \in Reports /\ queue'[i].status.active
                               => EndFollows(i)'
      BY DEF ReportsInv
    <2>1. ~app.active /\ ~Stopping /\ ~late /\ ~m.status.active
      BY <1>0, <1>1 DEF Stopping, TypeOK, Status
    <2>2. /\ shown.active => EndFollows(0)
          /\ \A i \in DOMAIN queue :
               queue[i].ev \in Reports /\ queue[i].status.active => EndFollows(i)
      BY <2>1 DEF ReportsInv
    <2>3. /\ \A i \in DOMAIN queue : i \in DOMAIN queue' /\ queue'[i] = queue[i]
          /\ \A i \in DOMAIN queue' : i \in DOMAIN queue \/ queue'[i] = m
      BY <1>1, <1>2, AfterAppend
    <2>4. \A i \in DOMAIN queue \cup {0} : EndFollows(i) => EndFollows(i)'
      BY <2>3 DEF EndFollows
    <2>5. shown'.active => EndFollows(0)'
      BY <1>0, <2>2, <2>4 DEF window
    <2>6. ASSUME NEW i \in DOMAIN queue', queue'[i].ev \in Reports,
                 queue'[i].status.active
          PROVE  EndFollows(i)'
      <3>1. i \in DOMAIN queue /\ queue'[i] = queue[i]
        BY <2>1, <2>3, <2>6
      <3> QED BY <2>2, <2>4, <2>6, <3>1
    <2> QED BY <2>5, <2>6
  <1> QED BY <1>3, <1>4, <1>5

(* Handling a message that is neither an end nor a goodbye keeps the order *)
(* of what is behind it.                                                   *)
LEMMA Handled ==
  ASSUME TypeOK, ReportsInv, WelcomeInv, DashboardMeansSignedIn, UNCHANGED goApp,
         queue # <<>>, queue' = Tail(queue), calls \subseteq calls',
         \/ Head(queue).ev \notin {"ended", "bye"}
         \/ Head(queue).ev = "ended" /\ ~shown'.active
         \/ Head(queue).ev = "bye" /\ ~OnDashboard' /\ ~shown'.active,
         \/ ~shown'.active
         \/ shown.active
         \/ Head(queue).ev \in Reports /\ Head(queue).status.active,
         OnDashboard' => OnDashboard \/ Head(queue).ev = "welcome"
  PROVE  ReportsInv' /\ WelcomeInv' /\ DashboardMeansSignedIn'
  <1>1. /\ 1 \in DOMAIN queue /\ Head(queue) = queue[1]
        /\ \A i \in DOMAIN queue' : i + 1 \in DOMAIN queue /\ queue'[i] = queue[i + 1]
        /\ \A j \in DOMAIN queue : j > 1 => /\ j - 1 \in DOMAIN queue'
                                            /\ queue'[j - 1] = queue[j]
        /\ \A i \in DOMAIN queue : i \in Nat /\ i >= 1
        /\ \A i \in DOMAIN queue' : i \in Nat /\ i >= 1
    <2>1. queue \in Seq(Messages)
      BY DEF TypeOK
    <2>2. \A i \in DOMAIN queue' : i \in Nat /\ i >= 1
      BY <2>1
    <2> QED BY <2>1, <2>2, AfterTail
  <1>2. Stopping => Stopping'
    BY DEF Stopping
  <1>3. \A i \in DOMAIN queue' : EndFollows(i + 1) => EndFollows(i)'
    <2> SUFFICES ASSUME NEW i \in DOMAIN queue', EndFollows(i + 1)
                 PROVE  EndFollows(i)'
      OBVIOUS
    <2> PICK j \in DOMAIN queue : j > i + 1 /\ queue[j].ev = "ended"
      BY DEF EndFollows
    <2>1. j - 1 \in DOMAIN queue' /\ j - 1 > i /\ queue'[j - 1].ev = "ended"
      BY <1>1
    <2> QED BY <2>1 DEF EndFollows
  <1>4. \A i \in DOMAIN queue' : ByeFollows(i + 1) => ByeFollows(i)'
    <2> SUFFICES ASSUME NEW i \in DOMAIN queue', ByeFollows(i + 1)
                 PROVE  ByeFollows(i)'
      OBVIOUS
    <2>1. CASE \E c \in calls : c.kind = "Logout"
      BY <2>1 DEF ByeFollows
    <2>2. CASE \E j \in DOMAIN queue : j > i + 1 /\ queue[j].ev = "bye"
      <3> PICK j \in DOMAIN queue : j > i + 1 /\ queue[j].ev = "bye"
        BY <2>2
      <3>1. j - 1 \in DOMAIN queue' /\ j - 1 > i /\ queue'[j - 1].ev = "bye"
        BY <1>1
      <3> QED BY <3>1 DEF ByeFollows
    <2> QED BY <2>1, <2>2 DEF ByeFollows
  <1>5. ReportsInv'
    <2> SUFFICES ASSUME ~app'.active, ~Stopping', ~late'
                 PROVE  /\ shown'.active => EndFollows(0)'
                        /\ \A i \in DOMAIN queue' :
                             queue'[i].ev \in Reports /\ queue'[i].status.active
                               => EndFollows(i)'
      BY DEF ReportsInv
    <2>1. /\ shown.active => EndFollows(0)
          /\ \A i \in DOMAIN queue :
               queue[i].ev \in Reports /\ queue[i].status.active => EndFollows(i)
      BY <1>2 DEF ReportsInv, goApp
    <2>2. ASSUME shown'.active PROVE EndFollows(0)'
      <3>1. Head(queue).ev # "ended"
        BY <2>2
      <3>2. PICK j \in DOMAIN queue : j > 1 /\ queue[j].ev = "ended"
        <4>1. CASE shown.active
          <5> PICK j \in DOMAIN queue : j > 0 /\ queue[j].ev = "ended"
            BY <2>1, <4>1 DEF EndFollows
          <5>1. j > 1
            BY <1>1, <3>1
          <5> QED BY <5>1
        <4>2. CASE Head(queue).ev \in Reports /\ Head(queue).status.active
          BY <1>1, <2>1, <4>2 DEF EndFollows
        <4> QED BY <2>2, <4>1, <4>2
      <3>3. j - 1 \in DOMAIN queue' /\ j - 1 > 0 /\ queue'[j - 1].ev = "ended"
        BY <1>1, <3>2
      <3> QED BY <3>3 DEF EndFollows
    <2>3. ASSUME NEW i \in DOMAIN queue', queue'[i].ev \in Reports,
                 queue'[i].status.active
          PROVE  EndFollows(i)'
      <3>1. EndFollows(i + 1)
        BY <1>1, <2>1, <2>3
      <3> QED BY <1>3, <3>1
    <2> QED BY <2>2, <2>3
  <1>6. WelcomeInv'
    <2> SUFFICES ASSUME ~token', NEW i \in DOMAIN queue', queue'[i].ev = "welcome"
                 PROVE  ByeFollows(i)'
      BY DEF WelcomeInv
    <2>1. ByeFollows(i + 1)
      BY <1>1 DEF WelcomeInv, goApp
    <2> QED BY <1>4, <2>1
  <1>7. DashboardMeansSignedIn'
    <2> SUFFICES ASSUME OnDashboard', ~token' PROVE LogoutOnItsWay'
      BY DEF DashboardMeansSignedIn
    <2>0. ~token /\ Head(queue).ev # "bye"
      BY DEF goApp
    <2>1. CASE Head(queue).ev = "welcome"
      <3>1. ByeFollows(1)
        BY <1>1, <2>0, <2>1 DEF WelcomeInv
      <3>2. CASE \E c \in calls : c.kind = "Logout"
        BY <3>2 DEF LogoutOnItsWay
      <3>3. CASE \E j \in DOMAIN queue : j > 1 /\ queue[j].ev = "bye"
        BY <1>1, <3>3 DEF LogoutOnItsWay
      <3> QED BY <3>1, <3>2, <3>3 DEF ByeFollows
    <2>2. CASE OnDashboard
      <3>1. LogoutOnItsWay
        BY <2>0, <2>2 DEF DashboardMeansSignedIn
      <3>2. CASE \E c \in calls : c.kind = "Logout"
        BY <3>2 DEF LogoutOnItsWay
      <3>3. CASE \E j \in DOMAIN queue : queue[j].ev = "bye"
        <4> PICK j \in DOMAIN queue : queue[j].ev = "bye"
          BY <3>3
        <4>1. j - 1 \in DOMAIN queue' /\ queue'[j - 1].ev = "bye"
          BY <1>1, <2>0
        <4> QED BY <4>1 DEF LogoutOnItsWay
      <3> QED BY <3>1, <3>2, <3>3 DEF LogoutOnItsWay
    <2> QED BY <2>1, <2>2
  <1> QED BY <1>5, <1>6, <1>7

(* Everything the window is told keeps it.                                 *)
LEMMA DeliverInv ==
  ASSUME IInv, Deliver
  PROVE  IInv'
  <1> USE DEF IInv
  <1> DEFINE m == Head(queue)
  <1>a. /\ queue # <<>> /\ queue' = Tail(queue) /\ UNCHANGED goApp
        /\ queue' \in Seq(Messages) /\ m \in Messages
    <2>1. queue # <<>> /\ queue' = Tail(queue) /\ UNCHANGED goApp
      BY DEF Deliver, OnStatus, OnReport, OnConnecting, OnEnded, OnToggled, OnUndo,
             OnWelcome, OnDenied, OnBye, Told
    <2> QED BY <2>1, AfterTail DEF TypeOK
  <1>b. /\ shown \in Status /\ app \in Status /\ mount \in Nat
        /\ toggling \in BOOLEAN /\ connecting \in BOOLEAN /\ calls \subseteq Calls
        /\ built \subseteq [ev : Reports, mount : Nat, status : Status]
    BY DEF TypeOK
  <1>1. CASE OnStatus \/ OnReport
    <2>1. m.ev \in Reports
      BY <1>1 DEF OnStatus, OnReport, Told, Reports
    <2>2. m.status \in Status
      BY <1>a, <2>1 DEF Messages, Reports
    <2>3. shown' \in {shown, m.status}
      BY <1>1 DEF OnStatus, OnReport
    <2>4. TypeOK'
      BY <1>1, <1>a, <1>b, <2>2, <2>3 DEF OnStatus, OnReport, TypeOK, goApp
    <2>5. m.ev \notin {"ended", "bye"} /\ UNCHANGED <<screen, calls>>
      BY <1>1, <2>1 DEF OnStatus, OnReport, Reports
    <2> QED BY <1>a, <2>1, <2>3, <2>4, <2>5, Handled DEF OnDashboard
  <1>2. CASE OnConnecting \/ OnToggled \/ OnDenied
    <2>1. m.ev \in {"connecting", "settled", "toggled", "denied"}
      BY <1>2 DEF OnConnecting, OnToggled, OnDenied, Told
    <2>2. TypeOK'
      <3>1. connecting' \in BOOLEAN /\ toggling' \in BOOLEAN /\ signingIn' \in BOOLEAN
        BY <1>2, <1>b DEF OnConnecting, OnToggled, OnDenied, TypeOK, OnDashboard, ForMe
      <3> QED BY <1>2, <1>a, <1>b, <3>1 DEF OnConnecting, OnToggled, OnDenied, TypeOK, goApp
    <2>3. UNCHANGED <<screen, shown, calls>>
      BY <1>2 DEF OnConnecting, OnToggled, OnDenied
    <2> QED BY <1>a, <2>1, <2>2, <2>3, Handled DEF OnDashboard
  <1>3. CASE OnEnded
    <2>1. m.ev = "ended" /\ shown' = [shown EXCEPT !.active = FALSE]
      BY <1>3 DEF OnEnded, Told
    <2>2. shown' \in Status /\ ~shown'.active
      BY <1>b, <2>1 DEF Status
    <2>3. TypeOK'
      BY <1>3, <1>a, <1>b, <2>2 DEF OnEnded, TypeOK, goApp
    <2>4. UNCHANGED <<screen, calls>>
      BY <1>3 DEF OnEnded
    <2> QED BY <1>a, <2>1, <2>2, <2>3, <2>4, Handled DEF OnDashboard
  <1>4. CASE OnUndo
    <2>1. m.ev = "undo"
      BY <1>4 DEF OnUndo, Told
    <2>2. m.field \in Settings /\ m.value \in Values(m.field)
      BY <1>a, <2>1 DEF Messages, Reports
    <2>3. shown' \in Status /\ shown'.active = shown.active
      <3>1. shown' \in {shown, [shown EXCEPT ![m.field] = m.value]}
        BY <1>4 DEF OnUndo
      <3>2. /\ [shown EXCEPT ![m.field] = m.value] \in Status
            /\ [shown EXCEPT ![m.field] = m.value].active = shown.active
        BY <1>b, <2>2, StatusType
      <3> QED BY <1>b, <3>1, <3>2
    <2>4. TypeOK'
      BY <1>4, <1>a, <1>b, <2>3 DEF OnUndo, TypeOK, goApp
    <2>5. UNCHANGED <<screen, calls>>
      BY <1>4 DEF OnUndo
    <2> QED BY <1>a, <2>1, <2>3, <2>4, <2>5, Handled DEF OnDashboard
  <1>5. CASE OnWelcome
    <2>1. /\ m.ev = "welcome" /\ mount' = mount + 1 /\ screen' = "dashboard"
          /\ calls' = calls \cup {[Call("RefreshServerRegions") EXCEPT !.mount = mount']}
          /\ built' = built \cup {Report("GetStatus", mount', app)}
          /\ signingIn' = FALSE
          /\ UNCHANGED <<ready, attempts, shown, connecting, toggling, clicks>>
      BY <1>5 DEF OnWelcome, Told, Mount
    <2>2. mount' \in Nat
      BY <1>b, <2>1
    <2>3. [Call("RefreshServerRegions") EXCEPT !.mount = mount'] \in Calls
      BY <2>2 DEF Call, Calls
    <2>4. Report("GetStatus", mount', app) \in [ev : Reports, mount : Nat, status : Status]
      BY <1>b, <2>2 DEF Report, Reports
    <2>5. TypeOK'
      BY <1>a, <1>b, <2>1, <2>2, <2>3, <2>4 DEF TypeOK, goApp
    <2> QED BY <1>a, <2>1, <2>5, Handled
  <1>6. CASE OnBye
    <2>1. /\ m.ev = "bye" /\ screen' = "login" /\ shown' = EmptyStatus
          /\ connecting' = FALSE /\ toggling' = FALSE
          /\ UNCHANGED <<ready, attempts, signingIn, mount, clicks, calls, built>>
      BY <1>6 DEF OnBye, Told, Unmount
    <2>2. shown' \in Status /\ ~shown'.active
      BY <2>1, WinUIAssumption DEF EmptyStatus, Status, Modes, Switch
    <2>3. TypeOK'
      BY <1>a, <1>b, <2>1, <2>2 DEF TypeOK, goApp
    <2> QED BY <1>a, <2>1, <2>2, <2>3, Handled DEF OnDashboard
  <1> QED BY <1>1, <1>2, <1>3, <1>4, <1>5, <1>6 DEF Deliver

(* Every step keeps the invariant.                                         *)
LEMMA NextInv == IInv /\ [Next]_vars => IInv'
  <1> SUFFICES ASSUME IInv, [Next]_vars PROVE IInv'
    OBVIOUS
  <1>1. CASE \E c \in calls : Serve(c)
    BY <1>1, ServeInv
  <1>2. CASE \E ev \in Reports : Emit(ev)
    BY <1>2, EmitInv
  <1>3. CASE Deliver
    BY <1>3, DeliverInv
  <1>4. CASE \/ RuntimeStarts \/ CheckFails \/ CheckAnswers
             \/ SubmitLogin \/ ClickLogout \/ ClickToggle
             \/ \E f \in Choosable : \E v \in Values(f) : Choose(f, v)
             \/ Tick
    BY <1>4, WindowInv
  <1>5. CASE UNCHANGED vars
    <2>1. UNCHANGED <<window, calls, goApp, built, queue>>
      BY <1>5 DEF vars
    <2>2. TypeOK'
      BY <2>1 DEF IInv, TypeOK, window, goApp
    <2> QED BY <2>1, <2>2, NothingEmitted DEF IInv, window, OnDashboard
  <1> QED BY <1>1, <1>2, <1>3, <1>4, <1>5 DEF Next

(* The invariant holds in every behaviour, whatever the user clicks.       *)
THEOREM WindowInvariant == Spec => []IInv
  <1> QED BY InitInv, NextInv, PTL DEF Spec

(* A connection that is over is shown only until the event that says so is *)
(* handled, or after a report that came too late.                          *)
THEOREM GoneConnections == Spec => []NoGoneConnectionShown
  <1>1. IInv => NoGoneConnectionShown
    <2> SUFFICES ASSUME IInv, shown.active, ~app.active, ~Stopping, ~late
                 PROVE  \E i \in DOMAIN queue : queue[i].ev = "ended"
      BY DEF NoGoneConnectionShown, EndOnItsWay
    <2>1. EndFollows(0)
      BY DEF IInv, ReportsInv
    <2> QED BY <2>1 DEF EndFollows
  <1> QED BY <1>1, WindowInvariant, PTL

(* The dashboard is for those who are signed in, or about to leave it.     *)
THEOREM SignedInDashboard == Spec => []DashboardMeansSignedIn
  <1>1. IInv => DashboardMeansSignedIn
    BY DEF IInv
  <1> QED BY <1>1, WindowInvariant, PTL

-----------------------------------------------------------------------------
(***************************************************************************)
(* The power button.                                                       *)
(***************************************************************************)

(* Only a Toggle is ever in the phase of a start.                          *)
LEMMA StartingIsAtWork ==
  ASSUME TypeOK, NEW c \in calls, c.phase = "starting"
  PROVE  AtWork(c)
  BY DEF TypeOK, Calls, AtWork

(* Calls that are made or answered while they are not at work leave the    *)
(* lock and the attempt alone.                                             *)
LEMMA MuKept ==
  ASSUME TypeOK, TypeOK', MuInv,
         \A d : d \in calls' /\ AtWork(d) <=> d \in calls /\ AtWork(d),
         toggleMu' = toggleMu, app'.active => app.active
  PROVE  MuInv' /\ (Starting' <=> Starting)
  <1>1. Starting <=> \E c \in calls : AtWork(c) /\ c.phase = "starting"
    BY StartingIsAtWork DEF Starting
  <1>2. Starting' <=> \E c \in calls' : AtWork(c) /\ c.phase = "starting"
    <2>1. \A c \in calls' : c.phase = "starting" => AtWork(c)
      BY DEF TypeOK, Calls, AtWork
    <2> QED BY <2>1 DEF Starting
  <1>3. Starting' <=> Starting
    BY <1>1, <1>2
  <1> QED BY <1>3 DEF MuInv

(* A message that answers no sign-in leaves those that are under way.      *)
LEMMA LoginKept ==
  ASSUME TypeOK, LoginInv, NEW msgs \in Seq(Messages), queue' = queue \o msgs,
         \A k \in DOMAIN msgs : msgs[k].ev \notin {"welcome", "denied"},
         \A d \in calls' : d.kind = "Login" => d \in calls,
         signingIn' = signingIn, signingIn => screen' = screen
  PROVE  LoginInv'
  <1>1. /\ \A i \in DOMAIN queue : i \in DOMAIN queue' /\ queue'[i] = queue[i]
        /\ \A i \in DOMAIN queue' : \/ i \in DOMAIN queue
                                    \/ /\ i - Len(queue) \in DOMAIN msgs
                                       /\ queue'[i] = msgs[i - Len(queue)]
    BY AfterAppend DEF TypeOK
  <1>2. SignInAnswers' = SignInAnswers
    BY <1>1 DEF SignInAnswers
  <1> QED BY <1>2 DEF LoginInv

(* What the app emits never takes away what the button waits for: a Toggle *)
(* that is answered says so to its dashboard, an attempt that ends says    *)
(* that it is over, and no attempt is announced that is not under way.     *)
LEMMA ButtonServed ==
  ASSUME TypeOK, ButtonInv, NEW msgs \in Seq(Messages), queue' = queue \o msgs,
         UNCHANGED window,
         \A d \in calls : d.kind = "Toggle" =>
           \/ \E e \in calls' : e.kind = "Toggle" /\ e.mount = d.mount
           \/ \E k \in DOMAIN msgs : msgs[k].ev = "toggled" /\ msgs[k].mount = d.mount,
         Starting => Starting' \/ \E k \in DOMAIN msgs : msgs[k].ev = "settled",
         \A k \in DOMAIN msgs : msgs[k].ev = "connecting" => Starting'
  PROVE  ConnectingInv' /\ ButtonComesBack' /\ (toggling' => OnDashboard')
  <1>1. /\ \A i \in DOMAIN queue : i \in DOMAIN queue' /\ queue'[i] = queue[i]
        /\ \A i \in DOMAIN msgs : /\ Len(queue) + i \in DOMAIN queue'
                                  /\ queue'[Len(queue) + i] = msgs[i]
        /\ \A i \in DOMAIN queue' : \/ i \in DOMAIN queue
                                    \/ /\ i - Len(queue) \in DOMAIN msgs
                                       /\ queue'[i] = msgs[i - Len(queue)]
    BY AfterAppend DEF TypeOK
  <1>2. \A i \in DOMAIN queue : i \in Nat /\ i <= Len(queue)
    BY DEF TypeOK
  <1>3. \A i \in DOMAIN msgs : i \in Nat /\ i >= 1
    OBVIOUS
  <1>4. Len(queue) \in Nat
    BY DEF TypeOK
  <1>5. ASSUME NEW i \in DOMAIN queue \cup {0}, SettledFollows(i)
        PROVE  SettledFollows(i)'
    <2>1. CASE Starting /\ ~Starting'
      <3> PICK k \in DOMAIN msgs : msgs[k].ev = "settled"
        BY <2>1
      <3>1. /\ Len(queue) + k \in DOMAIN queue' /\ Len(queue) + k > i
            /\ queue'[Len(queue) + k].ev = "settled"
        BY <1>1, <1>2, <1>3, <1>4
      <3> QED BY <3>1 DEF SettledFollows
    <2>2. CASE Starting'
      BY <2>2 DEF SettledFollows
    <2>3. CASE \E j \in DOMAIN queue : j > i /\ queue[j].ev = "settled"
      BY <1>1, <2>3 DEF SettledFollows
    <2> QED BY <1>5, <2>1, <2>2, <2>3 DEF SettledFollows
  <1>6. ConnectingInv'
    <2> SUFFICES ASSUME NEW i \in DOMAIN queue', queue'[i].ev = "connecting"
                 PROVE  SettledFollows(i)'
      BY DEF ConnectingInv
    <2>1. CASE i \in DOMAIN queue
      BY <1>1, <1>5, <2>1 DEF ButtonInv, ConnectingInv
    <2>2. CASE i \notin DOMAIN queue
      BY <1>1, <2>2 DEF SettledFollows
    <2> QED BY <2>1, <2>2
  <1>7. ToggledOnItsWay => ToggledOnItsWay'
    <2> SUFFICES ASSUME ToggledOnItsWay PROVE ToggledOnItsWay'
      OBVIOUS
    <2>0. mount' = mount
      BY DEF window
    <2>1. CASE \E i \in DOMAIN queue : queue[i].ev = "toggled" /\ queue[i].mount = mount
      BY <1>1, <2>0, <2>1 DEF ToggledOnItsWay
    <2>2. CASE \E d \in calls : d.kind = "Toggle" /\ d.mount = mount
      <3> PICK d \in calls : d.kind = "Toggle" /\ d.mount = mount
        BY <2>2
      <3>1. CASE \E e \in calls' : e.kind = "Toggle" /\ e.mount = d.mount
        BY <2>0, <3>1 DEF ToggledOnItsWay
      <3>2. CASE \E k \in DOMAIN msgs : msgs[k].ev = "toggled" /\ msgs[k].mount = d.mount
        <4> PICK k \in DOMAIN msgs : msgs[k].ev = "toggled" /\ msgs[k].mount = d.mount
          BY <3>2
        <4>1. /\ Len(queue) + k \in DOMAIN queue'
              /\ queue'[Len(queue) + k].ev = "toggled"
              /\ queue'[Len(queue) + k].mount = mount'
          BY <1>1, <2>0
        <4> QED BY <4>1 DEF ToggledOnItsWay
      <3> QED BY <3>1, <3>2
    <2> QED BY <2>1, <2>2 DEF ToggledOnItsWay
  <1>8. ButtonComesBack' /\ (toggling' => OnDashboard')
    BY <1>5, <1>7 DEF ButtonInv, ButtonComesBack, window, OnDashboard
  <1> QED BY <1>6, <1>8

(* The phase a call advances to is the only thing that changes in it.      *)
LEMMA Advanced ==
  ASSUME TypeOK, NEW c \in calls, NEW ph \in {"starting", "stopping"},
         c.kind \in {"Toggle", "Logout"}
  PROVE  LET d == [c EXCEPT !.phase = ph]
         IN d.kind = c.kind /\ d.phase = ph /\ d.mount = c.mount
  <1>1. c \in Calls
    BY DEF TypeOK
  <1>2. CASE c.kind = "Toggle"
    <2>1. c \in [kind : {"Toggle"}, phase : {"called", "starting", "stopping"},
                mount : Nat]
      BY <1>1, <1>2 DEF Calls
    <2> QED BY <2>1
  <1>3. CASE c.kind = "Logout"
    <2>1. c \in [kind : {"Logout"}, phase : {"called", "stopping"}, mount : Nat,
                id : Nat]
      BY <1>1, <1>3 DEF Calls
    <2> QED BY <2>1
  <1> QED BY <1>2, <1>3

(* Every call that is served keeps the button's invariant.                 *)
LEMMA ServeButton ==
  ASSUME IInv, IInv', ButtonInv, NEW c \in calls, Serve(c)
  PROVE  ButtonInv'
  <1> DEFINE none == <<>>
  <1>a. /\ TypeOK /\ TypeOK' /\ c.mount \in Nat /\ MuInv /\ LoginInv
        /\ queue \in Seq(Messages)
        /\ queue = queue \o none /\ none \in Seq(Messages) /\ DOMAIN none = {}
    BY AnswerTypes, ShortAnswers DEF IInv, TypeOK, ButtonInv
  <1>b. /\ \A ev \in {"toggled", "welcome", "denied", "bye"} :
             Reply(ev, c) \in Messages /\ Reply(ev, c).ev = ev
        /\ \A ev \in {"connecting", "settled", "ended"} :
             Signal(ev) \in Messages /\ Signal(ev).ev = ev
        /\ c.kind = "Set" => Undo(c) \in Messages /\ Undo(c).ev = "undo"
        /\ Reply("toggled", c).mount = c.mount
    BY <1>a, AnswerTypes DEF Reply
  <1>c. /\ c.kind = "Login" => c.phase = "called"
        /\ c.kind = "Set" => c.phase = "called"
        /\ c.kind = "RefreshServerRegions" => c.phase = "called"
    BY <1>a, AdvanceType
  <1>d. ASSUME NEW m \in Messages
        PROVE  /\ <<m>> \in Seq(Messages) /\ DOMAIN <<m>> = {1} /\ <<m>>[1] = m
               /\ Append(queue, m) = queue \o <<m>>
    BY <1>a
  <1>e. ASSUME NEW m \in Messages, NEW n \in Messages
        PROVE  /\ <<m, n>> \in Seq(Messages) /\ DOMAIN <<m, n>> = {1, 2}
               /\ <<m, n>>[1] = m /\ <<m, n>>[2] = n
    OBVIOUS
  <1>p. ASSUME MuInv', LoginInv',
               ConnectingInv' /\ ButtonComesBack' /\ (toggling' => OnDashboard')
        PROVE  ButtonInv'
    BY <1>p DEF ButtonInv
  <1>q. ASSUME NEW msgs \in Seq(Messages), queue' = queue \o msgs,
               \A k \in DOMAIN msgs : msgs[k].ev \notin {"welcome", "denied"},
               \A d \in calls' : d.kind = "Login" => d \in calls,
               UNCHANGED window
        PROVE  LoginInv'
    BY <1>a, <1>q, LoginKept DEF window
  <1> HIDE DEF none
  <1>1. CASE ServeLogin(c)
    <2>1. PICK m \in Messages :
            queue' = queue \o <<m>> /\ m.ev \in {"welcome", "denied"}
      BY <1>1, <1>b DEF ServeLogin, Answer
    <2>2. /\ c.kind = "Login" /\ calls' = calls \ {c} /\ UNCHANGED window
          /\ toggleMu' = toggleMu /\ app' = app
      BY <1>1 DEF ServeLogin, Answer
    <2> DEFINE msgs == <<m>>
    <2>3. /\ msgs \in Seq(Messages) /\ queue' = queue \o msgs
          /\ DOMAIN msgs = {1} /\ msgs[1] = m
      BY <2>1, <1>d
    <2> HIDE DEF msgs
    <2>4. MuInv' /\ (Starting' <=> Starting)
      <3>1. \A d : d \in calls' /\ AtWork(d) <=> d \in calls /\ AtWork(d)
        BY <2>2 DEF AtWork
      <3> QED BY <1>a, <2>2, <3>1, MuKept
    <2>5. LoginInv'
      <3>1. /\ signingIn /\ SignInAnswers = {}
            /\ \A d \in calls' : d.kind # "Login"
            /\ screen = "login"
        BY <1>a, <2>2 DEF LoginInv
      <3>2. /\ \A i \in DOMAIN queue : queue'[i] = queue[i]
            /\ \A i \in DOMAIN queue' : i \in DOMAIN queue \/ i = Len(queue) + 1
        <4>1. /\ \A i \in DOMAIN queue : i \in DOMAIN queue' /\ queue'[i] = queue[i]
              /\ \A i \in DOMAIN queue' : \/ i \in DOMAIN queue
                                          \/ i - Len(queue) \in DOMAIN msgs
          <5>1. queue \in Seq(Messages)
            BY <1>a
          <5> QED BY <2>3, <5>1, AfterAppend
        <4>2. \A i \in DOMAIN queue' : i \in Nat
          BY DEF IInv, TypeOK
        <4>3. Len(queue) \in Nat
          BY <1>a
        <4>4. \A i \in DOMAIN queue' : i - Len(queue) = 1 => i = Len(queue) + 1
          BY <4>2, <4>3
        <4> QED BY <2>3, <4>1, <4>4
      <3>3. SignInAnswers' \subseteq {Len(queue) + 1}
        BY <3>1, <3>2 DEF SignInAnswers
      <3> QED BY <2>2, <3>1, <3>3 DEF LoginInv, window
    <2>6. ConnectingInv' /\ ButtonComesBack' /\ (toggling' => OnDashboard')
      <3>1. \A d \in calls : d.kind = "Toggle" => d \in calls'
        BY <2>2
      <3> QED BY <1>a, <2>1, <2>2, <2>3, <2>4, <3>1, ButtonServed
    <2> QED BY <1>p, <2>4, <2>5, <2>6
  <1>2. CASE StopLogout(c)
    <2> DEFINE d == [c EXCEPT !.phase = "stopping"]
    <2>1. /\ c.kind = "Logout" /\ d.kind = "Logout" /\ queue' = queue \o none
          /\ calls' = (calls \ {c}) \cup {d} /\ UNCHANGED window
          /\ toggleMu' = toggleMu /\ (app'.active => app.active)
      BY <1>2, <1>a, Advanced DEF StopLogout, BeginStop, Advance, TypeOK, Status
    <2> HIDE DEF d
    <2>2. MuInv' /\ (Starting' <=> Starting)
      <3>1. \A e : e \in calls' /\ AtWork(e) <=> e \in calls /\ AtWork(e)
        BY <2>1 DEF AtWork
      <3> QED BY <1>a, <2>1, <3>1, MuKept
    <2>3. LoginInv'
      BY <1>a, <1>q, <2>1
    <2>4. ConnectingInv' /\ ButtonComesBack' /\ (toggling' => OnDashboard')
      <3>1. \A e \in calls : e.kind = "Toggle" => e \in calls'
        BY <2>1
      <3> QED BY <1>a, <2>1, <2>2, <3>1, ButtonServed
    <2> QED BY <1>p, <2>2, <2>3, <2>4
  <1>3. CASE EndLogout(c)
    <2> DEFINE msgs == <<Signal("ended"), Reply("bye", c)>>
    <2>1. /\ c.kind = "Logout" /\ queue' = queue \o msgs
          /\ calls' = calls \ {c} /\ UNCHANGED window
          /\ toggleMu' = toggleMu /\ app' = app
      BY <1>3 DEF EndLogout, Answer
    <2>2. /\ msgs \in Seq(Messages)
          /\ \A k \in DOMAIN msgs : msgs[k].ev \in {"ended", "bye"}
      BY <1>b, <1>e
    <2> HIDE DEF msgs
    <2>3. MuInv' /\ (Starting' <=> Starting)
      <3>1. \A e : e \in calls' /\ AtWork(e) <=> e \in calls /\ AtWork(e)
        BY <2>1 DEF AtWork
      <3> QED BY <1>a, <2>1, <3>1, MuKept
    <2>4. LoginInv'
      BY <1>q, <2>1, <2>2
    <2>5. ConnectingInv' /\ ButtonComesBack' /\ (toggling' => OnDashboard')
      <3>1. \A e \in calls : e.kind = "Toggle" => e \in calls'
        BY <2>1
      <3> QED BY <1>a, <2>1, <2>2, <2>3, <3>1, ButtonServed
    <2> QED BY <1>p, <2>3, <2>4, <2>5
  <1>4. CASE RefuseToggle(c)
    <2> DEFINE msgs == <<Reply("toggled", c)>>
    <2>1. /\ c.kind = "Toggle" /\ c.phase = "called" /\ queue' = queue \o msgs
          /\ calls' = calls \ {c} /\ UNCHANGED window
          /\ toggleMu' = toggleMu /\ app' = app
      BY <1>4 DEF RefuseToggle, Answer, goApp
    <2>2. /\ msgs \in Seq(Messages) /\ 1 \in DOMAIN msgs
          /\ msgs[1].ev = "toggled" /\ msgs[1].mount = c.mount
          /\ \A k \in DOMAIN msgs : msgs[k].ev = "toggled"
      BY <1>b, <1>d
    <2> HIDE DEF msgs
    <2>3. MuInv' /\ (Starting' <=> Starting)
      <3>1. \A e : e \in calls' /\ AtWork(e) <=> e \in calls /\ AtWork(e)
        BY <2>1 DEF AtWork
      <3> QED BY <1>a, <2>1, <3>1, MuKept
    <2>4. LoginInv'
      BY <1>q, <2>1, <2>2
    <2>5. ConnectingInv' /\ ButtonComesBack' /\ (toggling' => OnDashboard')
      <3>1. \A e \in calls : e.kind = "Toggle" => e \in calls' \/ e = c
        BY <2>1
      <3> QED BY <1>a, <2>1, <2>2, <2>3, <3>1, ButtonServed
    <2> QED BY <1>p, <2>3, <2>4, <2>5
  <1>5. CASE StopToggle(c)
    <2> DEFINE d == [c EXCEPT !.phase = "stopping"]
    <2>1. /\ c.kind = "Toggle" /\ c.phase = "called" /\ queue' = queue \o none
          /\ calls' = (calls \ {c}) \cup {d} /\ UNCHANGED window
          /\ d.kind = "Toggle" /\ d.mount = c.mount /\ d.phase = "stopping"
          /\ ~toggleMu /\ toggleMu' /\ ~app'.active
      BY <1>5, <1>a, Advanced DEF StopToggle, BeginStop, Advance, TypeOK, Status
    <2> HIDE DEF d
    <2>2. \A e \in calls : ~AtWork(e) /\ e.phase # "starting"
      BY <1>a, <2>1, StartingIsAtWork DEF MuInv
    <2>3. MuInv'
      BY <2>1, <2>2 DEF MuInv, AtWork, Starting
    <2>4. LoginInv'
      BY <1>a, <1>q, <2>1
    <2>5. ConnectingInv' /\ ButtonComesBack' /\ (toggling' => OnDashboard')
      <3>1. \A e \in calls : e.kind = "Toggle" =>
              \E f \in calls' : f.kind = "Toggle" /\ f.mount = e.mount
        BY <2>1
      <3>2. ~Starting
        BY <2>2 DEF Starting
      <3> QED BY <1>a, <2>1, <3>1, <3>2, ButtonServed
    <2> QED BY <1>p, <2>3, <2>4, <2>5
  <1>6. CASE EndToggle(c)
    <2> DEFINE msgs == <<Signal("ended"), Reply("toggled", c)>>
    <2>1. /\ c.kind = "Toggle" /\ c.phase = "stopping" /\ queue' = queue \o msgs
          /\ calls' = calls \ {c} /\ UNCHANGED window
          /\ ~toggleMu'
      BY <1>6 DEF EndToggle, Answer
    <2>2. /\ msgs \in Seq(Messages) /\ 2 \in DOMAIN msgs
          /\ msgs[2].ev = "toggled" /\ msgs[2].mount = c.mount
          /\ \A k \in DOMAIN msgs : msgs[k].ev \in {"ended", "toggled"}
      BY <1>b, <1>e
    <2> HIDE DEF msgs
    <2>3. \A e \in calls : AtWork(e) => e = c
      BY <1>a, <2>1 DEF MuInv, AtWork
    <2>4. ~Starting /\ ~Starting'
      BY <1>a, <2>1, <2>3, StartingIsAtWork DEF Starting
    <2>5. MuInv'
      BY <2>1, <2>3, <2>4 DEF MuInv
    <2>6. LoginInv'
      BY <1>q, <2>1, <2>2
    <2>7. ConnectingInv' /\ ButtonComesBack' /\ (toggling' => OnDashboard')
      <3>1. \A e \in calls : e.kind = "Toggle" => e \in calls' \/ e = c
        BY <2>1
      <3> QED BY <1>a, <2>1, <2>2, <2>4, <3>1, ButtonServed
    <2> QED BY <1>p, <2>5, <2>6, <2>7
  <1>7. CASE StartToggle(c)
    <2> DEFINE d == [c EXCEPT !.phase = "starting"]
               msgs == <<Signal("connecting")>>
    <2>1. /\ c.kind = "Toggle" /\ c.phase = "called"
          /\ calls' = (calls \ {c}) \cup {d} /\ UNCHANGED window
          /\ d.kind = "Toggle" /\ d.mount = c.mount /\ d.phase = "starting"
          /\ ~toggleMu /\ toggleMu' /\ ~app.active /\ app' = app
      BY <1>7, <1>a, Advanced DEF StartToggle, Advance
    <2>2. /\ msgs \in Seq(Messages) /\ queue' = queue \o msgs
          /\ \A k \in DOMAIN msgs : msgs[k].ev = "connecting"
      BY <1>7, <1>b, <1>d DEF StartToggle
    <2> HIDE DEF d, msgs
    <2>3. \A e \in calls : ~AtWork(e)
      BY <1>a, <2>1 DEF MuInv
    <2>4. Starting'
      BY <2>1 DEF Starting
    <2>5. MuInv'
      BY <2>1, <2>3 DEF MuInv, AtWork
    <2>6. LoginInv'
      BY <1>q, <2>1, <2>2
    <2>7. ConnectingInv' /\ ButtonComesBack' /\ (toggling' => OnDashboard')
      <3>1. \A e \in calls : e.kind = "Toggle" =>
              \E f \in calls' : f.kind = "Toggle" /\ f.mount = e.mount
        BY <2>1
      <3> QED BY <1>a, <2>1, <2>2, <2>4, <3>1, ButtonServed
    <2> QED BY <1>p, <2>5, <2>6, <2>7
  <1>8. CASE StartFails(c) \/ StartSucceeds(c)
    <2> DEFINE msgs == <<Signal("settled"), Reply("toggled", c)>>
    <2>1. /\ c.kind = "Toggle" /\ c.phase = "starting" /\ queue' = queue \o msgs
          /\ calls' = calls \ {c} /\ UNCHANGED window
          /\ ~toggleMu'
      BY <1>8 DEF StartFails, StartSucceeds, Answer
    <2>2. /\ msgs \in Seq(Messages) /\ 1 \in DOMAIN msgs /\ 2 \in DOMAIN msgs
          /\ msgs[1].ev = "settled"
          /\ msgs[2].ev = "toggled" /\ msgs[2].mount = c.mount
          /\ \A k \in DOMAIN msgs : msgs[k].ev \in {"settled", "toggled"}
      BY <1>b, <1>e
    <2> HIDE DEF msgs
    <2>3. \A e \in calls : AtWork(e) => e = c
      BY <1>a, <2>1 DEF MuInv, AtWork
    <2>4. ~Starting'
      BY <1>a, <2>1, <2>3, StartingIsAtWork DEF Starting
    <2>5. MuInv'
      BY <2>1, <2>3, <2>4 DEF MuInv
    <2>6. LoginInv'
      BY <1>q, <2>1, <2>2
    <2>7. ConnectingInv' /\ ButtonComesBack' /\ (toggling' => OnDashboard')
      <3>1. \A e \in calls : e.kind = "Toggle" => e \in calls' \/ e = c
        BY <2>1
      <3> QED BY <1>a, <2>1, <2>2, <3>1, ButtonServed
    <2> QED BY <1>p, <2>5, <2>6, <2>7
  <1>9. CASE ServeChoice(c) \/ ServeRefresh(c)
    <2>1. PICK msgs \in Seq(Messages) :
            /\ queue' = queue \o msgs
            /\ \A k \in DOMAIN msgs : msgs[k].ev = "undo"
      <3>1. CASE queue' = queue
        BY <1>a, <3>1
      <3>2. CASE queue' = queue \o <<Undo(c)>> /\ c.kind = "Set"
        <4> DEFINE msgs == <<Undo(c)>>
        <4>1. msgs \in Seq(Messages) /\ \A k \in DOMAIN msgs : msgs[k].ev = "undo"
          BY <1>b, <1>d, <3>2
        <4> QED BY <3>2, <4>1
      <3>3. queue \o <<>> = queue
        BY <1>a
      <3> QED BY <1>9, <3>1, <3>2, <3>3 DEF ServeChoice, ServeRefresh, Answer
    <2>2. /\ c.kind \in {"Set", "RefreshServerRegions"} /\ calls' = calls \ {c}
          /\ toggleMu' = toggleMu /\ UNCHANGED window
      BY <1>9 DEF ServeChoice, ServeRefresh, Answer
    <2>3. app'.active => app.active
      <3>1. CASE ServeChoice(c)
        <4>1. c.field \in Settings
          BY <3>1, <1>a, AnswerTypes DEF ServeChoice
        <4> QED BY <3>1, <4>1, <1>a DEF ServeChoice, Settings, TypeOK, Status
      <3>2. CASE ServeRefresh(c)
        BY <3>2, <1>a DEF ServeRefresh, TypeOK, Status
      <3> QED BY <1>9, <3>1, <3>2
    <2>4. MuInv' /\ (Starting' <=> Starting)
      <3>1. \A e : e \in calls' /\ AtWork(e) <=> e \in calls /\ AtWork(e)
        BY <2>2 DEF AtWork
      <3> QED BY <1>a, <2>2, <2>3, <3>1, MuKept
    <2>5. LoginInv'
      BY <1>q, <2>1, <2>2
    <2>6. ConnectingInv' /\ ButtonComesBack' /\ (toggling' => OnDashboard')
      <3>1. \A e \in calls : e.kind = "Toggle" => e \in calls'
        BY <2>2
      <3> QED BY <1>a, <2>1, <2>2, <2>4, <3>1, ButtonServed
    <2> QED BY <1>p, <2>4, <2>5, <2>6
  <1> QED BY <1>1, <1>2, <1>3, <1>4, <1>5, <1>6, <1>7, <1>8, <1>9 DEF Serve

(* Nothing is emitted: what a click or a screen does, and a report on its  *)
(* way, leave what the button waits for.                                   *)
LEMMA WindowButton ==
  ASSUME IInv, IInv', ButtonInv,
         \/ RuntimeStarts \/ CheckFails \/ CheckAnswers
         \/ SubmitLogin \/ ClickLogout \/ ClickToggle
         \/ \E f \in Choosable : \E v \in Values(f) : Choose(f, v)
         \/ Tick
  PROVE  ButtonInv'
  <1>a. /\ TypeOK /\ TypeOK' /\ MuInv /\ LoginInv /\ ConnectingInv
        /\ (toggling => OnDashboard) /\ ButtonComesBack
    BY DEF IInv, ButtonInv
  <1>b. queue' = queue /\ UNCHANGED goApp /\ calls \subseteq calls'
    BY DEF RuntimeStarts, CheckFails, CheckAnswers, SubmitLogin, ClickLogout,
           ClickToggle, Choose, Tick, Mount
  <1>c. \A d \in calls' \ calls : d.phase = "called"
    BY DEF RuntimeStarts, CheckFails, CheckAnswers, SubmitLogin, ClickLogout,
           ClickToggle, Choose, Tick, Mount, Call, LogoutCall, ChoiceCall
  <1>1. MuInv' /\ (Starting' <=> Starting)
    <2>1. \A d : d \in calls' /\ AtWork(d) <=> d \in calls /\ AtWork(d)
      BY <1>b, <1>c DEF AtWork
    <2> QED BY <1>a, <1>b, <2>1, MuKept DEF goApp
  <1>2. SignInAnswers' = SignInAnswers
    BY <1>b DEF SignInAnswers
  <1>3. LoginInv'
    <2>1. CASE SubmitLogin
      <3>1. /\ screen = "login" /\ screen' = "login" /\ ~signingIn
            /\ signingIn' = ready
            /\ \/ ~ready /\ calls' = calls
               \/ ready /\ calls' = calls \cup {Call("Login")}
        BY <2>1 DEF SubmitLogin
      <3>2. SignInAnswers = {} /\ \A d \in calls : d.kind # "Login"
        BY <1>a, <3>1 DEF LoginInv
      <3>3. CASE ~ready
        BY <1>2, <3>1, <3>2, <3>3 DEF LoginInv
      <3>4. CASE ready
        <4>1. \A d \in calls' : d.kind = "Login" => d = Call("Login")
          BY <3>1, <3>2, <3>4
        <4> QED BY <1>2, <3>1, <3>2, <3>4, <4>1 DEF LoginInv
      <3> QED BY <3>3, <3>4
    <2>2. CASE ~SubmitLogin
      <3>1. /\ \A d \in calls' : d.kind = "Login" => d \in calls
            /\ signingIn' = signingIn
        BY <2>2 DEF RuntimeStarts, CheckFails, CheckAnswers, ClickLogout,
               ClickToggle, Choose, Tick, Mount, Call, LogoutCall, ChoiceCall, window
      <3>2. screen = "login" => screen' = screen
        BY <2>2 DEF RuntimeStarts, CheckFails, CheckAnswers, ClickLogout,
               ClickToggle, Choose, Tick, Mount, window, OnDashboard
      <3> QED BY <1>a, <1>2, <3>1, <3>2 DEF LoginInv
    <2> QED BY <2>1, <2>2
  <1>4. \A i : SettledFollows(i) => SettledFollows(i)'
    BY <1>b, <1>1 DEF SettledFollows
  <1>5. ConnectingInv'
    BY <1>a, <1>b, <1>4 DEF ConnectingInv
  <1>6. connecting' => connecting
    BY DEF RuntimeStarts, CheckFails, CheckAnswers, SubmitLogin, ClickLogout,
           ClickToggle, Choose, Tick, Mount, window
  <1>7. toggling' => OnDashboard' /\ ToggledOnItsWay'
    <2>1. CASE ClickToggle
      <3>1. /\ OnDashboard /\ screen' = screen /\ mount' = mount
            /\ Call("Toggle") \in calls'
        BY <2>1 DEF ClickToggle
      <3> QED BY <3>1 DEF ToggledOnItsWay, Call, OnDashboard
    <2>2. CASE CheckAnswers
      BY <1>a, <2>2 DEF CheckAnswers, OnDashboard
    <2>3. CASE ~ClickToggle /\ ~CheckAnswers
      <3>1. toggling' = toggling /\ mount' = mount /\ (OnDashboard => OnDashboard')
        BY <2>3 DEF RuntimeStarts, CheckFails, SubmitLogin, ClickLogout, Choose,
                    Tick, window, OnDashboard
      <3>2. ToggledOnItsWay => ToggledOnItsWay'
        BY <1>b, <3>1 DEF ToggledOnItsWay
      <3> QED BY <1>a, <3>1, <3>2 DEF ButtonComesBack
    <2> QED BY <2>1, <2>2, <2>3
  <1> QED BY <1>a, <1>1, <1>3, <1>4, <1>5, <1>6, <1>7 DEF ButtonInv, ButtonComesBack

(* A report that is emitted is none of the messages the button waits for.  *)
LEMMA EmitButton ==
  ASSUME IInv, IInv', ButtonInv, NEW ev \in Reports, Emit(ev)
  PROVE  ButtonInv'
  <1>a. TypeOK /\ TypeOK' /\ MuInv /\ LoginInv
    BY DEF IInv, ButtonInv
  <1> PICK m \in built : m.ev = ev /\ queue' = Append(queue, m)
    BY DEF Emit
  <1>1. UNCHANGED <<window, calls, token, app, toggleMu>>
    BY DEF Emit
  <1>2. m \in Messages /\ m.ev \in Reports /\ queue \in Seq(Messages)
    BY <1>a DEF TypeOK, Messages
  <1> DEFINE msgs == <<m>>
  <1>3. /\ msgs \in Seq(Messages) /\ queue' = queue \o msgs
        /\ \A k \in DOMAIN msgs : msgs[k] = m
    BY <1>2
  <1> HIDE DEF msgs
  <1>4. MuInv' /\ (Starting' <=> Starting)
    BY <1>1 DEF ButtonInv, MuInv, Starting
  <1>5. LoginInv'
    BY <1>a, <1>1, <1>2, <1>3, LoginKept DEF window, Reports
  <1>6. ConnectingInv' /\ ButtonComesBack' /\ (toggling' => OnDashboard')
    BY <1>a, <1>1, <1>2, <1>3, <1>4, ButtonServed DEF Reports
  <1> QED BY <1>4, <1>5, <1>6 DEF ButtonInv

(* What the window takes off the queue moves the rest up, and the button   *)
(* is enabled by the message it waited for, or the dashboard is gone.      *)
LEMMA DeliverButton ==
  ASSUME IInv, IInv', ButtonInv, Deliver
  PROVE  ButtonInv'
  <1>a. /\ TypeOK /\ TypeOK' /\ MuInv /\ LoginInv /\ ConnectingInv
        /\ (toggling => OnDashboard) /\ ButtonComesBack
    BY DEF IInv, ButtonInv
  <1>b. queue # <<>> /\ queue' = Tail(queue) /\ UNCHANGED goApp
    BY DEF Deliver, OnStatus, OnReport, OnConnecting, OnEnded, OnToggled, OnUndo,
           OnWelcome, OnDenied, OnBye, Told
  <1>c. /\ 1 \in DOMAIN queue /\ Head(queue) = queue[1]
        /\ \A i \in DOMAIN queue' : i + 1 \in DOMAIN queue /\ queue'[i] = queue[i + 1]
        /\ \A j \in DOMAIN queue : j > 1 => /\ j - 1 \in DOMAIN queue'
                                            /\ queue'[j - 1] = queue[j]
        /\ \A i \in DOMAIN queue : i \in Nat /\ i >= 1
        /\ \A i \in DOMAIN queue' : i \in Nat /\ i >= 1
    <2>1. queue \in Seq(Messages) /\ queue' \in Seq(Messages)
      BY <1>a DEF TypeOK
    <2>2. \A i \in DOMAIN queue' : i \in Nat /\ i >= 1
      BY <2>1
    <2> QED BY <1>b, <2>1, <2>2, AfterTail
  <1>d. calls \subseteq calls' /\ \A d \in calls' \ calls :
          d.phase = "called" /\ d.kind = "RefreshServerRegions"
    BY DEF Deliver, OnStatus, OnReport, OnConnecting, OnEnded, OnToggled, OnUndo,
           OnWelcome, OnDenied, OnBye, Mount, Call
  <1>1. MuInv' /\ (Starting' <=> Starting)
    <2>1. \A d : d \in calls' /\ AtWork(d) <=> d \in calls /\ AtWork(d)
      BY <1>d DEF AtWork
    <2> QED BY <1>a, <1>b, <2>1, MuKept DEF goApp
  <1>2. LoginInv'
    <2>1. \A i \in SignInAnswers' : i + 1 \in SignInAnswers
      BY <1>c DEF SignInAnswers
    <2>2. \A i, j \in SignInAnswers' : i = j
      <3> SUFFICES ASSUME NEW i \in SignInAnswers', NEW j \in SignInAnswers'
                   PROVE  i = j
        OBVIOUS
      <3>1. i + 1 = j + 1
        BY <1>a, <2>1 DEF LoginInv
      <3>2. i \in Nat /\ j \in Nat
        BY <1>c DEF SignInAnswers
      <3> QED BY <3>1, <3>2
    <2>3. \A d \in calls' : d.kind = "Login" => d \in calls
      BY <1>d
    <2>4. CASE Head(queue).ev \in {"welcome", "denied"}
      <3>1. 1 \in SignInAnswers
        BY <1>c, <2>4 DEF SignInAnswers
      <3>2. SignInAnswers' = {}
        <4> SUFFICES ASSUME NEW i \in SignInAnswers' PROVE FALSE
          OBVIOUS
        <4>1. i + 1 = 1
          BY <1>a, <2>1, <3>1 DEF LoginInv
        <4>2. i \in Nat /\ i >= 1
          BY <1>c DEF SignInAnswers
        <4> QED BY <4>1, <4>2
      <3>3. \A d \in calls' : d.kind # "Login"
        BY <1>a, <2>3, <3>1 DEF LoginInv
      <3>4. ~signingIn'
        BY <2>4 DEF Deliver, OnStatus, OnReport, OnConnecting, OnEnded, OnToggled,
               OnUndo, OnWelcome, OnDenied, OnBye, Told
      <3> QED BY <3>2, <3>3, <3>4 DEF LoginInv
    <2>5. CASE Head(queue).ev \notin {"welcome", "denied"}
      <3>1. signingIn' = signingIn /\ (screen = "login" => screen' = screen)
        BY <2>5 DEF Deliver, OnStatus, OnReport, OnConnecting, OnEnded, OnToggled,
               OnUndo, OnWelcome, OnDenied, OnBye, Told, Unmount
      <3>2. SignInAnswers = {} => SignInAnswers' = {}
        BY <2>1
      <3> QED BY <1>a, <2>2, <2>3, <3>1, <3>2 DEF LoginInv
    <2> QED BY <2>4, <2>5
  <1>3. \A i \in DOMAIN queue' : SettledFollows(i + 1) => SettledFollows(i)'
    <2> SUFFICES ASSUME NEW i \in DOMAIN queue', SettledFollows(i + 1), ~Starting
                 PROVE  SettledFollows(i)'
      BY <1>1 DEF SettledFollows
    <2> PICK j \in DOMAIN queue : j > i + 1 /\ queue[j].ev = "settled"
      BY DEF SettledFollows
    <2>1. j - 1 \in DOMAIN queue' /\ j - 1 > i /\ queue'[j - 1].ev = "settled"
      BY <1>c
    <2> QED BY <2>1 DEF SettledFollows
  <1>4. ConnectingInv'
    BY <1>a, <1>c, <1>3 DEF ConnectingInv
  <1>5. connecting' => SettledFollows(0)'
    <2> SUFFICES ASSUME connecting', ~Starting PROVE SettledFollows(0)'
      BY <1>1 DEF SettledFollows
    <2>1. PICK j \in DOMAIN queue : j > 1 /\ queue[j].ev = "settled"
      <3>1. CASE Head(queue).ev = "connecting"
        <4>1. SettledFollows(1)
          BY <1>a, <1>c, <3>1 DEF ConnectingInv
        <4> QED BY <4>1 DEF SettledFollows
      <3>2. CASE Head(queue).ev # "connecting"
        <4>1. connecting /\ Head(queue).ev # "settled"
          BY <3>2 DEF Deliver, OnStatus, OnReport, OnConnecting, OnEnded, OnToggled,
                 OnUndo, OnWelcome, OnDenied, OnBye, Told, Unmount
        <4>2. PICK j \in DOMAIN queue : j > 0 /\ queue[j].ev = "settled"
          BY <1>a, <4>1 DEF ButtonComesBack, SettledFollows
        <4>3. j > 1
          BY <1>c, <4>1, <4>2
        <4> QED BY <4>2, <4>3
      <3> QED BY <3>1, <3>2
    <2>2. j - 1 \in DOMAIN queue' /\ j - 1 > 0 /\ queue'[j - 1].ev = "settled"
      BY <1>c, <2>1
    <2> QED BY <2>2 DEF SettledFollows
  <1>6. toggling' => OnDashboard' /\ ToggledOnItsWay'
    <2> SUFFICES ASSUME toggling' PROVE OnDashboard' /\ ToggledOnItsWay'
      OBVIOUS
    <2>1. toggling /\ OnDashboard
      BY <1>a DEF Deliver, OnStatus, OnReport, OnConnecting, OnEnded, OnToggled,
             OnUndo, OnWelcome, OnDenied, OnBye, Unmount
    <2>2. Head(queue).ev # "welcome"
      <3>1. ~signingIn
        BY <1>a, <2>1 DEF LoginInv, OnDashboard
      <3> QED BY <1>a, <1>c, <3>1 DEF LoginInv, SignInAnswers
    <2>3. mount' = mount /\ screen' = screen
      BY <2>2 DEF Deliver, OnStatus, OnReport, OnConnecting, OnEnded, OnToggled,
             OnUndo, OnWelcome, OnDenied, OnBye, Told, Unmount
    <2>4. Head(queue).ev = "toggled" => Head(queue).mount # mount
      BY <2>1 DEF Deliver, OnStatus, OnReport, OnConnecting, OnEnded, OnToggled,
             OnUndo, OnWelcome, OnDenied, OnBye, Told, ForMe
    <2>5. ToggledOnItsWay'
      <3>1. CASE \E c \in calls : c.kind = "Toggle" /\ c.mount = mount
        BY <1>d, <2>3, <3>1 DEF ToggledOnItsWay
      <3>2. CASE \E i \in DOMAIN queue : queue[i].ev = "toggled" /\ queue[i].mount = mount
        <4> PICK i \in DOMAIN queue : queue[i].ev = "toggled" /\ queue[i].mount = mount
          BY <3>2
        <4>1. i > 1
          BY <1>c, <2>4
        <4>2. /\ i - 1 \in DOMAIN queue' /\ queue'[i - 1].ev = "toggled"
              /\ queue'[i - 1].mount = mount'
          BY <1>c, <2>3, <4>1
        <4> QED BY <4>2 DEF ToggledOnItsWay
      <3> QED BY <1>a, <2>1, <3>1, <3>2 DEF ButtonComesBack, ToggledOnItsWay
    <2> QED BY <2>1, <2>3, <2>5 DEF OnDashboard
  <1> QED BY <1>1, <1>2, <1>4, <1>5, <1>6 DEF ButtonInv, ButtonComesBack

(* Every step keeps the button's invariant.                                *)
LEMMA ButtonNext == IInv /\ IInv' /\ ButtonInv /\ [Next]_vars => ButtonInv'
  <1> SUFFICES ASSUME IInv, IInv', ButtonInv, [Next]_vars PROVE ButtonInv'
    OBVIOUS
  <1>1. CASE \E c \in calls : Serve(c)
    BY <1>1, ServeButton
  <1>2. CASE \E ev \in Reports : Emit(ev)
    BY <1>2, EmitButton
  <1>3. CASE Deliver
    BY <1>3, DeliverButton
  <1>4. CASE \/ RuntimeStarts \/ CheckFails \/ CheckAnswers
             \/ SubmitLogin \/ ClickLogout \/ ClickToggle
             \/ \E f \in Choosable : \E v \in Values(f) : Choose(f, v)
             \/ Tick
    BY <1>4, WindowButton
  <1>5. CASE UNCHANGED vars
    <2>1. UNCHANGED <<window, calls, goApp, built, queue>>
      BY <1>5 DEF vars
    <2> QED BY <2>1
        DEF ButtonInv, MuInv, Starting, LoginInv, SignInAnswers, ConnectingInv,
            SettledFollows, ButtonComesBack, ToggledOnItsWay, OnDashboard, window,
            goApp
  <1> QED BY <1>1, <1>2, <1>3, <1>4, <1>5 DEF Next

(* A fresh app has nothing to wait for.                                    *)
LEMMA ButtonInit == Init => ButtonInv
  BY DEF Init, ButtonInv, MuInv, Starting, LoginInv, SignInAnswers, ConnectingInv,
         ButtonComesBack, AtWork

(* The invariant of the button, in every behaviour.                        *)
LEMMA ButtonInvariant == Spec => []ButtonInv
  BY ButtonInit, ButtonNext, WindowInvariant, PTL DEF Spec

(* The power button never waits for what will not come: the answer that    *)
(* enables it is on its way to this dashboard, however calls cross and     *)
(* however often one signs out and in.                                     *)
THEOREM ButtonComesBackHolds == Spec => []ButtonComesBack
  <1>1. ButtonInv => ButtonComesBack
    BY DEF ButtonInv
  <1> QED BY <1>1, ButtonInvariant, PTL

-----------------------------------------------------------------------------
(***************************************************************************)
(* The app the window talks to leads the life that AppLife tells.          *)
(***************************************************************************)

(* Both are truth values, before a step and after it.                      *)
LEMMA Flags == /\ Starting \in BOOLEAN /\ Starting' \in BOOLEAN
               /\ Stopping \in BOOLEAN /\ Stopping' \in BOOLEAN
  BY DEF Starting, Stopping

(* Serving a call is a step of that life, or none of its business.         *)
LEMMA ServeLife ==
  ASSUME IInv, IInv', ButtonInv, ButtonInv', NEW c \in calls, Serve(c)
  PROVE  Life!Next \/ UNCHANGED Life!vars
  <1>a. TypeOK /\ TypeOK' /\ MuInv /\ MuInv'
    BY DEF IInv, ButtonInv
  <1>b. app \in Status /\ app' \in Status /\ token \in BOOLEAN
    BY <1>a DEF TypeOK
  <1>c. Starting <=> \E d \in calls : AtWork(d) /\ d.phase = "starting"
    BY <1>a, StartingIsAtWork DEF Starting
  <1>1. CASE ServeLogin(c)
    <2>1. c.phase = "called"
      BY <1>1, <1>a, AdvanceType DEF ServeLogin
    <2>2. /\ Starting' <=> Starting
          /\ Stopping' <=> Stopping
          /\ app' = app /\ token' \in {token, TRUE}
      BY <1>1, <2>1 DEF ServeLogin, Answer, Starting, Stopping
    <2> QED BY <2>2, Flags DEF Life!Next, Life!SignIn, Life!vars
  <1>2. CASE StopLogout(c) \/ StopToggle(c)
    <2>1. c.phase = "called"
      BY <1>2 DEF StopLogout, StopToggle
    <2> DEFINE d == [c EXCEPT !.phase = "stopping"]
    <2>2. d.phase = "stopping"
      BY <1>a, AdvanceType
    <2>3. calls' = (calls \ {c}) \cup {d}
      BY <1>2 DEF StopLogout, StopToggle, BeginStop, Advance
    <2> HIDE DEF d
    <2>4. /\ Starting' <=> Starting
          /\ Stopping'
          /\ ~app'.active /\ token' = token
      BY <1>2, <1>b, <2>1, <2>2, <2>3
      DEF StopLogout, StopToggle, BeginStop, Starting, Stopping, Status
    <2> QED BY <2>4, Flags, <1>b DEF Life!Next, Life!StopBegins, Status
  <1>3. CASE EndLogout(c) \/ EndToggle(c)
    <2>1. c.phase = "stopping" /\ calls' = calls \ {c}
      BY <1>3 DEF EndLogout, EndToggle, Answer
    <2>2. /\ Starting' <=> Starting
          /\ Stopping
          /\ app' = app /\ token' \in {token, FALSE}
      BY <1>3, <2>1 DEF EndLogout, EndToggle, Starting, Stopping
    <2> QED BY <2>2, Flags DEF Life!Next, Life!StopEnds
  <1>4. CASE StartToggle(c)
    <2> DEFINE d == [c EXCEPT !.phase = "starting"]
    <2>1. /\ c.phase = "called" /\ calls' = (calls \ {c}) \cup {d}
          /\ ~toggleMu /\ ~app.active /\ token /\ app' = app /\ token' = token
      BY <1>4 DEF StartToggle, Advance
    <2>2. d.phase = "starting"
      BY <1>4, <1>a, Advanced DEF StartToggle
    <2> HIDE DEF d
    <2>3. ~Starting /\ Starting' /\ (Stopping' <=> Stopping)
      BY <1>a, <1>c, <2>1, <2>2 DEF MuInv, Starting, Stopping
    <2> QED BY <2>1, <2>3, Flags DEF Life!Next, Life!StartBegins
  <1>5. CASE StartFails(c) \/ StartSucceeds(c)
    <2>1. /\ c.kind = "Toggle" /\ c.phase = "starting" /\ calls' = calls \ {c}
          /\ ~toggleMu' /\ token' = token
      BY <1>5 DEF StartFails, StartSucceeds, Answer
    <2>2. Starting /\ ~app.active /\ (Stopping' <=> Stopping)
      BY <1>a, <2>1 DEF Starting, Stopping, MuInv
    <2>3. ~Starting'
      <3>1. \A d \in calls' : ~AtWork(d)
        BY <1>a, <2>1 DEF MuInv
      <3>2. \A d \in calls' : d.phase = "starting" => AtWork(d)
        BY <1>a DEF TypeOK, Calls, AtWork
      <3> QED BY <3>1, <3>2 DEF Starting
    <2> QED BY <1>b, <2>1, <2>2, <2>3, Flags DEF Life!Next, Life!StartEnds, Status
  <1>6. CASE RefuseToggle(c) \/ ServeChoice(c) \/ ServeRefresh(c)
    <2>1. c.phase = "called" /\ calls' = calls \ {c} /\ token' = token
      BY <1>6, <1>a, AdvanceType
      DEF RefuseToggle, ServeChoice, ServeRefresh, Answer, goApp
    <2>2. app'.active = app.active
      <3>1. CASE ServeChoice(c)
        <4>1. c.field \in Settings
          BY <3>1, <1>a, AnswerTypes DEF ServeChoice
        <4> QED BY <3>1, <4>1, <1>b DEF ServeChoice, Settings, Status
      <3>2. CASE RefuseToggle(c) \/ ServeRefresh(c)
        BY <3>2, <1>b DEF RefuseToggle, ServeRefresh, goApp, Status
      <3> QED BY <1>6, <3>1, <3>2
    <2>3. (Starting' <=> Starting) /\ (Stopping' <=> Stopping)
      BY <2>1 DEF Starting, Stopping
    <2> QED BY <2>1, <2>2, <2>3, Flags DEF Life!vars
  <1> QED BY <1>1, <1>2, <1>3, <1>4, <1>5, <1>6 DEF Serve

(* What the window and the user do, and what is emitted, is none of its    *)
(* steps: a call that is made is not yet served.                           *)
LEMMA OthersLife ==
  ASSUME \/ RuntimeStarts \/ CheckFails \/ CheckAnswers
         \/ SubmitLogin \/ ClickLogout \/ ClickToggle
         \/ \E f \in Choosable : \E v \in Values(f) : Choose(f, v)
         \/ Tick
         \/ \E ev \in Reports : Emit(ev)
         \/ Deliver
         \/ UNCHANGED vars
  PROVE  UNCHANGED Life!vars
  <1>1. UNCHANGED <<token, app>>
    BY DEF RuntimeStarts, CheckFails, CheckAnswers, SubmitLogin, ClickLogout,
           ClickToggle, Choose, Tick, Emit, Deliver, OnStatus, OnReport,
           OnConnecting, OnEnded, OnToggled, OnUndo, OnWelcome, OnDenied, OnBye,
           goApp, vars
  <1>2. calls \subseteq calls' /\ \A d \in calls' \ calls : d.phase = "called"
    BY DEF RuntimeStarts, CheckFails, CheckAnswers, SubmitLogin, ClickLogout,
           ClickToggle, Choose, Tick, Emit, Deliver, OnStatus, OnReport,
           OnConnecting, OnEnded, OnToggled, OnUndo, OnWelcome, OnDenied, OnBye,
           Mount, Call, LogoutCall, ChoiceCall, vars
  <1>3. (Starting' <=> Starting) /\ (Stopping' <=> Stopping)
    BY <1>2 DEF Starting, Stopping
  <1> QED BY <1>1, <1>3, Flags DEF Life!vars

(* What the window sees of the app is the life of one connection: attempts *)
(* never overlap, nothing comes up but from one, and one is signed out by  *)
(* a stop only, in whatever order the calls are served.                    *)
THEOREM ImplementsAppLife == Spec => IsAppLife
  <1>1. Init => Life!Init
    BY DEF Init, Life!Init, Starting, Stopping, EmptyStatus
  <1>2. IInv /\ IInv' /\ ButtonInv /\ ButtonInv' /\ [Next]_vars => [Life!Next]_(Life!vars)
    BY ServeLife, OthersLife DEF Next
  <1>3. IsAppLife <=> Life!Init /\ [][Life!Next]_(Life!vars)
    BY DEF IsAppLife, Life!Spec
  <1> QED BY <1>1, <1>2, <1>3, WindowInvariant, ButtonInvariant, PTL DEF Spec
=============================================================================

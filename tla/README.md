# AntiJitter, specified

AntiJitter bonds several internet links of one machine (a Starlink dish, a
phone, a 4G stick). Every packet of a WireGuard tunnel is numbered and sent on
some or all links; a server drops the second copies and hands the rest to
WireGuard. This directory specifies the parts of it whose behaviour depends on
the order in which things happen, checks them with TLC and proves what matters
most with TLAPS.

## The system and where it is hard

| Part | State | Operations | What makes it hard |
|---|---|---|---|
| Deduplicator (`server/bonding/protocol.go`) | window bits, `minSeq`, `maxSeen`, `lastPkt` | `IsNew` | reordering across the window, two restart heuristics, uint32 sums |
| Bonding server (`server/main.go`) | client, server and path index, pending reply modes, a `clientState` per client index | a `readLoop` per listener, a reply goroutine, controls, path expiry | listeners race on one client; packets whose index is unknown are filed by address; restarts |
| Windows bonding client (`client/bonding/client.go`) | sockets, `paths`, `active`, `running`, counters, send and receive times | `Start`, main loop, readers, probes, `Stop`, the data cap | `Stop` from another goroutine at any moment of `Start`; the cap; stall detection |
| Windows app (`client/app.go`, `client/tunnel`, `client/iface`) | token, mode, region, active client and tunnel, host routes | `Toggle`, `SetMode`, `SetServerRegion`, `Logout`, monitors | commands during a connect that takes seconds; steps that fail half way |
| Windows interface (`client/frontend/src`) | screen, shown status, `connecting`, `toggling` | calls of the app, its replies, its events | calls served in any order; replies and events that cross; choices shown before they are answered |
| Android client and service (`android/`) | paths, sequencer, reply deduplicator, service state | network callbacks, start and stop commands, loops | callbacks racing suspended steps |
| Device registration (`server/peerapi.go`, backend `config.py`) | peers of WireGuard, device rows | register, revoke, add peer | concurrent allocation of one address, a remote call that fails |
| Subscription and tunnel key (`Subscription.jsx`, `SubscriptionSuccess.jsx`, `subscription.py`, `wireguard.py`, `config.py`) | rows, keys, devices, peers, the page's view | checkout, webhook, provision, configuration | events repeated and reordered; awaits between check and commit; commands and commits that fail half way |
| Web session (`AuthContext.jsx`, `ProtectedRoute.jsx`, `Login.jsx`, `Register.jsx`, `auth.py`) | user, token, stored token, route | sign-in, sign-out, validation, requests, reload | answers that arrive in another session than the one that asked |
| Dashboard page (`useMetrics.js`, `usePingLogger.js`, `main.py`, `ping_log.py`) | socket, events seen, samples buffered and under way | polls, stream, batches | timers that outlive the page; polls that cross, or that two workers answer; batches saved though their request threw |
| Connections tab (`Connections.jsx`, `connections.py`) | cards, scans, toggles | scan, toggle | a scan read before a toggle and answered after it |
| Outages (`starlink_poller.py`, `starlink.py`, `OutageTimeline.jsx`) | open row, `_open_outage`, banner | report, open, close, load | memory and rows that part ways; a memory in each of two workers; reports served at once |
| Public pages (`JitterTest.jsx`, `GamesDatabase.jsx`, `games.py`) | timers, readings; votes, requests | start, ping; vote, request | pings of an earlier test; read-modify-write |
| Electron shell, charts, switch display, deployment | — | — | presentation and I/O |

Who talks to whom: WireGuard sends to the bonding client over loopback; the
client writes copies over UDP to the server's listeners; the server writes to
WireGuard over loopback and routes what it gets back to the paths of the client
that WireGuard's receiver index names. Besides payload, the client sends probes
(echoed, no state) and one reply-mode control per path. The client learns that a
path works only from replies on it; the server learns paths only from packets on
them. The apps fetch their configuration from the backend, which registers their
keys with the server's peer API.

What makes each part correct, in one line each:

- deduplicator: each packet once, no fresh packet lost, whatever the network does;
- server: replies go to their owner and find a path, each packet is written once
  although listeners race, reply modes stay as asked;
- client: what is started can be stopped, nothing is left open, the mobile
  budget is respected;
- client and server together: mobile links rest until the dish stalls, a dead
  dish is survived;
- app and service: what was begun is undone on failure, what is stopped leaves
  nothing behind, whatever else is asked for meanwhile;
- window: it shows no connection that is gone, no dashboard to nobody, and in the
  end what runs;
- web session: the account shown owns the token sent, a token that is accepted is
  kept, one that is not does not linger;
- dashboard page: failovers are announced once, the stream comes back, each sample
  is saved;
- subscription: a configuration handed out works while it is paid for, and no peer
  of the tunnel outlives its subscription, but where a command or a commit failed;
- interfaces and outages: what is shown catches up with what is;
- public pages: a test comes to its end, votes and requests count once;
- device registration: two devices never hold one tunnel address.

## Modules

| Module | Of | Notes |
|---|---|---|
| `Dedup` | `Deduplicator.IsNew` | operators on a record; the time is an argument |
| `Uplink` | client main loop, network, `readLoop` | one session over a network that loses, duplicates, delays, reorders |
| `Delivery` | — | the abstract promise: handed over at most once, turned away only as a second or a late copy |
| `BondServer` | `server/main.go` | all listeners, the reply goroutine, restarts |
| `Relay` | — | what the server promises WireGuard at both ends: data of an answered session once, replies to their own client, one way at least while it is heard |
| `NormalMode` | `sendTargets`, `isStalled`, `registerPath`, `replyTargets` | the loop the two policies close |
| `BondClient` | `Start`, its goroutines, `Stop` | one goroutine's step at a time |
| `HostRoutes` | `client/iface` | operators on a table of routes and metrics |
| `WinApp` | `client/app.go` | `Toggle`, `Logout`, shutdown and the end of the process, one goroutine's step at a time |
| `WinUI` | `client/frontend/src` over `client/app.go` | calls, the queue of replies and events, the window |
| `AppLife` | — | a connection as its user follows it: one attempt at a time, ended by a stop only; `WinApp` and `WinUI` both implement it |
| `WebSession` | `AuthContext.jsx`, the routes, `auth.py` | tokens, answers, pages |
| `Backend` | `antijitter-api.service` | the workers, each with memory of its own |
| `FailoverPolls`, `MetricsStream` | `useMetrics.js`, `main.py` | the two effects of one hook |
| `PingLogger` | `usePingLogger.js`, `ping_log.py` | sample by sample |
| `Billing` | `Subscription.jsx`, `SubscriptionSuccess.jsx`, `subscription.py`, `wireguard.py`, `config.py` | one account, its subscriptions and its devices |
| `JitterTest` | `JitterTest.jsx` | its timers and pings |
| `GameVotes`, `GameForm` | `GamesDatabase.jsx`, `games.py` | the list's votes, and its form |
| `Interfaces` | `Connections.jsx`, `connections.py` | links, scans, toggles |
| `Outages` | `starlink_poller.py`, `starlink.py`, `OutageTimeline.jsx` | from the dish to the banner |
| `WebApp` | the web dashboard | composes the ten above |
| `UplinkProofs`, `BondServerProofs`, `BondClientProofs`, `NormalModeProofs`, `WinAppProofs`, `WinUIProofs`, `BillingProofs`, `WebProofs` | | theorems |
| `MC*` | | instances for TLC |

`Uplink` composes client, network and deduplicator and implements `Delivery`
(`KeepsPromise`). `BondServer` implements `Relay` (`IsRelay`) and relies on `Uplink`: there a session's deduplicator is
the set of packets it accepted, which is what `AtMostOnce` and `NoFreshLoss` say
it amounts to. `NormalMode` keeps of both sides only what selects paths. `WinApp`
works on `HostRoutes`' table; of the bonding client it keeps who has the local
port, `BondClient` being what happens behind it. `WinUI` keeps of the app what the
window is told, and lets `startGameMode` fail or succeed wherever `WinApp` does;
both implement `AppLife` (`IsAppLife` of each), so neither can be in a phase of a
connection that the other has no word for.

`WebApp` puts the web parts side by side. They share nothing but the token of the
session, and losing the token is to a page what leaving it is: its requests are
answered to nobody. So no step of one part enables or disables a step of another,
and a behaviour of the whole follows one part, chosen at its start (`watched`), with
the others at rest. Every behaviour of each part is there, and only interleavings
that no property could tell apart are not.

### How they correspond to the code

*Dedup.* `IsNew` is cut where the code has blank lines: `Refreshed` (idle
restart and `lastPkt`), `Restarted` (sequence gap), `TooOld`, `Slid`, the test of
the bit, `Marked`. Every sum is reduced modulo `SeqMod`.

*Uplink.* `Send` is the client's loop and asks nothing of the network; the network
delivers a copy within `MaxDelay` and before the client is more than `MaxLag` packets
ahead, or never. What these have to be for the protocol to be sound is `Premise`,
apart from the actions.

*BondServer.* `Receive` is `readLoop` up to the client lookup, `RegisterPath`,
`CheckNew` and `WriteToWireGuard` the three calls after it; between any two of
them other goroutines run. What is keyed by an address (`pathIndex`, pending
modes) is only touched by the listener the address sends to, one packet at a time;
so it is grouped with the access next to it. A clientState is never replaced once
created and is named by its WireGuard session. WireGuard is external: it answers
an initiation once, and a client has data to send once it was answered. Probes
and counters change nothing else and are left out.

*BondClient.* `Listen`, `CreatePath`, `AppendPath`, `NoPaths`, `Run` are `Start`
up to its loop, `CheckRunning`, `ReadFails`, `Forward` the loop, `WorkerEnds` the
end of a reader, of the probe loop or of the counters; `Stop` is three actions, for
`running`, the local socket and the paths. The cap is counted in packets instead of
megabytes.

*NormalMode.* A path is silent for an age, which stops counting past the
threshold it is compared with. A path carries copies or it does not.

*HostRoutes.* `Added`, `Deleted` and `Changed` are the three `route` commands;
`Preferred`, `Pinned` and `Restored` the loops over them. A host stands for a
bonding server's address, an adapter for its interface index and gateway.

*WinApp.* What `startGameMode` gathers in local variables and `stopGameMode` grabs
from the fields is one record, a connection, which is in the hands of the goroutine
that works on it or in the app's. `Snapshot` to `Commit` are `startGameMode`,
`UndoRoute` and `Undone` its early returns, `Grab` to `Removed` are `stopGameMode`,
`Report` the return to its caller. The routes are added and removed one `route`
command at a time, since another goroutine's commands can come in between; metrics
are changed in one step, since they are those of the goroutine's own routes only.
Windows may refuse any command on a route (`Flaky`): a route that is not added is not
kept, one that is not changed keeps its metric (`unpinned`), one that is not deleted
stays (`orphans`), and the code goes on in each case. `Report` and `ForgetToken` are
the end of `Logout`, the token last.
`bonding.New` cannot fail on the paths it is given here and has no error branch. The
client is taken to listen within the 100 ms the code allows it; that a `Stop` may
come before is `bond_client_stop`.

*WinUI.* Wails runs each call on a goroutine of its own, so `calls` is a set and any
of it may be served next; replies and events go through one queue. `Serve…`,
`Begin…`, `Start…` and `Tick` are the app's side, up to what it emits; `On…` the handlers of
the window. A report is built under the lock (`Report`, `Tick`) and emitted outside
it (`Emit`), which is what lets a report of a connection come after its end. A
mount of the dashboard has a number, by which replies to an older one are ignored.
`late` records that a report was overtaken.

*WebSession.* A request carries the token of the session that sent it and is
answered in whatever session there is. `Mounted` is the mount of `AuthProvider`,
which `Reload` repeats. The backend's tokens are external: issued, live, expired. Any
protected page may ask; that it does again and again is so on the dashboard only, whose
timers do, and `ExpiredLeaves` is about that page.

*FailoverPolls, MetricsStream.* An answer is a worker and the number of failovers it had
recorded, for each worker lists those of the streams it serves; `News` compares lengths,
as the hook does. Each run of the stream's
effect has a number and a socket that opens another when it closes, the cleanup's
closing included.

*PingLogger.* Samples are numbered. A batch is under way with its samples, whether it
has been saved and by which opening of the page it was sent; the timer's
`splice`, its request and its `catch` are `SendBatch`, `SaveBatch`, `BatchAnswered`
and `PutBack`. The backend may still be at a batch whose request threw: it is then
`thrown`, and saved by `SaveThrown` beside its second copy, or never.

*Billing.* The webhook's handlers are one action for each event type; the deletion, which
awaits between its changes, is three (`HandleDeleted`, `RemoveKey`, and `RemoveDevices`
for the loop over the devices), and `DeletionLost` ends it half way. `provision` is
`ProvisionBegin`, `ProvisionPeer`, `ProvisionCommit`; it fails for want of a key or of an
address (`ProvisionFails`), its `wg set` may fail and nobody looks (in `ProvisionPeer`), its
commit may be lost after it (`ProvisionLost`). A new device of `config.py` goes through the
same steps as the caller `app` (`RegisterBegin`), or takes over the key of the row
(`RegisterTakesOver`). `peers` are those of the interface on the backend's own host, where
`wg set` is run; a device's key is told to the points of presence instead, where nobody
ever removes it: a `wg ... remove` of it here finds nothing. `caller` says where
`downloadConfig` is in its recursion.

*JitterTest.* A ping knows the start of its own test only, and clears whatever timer
the page knows: `Measured(t)` against `timerRef`.

*GameVotes, GameForm.* A click works with the `votedIds` it was rendered with. The
backend reads a row, and commits, in two steps. `handleVote` does not look at `res.ok`, so
an error that can be read as JSON is remembered as a vote (`VoteTold` of a vote not
committed), and a request that throws is not (`VoteLost`).

*Interfaces, Outages.* What a scan has read travels with it. `ip link set up` brings a
link without a carrier no further than down. `_open_outage` is a global of a module, hence
one for each worker (`openOutage[w]`), and each report is handed to some worker
(`WorkerOf`). A report of the poller
is served in steps cut at each commit; the poller gives up on it after three seconds,
so another may come while the first is served. The timeline is mounted with the
Live tab.

The web modules have variables of history: `crossed`, `unheard`,
`refused`, `abandoned`, `hasty`, `unsaid`, `raced`, `racedEntry`, `disturbed`, `failed`,
`mixed`, `jumbled`, `spoiled`, and `late` in `WinUI`, `orphans` and `unpinned` in `WinApp`. Each names one cause, an interleaving or a
failure that the code does not guard against, and its property says that nothing
but this cause makes it false. They are read by properties, and by three bounds of the
model: a behaviour of `Outages` or `FailoverPolls` is not followed further once it is
`spoiled` or `jumbled`, and an account that is `disturbed` gets no further disturbance of
some kinds. So they are where the properties stop, and a reader should know the list of what is
exempt:

- `NoRemnants`: routes left by a process that ended or by a refused deletion
  (`orphans`). Nothing in the code would ever remove them.
- `NoGoneConnectionShown`: a report that was overtaken by the end of its connection (`late`).
- `HandedOverOnce`: packets filed by address, which after a restart are those of
  sessions whose handshake the new process has not seen.
- `SignedInIsSelf`, `LiveSessionStays`: an answer that came in another session (`crossed`).
- `AnnouncedOnce`: answers that crossed or came from two workers (`jumbled`), and lists that are full.
- `EverySampleAccounted`: batches answered with an error, pages left, requests that threw.
- `ConfigWorks`, `AccessEnds`: an account that was `disturbed`, which is two provisions at once, or
  one and a deletion, or an event handled again or after a later one; and a key of which
  something `failed`. Without the latter `AccessEnds` is false: a peer whose removal failed,
  or whose commit was lost after `wg set`, stays.
- `CountedOnce`: two votes or requests of one row or browser at once, and lost answers.
- `BannerClears`, `OpenOutagesHeld`: `spoiled`.

## Runs

| Run | Shows |
|---|---|
| `uplink` | `AtMostOnce`, `NoFreshLoss`, refinement of `Delivery` |
| `uplink_wrap` | the same claim without the premise: **violated** near the end of the uint32 |
| `bond_server` | `ReplyReachesOwner`, `AnswerFindsAWay`, `HandedOverOnce`, `ModeSticks`, refinement of `Relay` |
| `bond_client` | `CleanExit`, `CapHolds`, `StoppedEnds`, `ServesUntilStopped` |
| `bond_client_stop` | "Blocks until Stop() is called": **violated** by a Stop before the loop |
| `bond_client_cap` | the mobile cap spares unmetered paths: **violated** when none is named Starlink |
| `normal_mode` | `MobileRestsUntilStall`, `HeardIsAnswered`, `FailoverWorks` |
| `normal_mode_return` | mobile payload only while the dish seems stalled: **violated** under traffic both ways |
| `win_app` | `NoRemnants`, `PinsKept`, `ConnectingEnds`, refinement of `AppLife` |
| `win_ui` | `NoGoneConnectionShown`, `DashboardMeansSignedIn`, `DashboardCatchesUp`, `BusyEnds` |
| `web_app` | session: `SignedInIsSelf`, `LiveSessionStays`, `ExpiredLeaves`; page: `AnnouncedOnce`, `StreamReturns`, `EverySampleAccounted`, `SamplesArrive`; subscription: `ConfigWorks`, `AccessEnds`, `DownloadEnds`; `TestEnds`, `CountedOnce`, `CardsCatchUp`, `BannerClears`; and `WebIInv`, the parts' types among it |
| `win_app_pins` | pins stay for the whole session: **violated** by a `Toggle` during `Logout`'s stop |

The liveness properties of `web_app` are those of the parts, each asked of the behaviours
that follow its part: `SessionLive` is `ExpiredLeaves` there, `StreamLive` `StreamReturns`,
`PingLive` `SamplesArrive`, `BillingLive` `DownloadEnds`, `JitterLive` `TestEnds`,
`InterfacesLive` `CardsCatchUp`, `OutagesLive` `BannerClears`.

A run has no place for everything that is proved. The inductive invariants outside
the web parts (`IInv` of each module, its `TypeOK` included) and the properties marked *
under Proofs were checked with TLC on these same instances before they were proved, and
are no property of a run now.

### Bounds, and why they are enough

- `uplink`: a window of two numbers and nine packets reach every slide: by one, by
  two, and past the whole window, and let a copy be a whole threshold (8) behind the
  newest packet, one short of what the gap rule takes for a restart. The clock runs to 2
  with an idle timeout of 1, so that the idle restart happens with copies still in flight, and
  copies are duplicated, so that every bit of the window is set, left and set again. At most
  two copies are in flight after a packet was sent (`MaxFlight`). The network is held to
  `Premise`: a copy does not outlive the idle timeout (`MaxDelay`), and is delivered before the
  client is more than the threshold ahead of it (`MaxLag`). Beyond either the code does
  accept a copy again, which a test or a reading of `protocol.go:89` shows as well; what
  the run says is that these limits are enough. The paths are a symmetry; the run has no
  liveness property. The proof covers every window, threshold, number of copies and of packets.
- `uplink_wrap`: modulus 8, so the last numbers of the uint32 are reached.
- `bond_server`: two clients, so that replies could cross; two sessions of one of
  them, so that a rekey leaves an old index behind; two addresses on two
  listeners, so that copies race; four datagrams, one restart, one tick past
  `PathTTL = 0`. Four are enough for initiation, control, and two racing copies.
  Symmetric values are declared as a symmetry; the run has no liveness property.
- `bond_client`: one unmetered and two metered paths, a cap of two packets and five
  packets, so that the cap is passed by two packets at once and by a single one. The
  unmetered one is named Starlink (an adapter can be), so that a client goes on past
  the cap; `bond_client_cap` has the names that adapters usually have. The theorems hold for
  any names.
- `normal_mode`: one dish, one phone, three changes of the network: down, up, and
  the other. Ages saturate, so time itself is unbounded.
- `win_app`: two servers and two adapters, so that paths can use different hosts or
  share one; two starts, so that a connection overlaps its successor; one route on
  which Windows may refuse any command; one exit at any point. Routes and adapters are gone through in
  one fixed order, as the code does. `win_app_pins` needs no exit and no refusal.
- `win_ui`: two regions, the saved one not the default, one setting that is chosen,
  and three clicks, enough for a sign-in, a start and a sign-out, or two sign-outs,
  to cross. Calls under way are bounded by the clicks, reports
  by a ticker that waits until nothing is queued (a bound of the model: a report that
  is built and overtaken is still among its behaviours); one attempt to find the
  runtime instead of fifty.
- `web_app`: each bound is the smallest at which the part's hazard happens. Two
  tokens of two accounts, so that an answer of one session meets the other. A list
  that keeps two of three failovers, so that it fills, in each of two workers, three
  failovers in all; two visits of the page, so that
  the first one's answers, sockets and batches outlive it. Two samples, so that a
  batch is put back before a newer one. One subscription with two rows, so that a
  repeated checkout doubles it; two keys and two devices at most; a download beside the
  success page and an app. Events out of their order come once, and not after the account
  was disturbed; no checkout is told again after a key was generated, and no device is new
  to an account that is disturbed. Two
  tests of two ticks with two pings each, so that an earlier one answers in the
  later. Two games, two clicks and a vote of another browser. Two links, two
  changes. Two
  reports at once for one worker and one for the other, two rows, three turns of the dish. Links are up at
  the start, for the size of the instance; they change during a behaviour.

### Fairness

`BondClient`: each goroutine is scheduled (weak fairness), because every read has
a deadline and every ticker ticks; nobody is obliged to call `Stop`.
`NormalMode`: both sides always have more to send and a working path delivers or
loses what it carries. The server's sender is strongly fair because it can send
only while a path is fresh, which comes and goes. That time passes is an assumption
of the liveness properties themselves (`TimePasses`), so that a behaviour in which
nobody's clock moves proves nothing. `WinApp`: a goroutine inside `startGameMode`
goes on, because its request has a timeout of 15 s, its probes of 1.5 s, and the
commands it runs end; nobody is obliged to press a button, and stops need no
fairness for what is stated.

`WinUI`: a goroutine that serves a call goes on, for the same reasons; the queue is
emptied; the window looks for the runtime every 100 ms and the ticker ticks. Nobody has to
click. `WebApp`: timers fire (`Ask`, `SendBatch`, `Scan`, `Load`, the poller's
`Push`), and a request comes to an end, answered or not, because sockets close and
`fetch` throws. Weak fairness is enough for these. Strong fairness stands where
an answer competes with a failure each time anew: a 401 arrives at last
(`SessionExpired`), a redirect is not overtaken by clicks for ever, a socket opens at last
(`StreamOpens`), a batch that is sent again and again reaches the backend (`Reaches`), a
test's ping is answered at last, the first after its time is over if need be (`Measured`), a
scan made of the present links is shown (`FreshScanShown`), a report that closes an outage is
served (`CloseServed`), a fresh answer is shown (`AnswerShown`). It says that not every
try is lost, nothing about any one. Where a backend that stays unreachable makes the property
false, that is so in the code as well. `Ask` is fair on the dashboard only: the pages of the
subscription ask when they are mounted, and an expired session may stay on them for ever.

Two liveness properties of `web_app` have a premise of their own. `DownloadEnds` holds of behaviours in
which provisions are not turned down infinitely often: as long as no address is free or no
key is generated, `downloadConfig` does call itself for ever (`Subscription.jsx:49-51`). And `BannerClears`
holds of behaviours in which every worker is handed reports infinitely often: a row that a
worker opened is ended by that worker only.

The other modules have no liveness property.

## Findings

1. `uplink_wrap`: for the last 16384 sequence numbers `seq+sessionRestartThreshold`
   wraps, every call clears the window, and second copies are let through.
2. `bond_client_stop`: a `Stop` that runs before `Start` sets `running` is undone.
3. `bond_client_cap`: the mobile cap disables by name, and can take the last
   unmetered path.
4. `normal_mode_return`: after one stall traffic can stay on the mobile path,
   because a rejected second copy still makes its path the server's primary.
5. `win_app_pins`: `Logout` stops without `toggleMu`; a `Toggle` meanwhile finds the
   old routes, cannot add its own, and loses them when the stop goes on.

## Proofs

Assumptions are the named `ASSUME`s of the modules, which say no more than the
types of the parameters. One premise comes besides, because without it the code does
not do what the theorems say. For all of the uplink, `Premise`: copies do not live longer
than the idle timeout, none arrives more than a threshold behind the newest number, and the
numbers stay one threshold below the end of the uint32
(`uplink_wrap` is what happens beyond). Each `*Proofs` module
shows that `IInv` is inductive, one case per action, and reads the results off it.

A * marks a result whose property is part of no run.

- *Uplink* (`AtMostOnceHolds`, `NoFreshLossHolds`, `ImplementsDelivery`). That
  nothing is delivered twice is not inductive: it needs that the window ends at
  `maxSeen` (`WindowOK`), that each set bit stands for a delivered packet of the
  window (`SeenOK`) and that a delivered packet with copies still in flight is
  remembered and was sent before the last call (`RememberedInv`), so that the idle
  restart cannot forget it. `SlidLemma` and `MarkedLemma` are the core.
- *BondServer* (`ReplyReachesOwnerHolds`, `HandedOverOnceHolds`,
  `AnswerFindsAWayHolds`, `ModeSticksHolds`, `ImplementsRelay`). `OwnerInv` extends ownership from
  the reply targets to every place an address is stored, the listeners' hands
  included; `PrimaryInv` says that the primary is the path heard last; `PassedInv`
  that a packet past `IsNew` is in its own session's deduplicator. The refinement hides
  the path tables behind `ways`, where a reply of a session would go now; each step of the
  server keeps `Relay`'s `Routed`, so that registering, expiring and switching modes are
  all one step of the promise, `ReRoute`, which may change the ways but not empty them
  while the client is heard.
- *BondClient* (`CleanExitHolds`, `CapHoldsAlways`, `ServesUntilStoppedHolds`, `NoRevivalHolds`*). `StopInv` ties the order of `Stop` to
  where `Start` is; `CapInv` says that beyond the limit only what is named Starlink is
  active; `ServeInv` that until `Stop` is called what `Start` opened stays open, with a
  reader on each path. The last two are action properties: nothing but `Stop` ends the
  service, and once it has, no goroutine that is still running brings anything back.
- *NormalMode* (`MobileRestsHolds`, `HeardIsAnsweredHolds`): until the first stall the
  server has not even heard a mobile path (`UnheardInv`); the primary is never older than
  another path (`PrimaryFreshest`), so while any is fresh, a reply in primary mode
  has a path.
- *WinApp* (`NoRemnantsHolds`, `PinsKeptHolds`, `ImplementsAppLife`). Ownership: every
  installed route is in one pair of hands or was left by a process that ended or a refused
  deletion (`Accounted`, `Apart`),
  hands are full exactly where something is built or taken down (`EmptyInv`), a
  tunnel and the port have an owner at the right place (`UpInv`), and the app holds
  nothing while Toggle connects, so that no commit overwrites anything (`AloneInv`).
  At rest only the app's hands are left, which is `NoRemnants`; since routes are not
  shared, what another goroutine does cannot touch the pinned ones, and what Windows did not
  pin is known (`PinsInv`). For `AppLife`, `connecting` is
  held exactly while `Toggle` connects (`ConnectingInv`), and a connection is put into
  the app's hands from there only.
- *WinUI* (`GoneConnections`, `SignedInDashboard`, `ButtonComesBackHolds`*,
  `ImplementsAppLife`*). What the window shows depends on
  what is still queued, so the invariant speaks of positions: a report of a
  connection that has ended has an end after it (`ReportsInv`), and the reply to a
  sign-in that was undone has a goodbye after it or a Logout to come (`WelcomeInv`).
  Appending keeps both, and taking the head keeps them for what follows. That the power
  button comes back has a safe half: while it is disabled, the answer that enables it is on
  its way (`ButtonComesBack`). It needs that one goroutine is at work under `toggleMu`
  (`MuInv`), that one sign-in is under way at most, so that no dashboard is replaced
  by another (`LoginInv`), and that a queued start has its end after it
  (`ConnectingInv`). What is left of `BusyEnds` is that what is queued arrives.
- *Billing* (`KeysFollowSubscriptions`). As long as the account is not disturbed one provision
  or deletion is under way at most (`OneProvision`); every peer's key is its row's, one that
  is being set or removed, or one of which something failed, and every stored key has its
  peer unless something failed (`KeysKnown`); and a deletion is the last event of its
  subscription and works on the key the row has (`DeletionsLast`). A key is in `failed` from the
  step at which a command or a handler fails on it, so nothing else can leave a peer behind.
- *WebApp*. `WebInvariant` is the conjunction of the parts' invariants; a step of the
  whole is a step or a stutter of every part (`PartSteps`), so each part is proved by
  itself. The strengthenings: the stored token is the one in use (`SessionIInv`); no
  failover beyond the last seen was announced (`NoneAhead`); a sample is in one place, and
  a batch without a place was abandoned (`OnePlace`, `NoPlace`); the one vote under
  way knows all that page and storage know (`VotesKnown`), what was read is still the count
  (`ReadIsCount`), a look-up that found nothing is alone and right (`LookUpsRight`);
  a worker serves one report at a time, and knows no row while it opens or closes one (`OneServed`),
  so that the open rows are held by workers, one each (`OutagesHeld`*, a conjunct of `WebIInv`).
  `SessionKept` is an action property, from the same invariant. So are
  `VotesOnlyGrow`* and `VotesRemembered`*, from `ReadIsCount` and `VotesKnown`.
  `OnePeerHolds`* is read off `Billing`'s invariant; `StreamsStayAlive`* and
  `NoTimerIsLeft`* have invariants of their own: a run of the effect has a stream ever
  after (`StreamAlive`), and a test warms up before it measures and is the one the page's
  timer belongs to (`OwnTimer`).

Only model-checked: the liveness properties (`StoppedEnds`, `FailoverWorks`,
`ConnectingEnds`, `DashboardCatchesUp`, `BusyEnds`, `ExpiredLeaves`, `StreamReturns`, `SamplesArrive`,
`DownloadEnds`, `TestEnds`, `CardsCatchUp`, `BannerClears`): they need fairness, hence ENABLED, and
chains of leads-to over data, both out of the prover's reach. Every safety property and
every refinement of a passing run is a theorem.

## What is left

1. `AndroidPaths` and `AndroidService`: callbacks, loops and commands; the reply
   deduplicator against a server that restarts its numbering.
2. `PeerProvision`: the address allocation of `config.py`, which two workers and two
   devices share, the repair of an address, the peer API; `revoke`.
3. Proofs: that `BondClient` keeps its promises inside `WinApp`, which takes it to
   hold the port from a successful start to its stop (`ServesUntilStopped` and
   `NoRevival` are the two halves of that); that `NormalMode`'s two sides are
   those of `BondClient` and `BondServer`.

## Not modelled

- The Android app: its paths and its service are concurrent and worth a model; it has
  none yet.
- Of device registration (`config.py`) the addresses and their repair, the peer API it
  calls and `revoke` of `wireguard.py`: likewise.
- Charts, cards, the session table, the ring buffer of telemetry, the simulator of
  metrics, the Electron shell, the switch's display: they draw or make up data and
  keep no state that another part depends on.
- Socket options and route commands per operating system, deployment scripts,
  password hashing: pure I/O, with no order of events to get wrong.
- Probe round-trip times and counters feed the interface only. Memory (the server's
  registry never shrinks) and unsynchronised reads of `paths` in Go beyond seeing an
  old value are outside the models. So are adapters that vanish while their routes
  are installed, what a connected socket's cached route does, and a control that
  is lost on every path (`ModeSticks` is about those that arrived).

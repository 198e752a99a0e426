------------------------------- MODULE Billing -------------------------------
(***************************************************************************)
(* One account's subscription and its tunnel key: the pages that subscribe *)
(* and download (dashboard/frontend/src/pages/Subscription.jsx and         *)
(* SubscriptionSuccess.jsx), the webhook of the payment service            *)
(* (dashboard/backend/routers/subscription.py), the key's life on the      *)
(* server (routers/wireguard.py) and the keys of the apps' devices         *)
(* (routers/config.py).                                                    *)
(*                                                                         *)
(* The payment service delivers its events at least once and in any order. *)
(* Provisioning awaits between its check of the row and its commit, and so *)
(* does the handler of a deletion; their commands may fail, and they may   *)
(* end half way.  Addresses are not modelled, nor is the repair of one out *)
(* of range.  A device's key is a peer of the points of presence, which    *)
(* are other hosts, told before it is stored; nobody removes it there.     *)
(***************************************************************************)
EXTENDS Naturals, FiniteSets

CONSTANTS
  Subs,          (* subscriptions of the payment service                   *)
  Clicks,        (* downloads the page may have under way                  *)
  MaxRows,       (* bound of the model: rows of the account                *)
  MaxKeys,       (* bound of the model: keys generated                     *)
  MaxTabs,       (* bound of the model: checkout pages open                *)
  MaxDevices,    (* MAX_DEVICES_PER_SUBSCRIPTION                           *)
  NoSub

ASSUME BillingAssumption ==
  /\ MaxRows \in Nat /\ MaxKeys \in Nat
  /\ MaxTabs \in Nat /\ MaxDevices \in Nat
  /\ NoSub \notin Subs /\ Clicks \cap {"success", "app"} = {}

Rows == 1 .. MaxRows
Keys == 1 .. MaxKeys
Callers == Clicks \cup {"success", "app"}
Live == {"trialing", "active"}

VARIABLES
  rows,         (* by row: its status, the payment service's subscription, *)
                (* and the stored key, 0 when there is none                *)
  keys,         (* keys generated so far                                   *)
  peers,        (* external: on the tunnel's interface: key, and its row   *)
  posted,       (* external: the checkouts and deletions to be told        *)
  reached,      (* by subscription: the latest stage the webhook has seen  *)
  devices,      (* the keys stored for devices: key, and its row           *)
  failed,       (* history: the keys of which a command, or a handler that *)
                (* was to store or forget it, failed                       *)
  deleting,     (* by row: the step of a deletion, and the key it read     *)
  caller,       (* by download: idle, config or provision                  *)
  provision,    (* by caller: the handler's step, row, key, and whether it *)
                (* is the first of the row, to be stored there             *)
  view,         (* Subscription.jsx: offer or active                       *)
  tabs,         (* checkout pages that are open                            *)
  file,         (* the last file downloaded: key and row                   *)
  disturbed     (* history: two provisions, or one and a deletion, were at *)
                (* work at once, or an event was handled twice or after a  *)
                (* later one                                               *)

stripeVars == <<posted, reached>>
pageVars == <<view, tabs>>
billingVars == <<rows, keys, peers, devices, failed, posted, reached, deleting,
                 caller, provision, view, tabs, file, disturbed>>

NoRow == [status |-> "none", sub |-> NoSub, key |-> 0]
NoProvision == [step |-> "none", row |-> 0, key |-> 0, first |-> FALSE]
NoDeletion == [step |-> "none", key |-> 0]

BillingInit ==
  /\ rows = [r \in Rows |-> NoRow]
  /\ keys = 0 /\ peers = {} /\ devices = {} /\ failed = {}
  /\ posted = {} /\ reached = [s \in Subs |-> 0]
  /\ deleting = [r \in Rows |-> NoDeletion]
  /\ caller = [c \in Callers |-> "idle"]
  /\ provision = [c \in Callers |-> NoProvision]
  /\ view = "offer" /\ tabs = 0
  /\ file = [row |-> 0, key |-> 0]
  /\ disturbed = FALSE

LiveRows == {r \in Rows : rows[r].status \in Live}
OnlyLive(r) == LiveRows = {r}
RowsOf(s) == {r \in Rows : rows[r].status # "none" /\ rows[r].sub = s}
DevicesOf(r) == {d \in devices : d.row = r}
Provisioning == {c \in Callers : provision[c].step # "none"}
Deleting == {r \in Rows : deleting[r].step # "none"}

-----------------------------------------------------------------------------
(* The page: its status, its checkout button.                              *)
LoadStatus ==
  /\ view = "offer" /\ LiveRows # {}
  /\ view' = "active"
  /\ UNCHANGED <<rows, keys, peers, devices, failed, stripeVars, deleting,
                 caller, provision, tabs, file, disturbed>>

(* A click of Start trial opens a checkout page: the page of those without *)
(* a subscription has the button.  (A page nobody could pay for any more   *)
(* is left out.)                                                           *)
StartCheckout ==
  /\ view = "offer" /\ tabs < MaxTabs
  /\ \E s \in Subs : [type |-> "completed", sub |-> s] \notin posted
  /\ tabs' = tabs + 1
  /\ UNCHANGED <<rows, keys, peers, devices, failed, stripeVars, deleting,
                 caller, provision, view, file, disturbed>>

(* Another visit of the page.  What the visit before had under way goes on.*)
Revisit ==
  /\ view = "active"
  /\ view' = "offer"
  /\ UNCHANGED <<rows, keys, peers, devices, failed, stripeVars, deleting,
                 caller, provision, tabs, file, disturbed>>

-----------------------------------------------------------------------------
(* External: the payment service.                                          *)
Stage == [completed |-> 1, paid |-> 2, failed |-> 2, deleted |-> 3]
(* A subscription that began is paid for, or not, any number of times.     *)
Post(type, s) == posted' = posted \cup {[type |-> type, sub |-> s]}
Posted(type, s) ==
  [type |-> IF Stage[type] = 2 THEN "completed" ELSE type, sub |-> s]
    \in posted

(* A checkout is paid: the browser goes to the success page, which asks    *)
(* for a key at once.                                                      *)
CompleteCheckout(s) ==
  /\ tabs > 0 /\ tabs' = tabs - 1
  /\ ~Posted("completed", s)
  /\ Post("completed", s)
  /\ caller["success"] = "idle"
  /\ caller' = [caller EXCEPT !["success"] = "provision"]
  /\ UNCHANGED <<rows, keys, peers, devices, failed, reached, deleting,
                 provision, view, file, disturbed>>

Cancel(s) ==
  /\ Posted("completed", s) /\ ~Posted("deleted", s)
  /\ Post("deleted", s)
  /\ UNCHANGED <<rows, keys, peers, devices, failed, reached, deleting,
                 caller, provision, pageVars, file, disturbed>>

-----------------------------------------------------------------------------
(* The webhook.                                                            *)
Unordered(type, s) ==
  reached[s] > Stage[type] \/ (reached[s] = Stage[type] /\ Stage[type] # 2)

(* Bound of the model: one event at most is not in its order, none once    *)
(* the account is disturbed, and no checkout is told again after a key was *)
(* generated.                                                              *)
DisturbedOnce(type, s) ==
  Unordered(type, s) => ~disturbed /\ (type = "completed" => keys = 0)

Handle(type, s, meets) ==
  /\ Posted(type, s) /\ DisturbedOnce(type, s)
  /\ reached' = [reached EXCEPT ![s] = IF @ < Stage[type] THEN Stage[type]
                                       ELSE @]
  /\ disturbed' = (disturbed \/ Unordered(type, s) \/ meets)
  /\ UNCHANGED <<keys, peers, devices, failed, posted, caller, provision,
                 pageVars, file>>

(* Every checkout.session.completed adds a row.                            *)
HandleCompleted(s) ==
  /\ Handle("completed", s, FALSE)
  /\ \E r \in Rows :
       /\ rows[r].status = "none"
       /\ \A q \in 1 .. (r - 1) : rows[q].status # "none"
       /\ rows' = [rows EXCEPT ![r] =
                     [status |-> "trialing", sub |-> s, key |-> 0]]
  /\ UNCHANGED deleting

(* The row of the subscription; with none nothing happens, and with two    *)
(* the handler fails.                                                      *)
HandlePayment(type, s) ==
  /\ type \in {"paid", "failed"}
  /\ Handle(type, s, FALSE)
  /\ rows' = IF Cardinality(RowsOf(s)) # 1 THEN rows
             ELSE [r \in Rows |-> IF r \notin RowsOf(s) THEN rows[r]
                     ELSE [rows[r] EXCEPT !.status =
                             IF type = "paid" THEN "active" ELSE "past_due"]]
  /\ UNCHANGED deleting

(* The row is made inactive; the key it had is to be removed, and those of *)
(* its devices.                                                            *)
HandleDeleted(s) ==
  \/ /\ Cardinality(RowsOf(s)) # 1
     /\ Handle("deleted", s, FALSE)
     /\ UNCHANGED <<rows, deleting>>
  \/ /\ Cardinality(RowsOf(s)) = 1
     /\ Handle("deleted", s, Provisioning # {})
     /\ \E r \in RowsOf(s) :
          /\ deleting[r] = NoDeletion
          /\ rows' = [rows EXCEPT ![r].status = "inactive"]
          /\ deleting' = [deleting EXCEPT ![r] =
                            [step |-> IF rows[r].key = 0 THEN "devices"
                                      ELSE "key",
                             key |-> rows[r].key]]

(* Wrong: the key is forgotten, not removed.                               *)
ForgetKey(r) ==
  /\ deleting[r].step = "key"
  /\ rows' = [rows EXCEPT ![r].key = 0]
  /\ deleting' = [deleting EXCEPT ![r].step = "devices"]
  /\ UNCHANGED <<keys, peers, devices, failed, stripeVars, caller,
                 provision, pageVars, file, disturbed>>

(* The peer is removed, whatever comes of it, and the key forgotten.       *)
RemoveKey(r) ==
  /\ deleting[r].step = "key"
  /\ \/ peers' = peers \ {[row |-> r, key |-> deleting[r].key]}
        /\ UNCHANGED failed
     \/ failed' = failed \cup {deleting[r].key} /\ UNCHANGED peers
  /\ rows' = [rows EXCEPT ![r].key = 0]
  /\ deleting' = [deleting EXCEPT ![r].step = "devices"]
  /\ UNCHANGED <<keys, devices, stripeVars, caller, provision, pageVars,
                 file, disturbed>>

(* So are those of its devices.  Only a key that a device took over from   *)
(* the row is one of this host's peers; nobody tells the points of         *)
(* presence.                                                               *)
RemoveDevices(r) ==
  /\ deleting[r].step = "devices"
  /\ \E kept \in SUBSET (DevicesOf(r) \cap peers) :
       /\ peers' = peers \ (DevicesOf(r) \ kept)
       /\ failed' = failed \cup {d.key : d \in kept}
  /\ devices' = devices \ DevicesOf(r)
  /\ deleting' = [deleting EXCEPT ![r] = NoDeletion]
  /\ UNCHANGED <<rows, keys, stripeVars, caller, provision, pageVars,
                 file, disturbed>>

(* The handler ends half way: a commit fails, or the process is restarted. *)
(* The payment service will deliver the event again.                       *)
DeletionLost(r) ==
  /\ deleting[r].step # "none"
  /\ deleting' = [deleting EXCEPT ![r] = NoDeletion]
  /\ \/ /\ deleting[r].step = "key"
        /\ peers' \in {peers, peers \ {[row |-> r, key |-> deleting[r].key]}}
        /\ failed' = failed \cup {deleting[r].key}
     \/ /\ deleting[r].step = "devices"
        /\ \E gone \in SUBSET (DevicesOf(r) \cap peers) : peers' = peers \ gone
        /\ UNCHANGED failed
  /\ UNCHANGED <<rows, keys, devices, stripeVars, caller, provision,
                 pageVars, file, disturbed>>

-----------------------------------------------------------------------------
(* provision, for a page that asks, and /api/config, for an app: it gives  *)
(* each device a key of its own.                                           *)
Back(c) == [caller EXCEPT ![c] = IF c \in Clicks THEN "config" ELSE "idle"]

Asks(c) == caller[c] = "provision" /\ provision[c] = NoProvision

Begin(c, r, first) ==
  /\ provision' = [provision EXCEPT ![c] =
                     [step |-> "chosen", row |-> r, key |-> 0,
                      first |-> first]]
  /\ disturbed' = (disturbed \/ Provisioning # {} \/ Deleting # {})
  /\ UNCHANGED <<rows, keys, peers, devices, failed, stripeVars, deleting,
                 caller, pageVars, file>>

(* Wrong: a row that has a key is given another.                           *)
ProvisionAgain(c) ==
  /\ c # "app" /\ Asks(c)
  /\ \E r \in Rows : OnlyLive(r) /\ Begin(c, r, TRUE)

(* Exactly one live row, and no key.                                       *)
ProvisionBegin(c) ==
  /\ c # "app" /\ Asks(c)
  /\ \E r \in Rows : OnlyLive(r) /\ rows[r].key = 0 /\ Begin(c, r, TRUE)

(* 403, 500 or 409.                                                        *)
ProvisionRefused(c) ==
  /\ c # "app" /\ Asks(c)
  /\ \A r \in Rows : OnlyLive(r) => rows[r].key # 0
  /\ caller' = Back(c)
  /\ UNCHANGED <<rows, keys, peers, devices, failed, stripeVars, deleting,
                 provision, pageVars, file, disturbed>>

(* The key is generated and its peer set: on the interface, which may fail *)
(* unnoticed, or, for a device, at the points of presence.                 *)
ProvisionPeer(c) ==
  /\ provision[c].step = "chosen" /\ keys < MaxKeys
  /\ keys' = keys + 1
  /\ LET peer == [row |-> provision[c].row, key |-> keys + 1]
     IN \/ /\ c # "app" /\ peers' = peers \cup {peer}
           /\ UNCHANGED failed
        \/ /\ c # "app" /\ failed' = failed \cup {keys + 1}
           /\ UNCHANGED peers
        \/ /\ c = "app" /\ UNCHANGED <<peers, failed>>
  /\ provision' = [provision EXCEPT ![c].step = "set", ![c].key = keys + 1]
  /\ UNCHANGED <<rows, devices, stripeVars, deleting, caller, pageVars, file,
                 disturbed>>

(* No key is generated, no address is free, or a point of presence does    *)
(* not take the peer: 500 or 503.                                          *)
ProvisionFails(c) ==
  /\ provision[c].step = "chosen"
  /\ provision' = [provision EXCEPT ![c] = NoProvision]
  /\ caller' = Back(c)
  /\ UNCHANGED <<rows, keys, peers, devices, failed, stripeVars, deleting,
                 pageVars, file, disturbed>>

ProvisionCommit(c) ==
  /\ provision[c].step = "set"
  /\ rows' = IF provision[c].first
             THEN [rows EXCEPT ![provision[c].row].key = provision[c].key]
             ELSE rows
  /\ devices' = IF c = "app"
                THEN devices \cup {[row |-> provision[c].row,
                                    key |-> provision[c].key]}
                ELSE devices
  /\ provision' = [provision EXCEPT ![c] = NoProvision]
  /\ caller' = Back(c)
  /\ UNCHANGED <<keys, peers, failed, stripeVars, deleting, pageVars,
                 file, disturbed>>

(* The commit fails, or the process is restarted before it.                *)
ProvisionLost(c) ==
  /\ provision[c].step = "set"
  /\ failed' = failed \cup {provision[c].key}
  /\ provision' = [provision EXCEPT ![c] = NoProvision]
  /\ caller' = Back(c)
  /\ UNCHANGED <<rows, keys, peers, devices, stripeVars, deleting, pageVars,
                 file, disturbed>>

TakesOver(r) == DevicesOf(r) = {} /\ rows[r].key # 0

(* A new device gets a key of its own, if there are not too many: else,    *)
(* and where no row lives, the app is answered 403.  (Bound of the model:  *)
(* no device is new once the account is disturbed.)                        *)
RegisterBegin ==
  /\ ~disturbed /\ provision["app"] = NoProvision
  /\ \E r \in Rows :
       /\ OnlyLive(r) /\ ~TakesOver(r)
       /\ Cardinality(DevicesOf(r)) < MaxDevices
       /\ Begin("app", r, rows[r].key = 0)

(* The first device of a row that has a key takes it over.                 *)
RegisterTakesOver ==
  /\ ~disturbed /\ provision["app"] = NoProvision
  /\ \E r \in Rows :
       /\ OnlyLive(r) /\ TakesOver(r)
       /\ devices' = devices \cup {[row |-> r, key |-> rows[r].key]}
  /\ UNCHANGED <<rows, keys, peers, failed, stripeVars, deleting, caller,
                 provision, pageVars, file, disturbed>>

-----------------------------------------------------------------------------
(* downloadConfig of the page, a click of its button.                      *)
Download(c) ==
  /\ c \in Clicks /\ view = "active" /\ caller[c] = "idle"
  /\ caller' = [caller EXCEPT ![c] = "config"]
  /\ UNCHANGED <<rows, keys, peers, devices, failed, stripeVars, deleting,
                 provision, pageVars, file, disturbed>>

Hand(r) == file' = [row |-> r, key |-> rows[r].key]

(* Wrong: it tries again without asking for a key.                         *)
ConfigOnly(c) ==
  /\ caller[c] = "config"
  /\ \/ \E r \in Rows : OnlyLive(r) /\ rows[r].key # 0 /\ Hand(r)
        /\ caller' = [caller EXCEPT ![c] = "idle"]
     \/ /\ \A r \in Rows : OnlyLive(r) => rows[r].key = 0
        /\ UNCHANGED <<caller, file>>
  /\ UNCHANGED <<rows, keys, peers, devices, failed, stripeVars, deleting,
                 provision, pageVars, disturbed>>

(* get_config answers with the file; or it does not, and the page asks for *)
(* a key and tries again.                                                  *)
ConfigAnswered(c) ==
  /\ caller[c] = "config"
  /\ \/ \E r \in Rows : OnlyLive(r) /\ rows[r].key # 0 /\ Hand(r)
        /\ caller' = [caller EXCEPT ![c] = "idle"]
     \/ /\ \A r \in Rows : OnlyLive(r) => rows[r].key = 0
        /\ caller' = [caller EXCEPT ![c] = "provision"]
        /\ UNCHANGED file
  /\ UNCHANGED <<rows, keys, peers, devices, failed, stripeVars, deleting,
                 provision, pageVars, disturbed>>

(* A request throws, before the backend has it.                            *)
DownloadThrows(c) ==
  /\ caller[c] # "idle" /\ provision[c] = NoProvision
  /\ caller' = [caller EXCEPT ![c] = "idle"]
  /\ UNCHANGED <<rows, keys, peers, devices, failed, stripeVars, deleting,
                 provision, pageVars, file, disturbed>>

(* The success page has a button, never disabled, from the first checkout  *)
(* that was paid on ...                                                    *)
SuccessButton == \E s \in Subs : Posted("completed", s)

(* ... and download gives the file, or an alert.                           *)
SuccessDownload ==
  /\ SuccessButton
  /\ \E r \in Rows : OnlyLive(r) /\ rows[r].key # 0 /\ Hand(r)
  /\ UNCHANGED <<rows, keys, peers, devices, failed, stripeVars, deleting,
                 caller, provision, pageVars, disturbed>>

-----------------------------------------------------------------------------
BillingNext ==
  \/ LoadStatus \/ StartCheckout \/ Revisit
  \/ \E s \in Subs :
       \/ CompleteCheckout(s) \/ HandleCompleted(s) \/ HandleDeleted(s)
       \/ Cancel(s) \/ \E type \in {"paid", "failed"} : HandlePayment(type, s)
  \/ \E r \in Rows : RemoveKey(r) \/ RemoveDevices(r) \/ DeletionLost(r)
  \/ \E c \in Callers :
       \/ ProvisionBegin(c) \/ ProvisionRefused(c) \/ ProvisionPeer(c)
       \/ ProvisionFails(c) \/ ProvisionCommit(c) \/ ProvisionLost(c)
       \/ Download(c) \/ ConfigAnswered(c) \/ DownloadThrows(c)
  \/ RegisterBegin \/ RegisterTakesOver
  \/ SuccessDownload

(* A provision that does not store its key.                                *)
TurnedDown(c) == ProvisionFails(c) \/ ProvisionLost(c)

(* The backend answers.                                                    *)
Answers(c) ==
  \/ ProvisionBegin(c) \/ ProvisionRefused(c) \/ ProvisionPeer(c)
  \/ ProvisionCommit(c) \/ TurnedDown(c) \/ ConfigAnswered(c)

BillingSpec ==
  /\ BillingInit /\ [][BillingNext]_billingVars
  /\ \A c \in Callers : WF_billingVars(Answers(c))

-----------------------------------------------------------------------------
(***************************************************************************)
(* Properties.                                                             *)
(***************************************************************************)
RowStates == [status : Live \cup {"none", "past_due", "inactive"},
              sub : Subs \cup {NoSub}, key : 0 .. keys]
ProvisionStates == [step : {"none", "chosen", "set"}, row : 0 .. MaxRows,
                    key : 0 .. keys, first : BOOLEAN]

DeletionStates == [step : {"none", "key", "devices"}, key : 0 .. keys]

RowsTypeOK ==
  /\ rows \in [Rows -> RowStates]
  /\ keys \in 0 .. MaxKeys
  /\ peers \cup devices \subseteq [row : Rows, key : 1 .. keys]
  /\ failed \subseteq 0 .. keys
  /\ deleting \in [Rows -> DeletionStates]

EventsTypeOK ==
  /\ posted \subseteq [type : {"completed", "deleted"}, sub : Subs]
  /\ reached \in [Subs -> 0 .. 3]

ProvisionTypeOK ==
  /\ caller \in [Callers -> {"idle", "config", "provision"}]
  /\ provision \in [Callers -> ProvisionStates]
  /\ \A c \in Provisioning :
       /\ provision[c].row > 0
       /\ provision[c].step = "set" => provision[c].key > 0
  /\ disturbed \in BOOLEAN

PageTypeOK ==
  /\ view \in {"offer", "active"}
  /\ tabs \in 0 .. MaxTabs
  /\ file \in [row : 0 .. MaxRows, key : 0 .. keys]
  /\ file.key > 0 => file.row > 0

BillingTypeOK ==
  RowsTypeOK /\ EventsTypeOK /\ ProvisionTypeOK /\ PageTypeOK

(* A downloaded file works for as long as its subscription lives: its key  *)
(* stays the stored one and a peer, of this host's tunnel or, a device's,  *)
(* of the points of presence.  Excepted are a key of which something       *)
(* failed, and accounts that were disturbed.                               *)
ConfigWorks ==
  ~disturbed /\ file.key # 0 /\ rows[file.row].status # "inactive"
    => /\ rows[file.row].key = file.key
       /\ file \in peers \cup devices \/ file.key \in failed

(* A deleted subscription leaves no peer on this host, of its own key or   *)
(* one that a device took over, with the same exceptions: the keys of      *)
(* which something failed are those that go on working.                    *)
AccessEnds ==
  ~disturbed =>
    \A r \in Rows \ Deleting : rows[r].status = "inactive" =>
      \A p \in peers : p.row = r => p.key \in failed

(* What the two rest on.  A row that is provisioned lives, and nothing     *)
(* else is provisioned or deleted meanwhile.                               *)
OneProvision ==
  /\ \A c, d \in Provisioning : c = d
  /\ \A c \in Provisioning :
       LET row == provision[c].row
           peer == [row |-> row, key |-> provision[c].key]
       IN /\ rows[row].status \notin {"none", "inactive"}
          /\ provision[c].first <=> rows[row].key = 0
          /\ c # "app" => provision[c].first
          /\ provision[c].step = "set" =>
               c = "app" \/ peer \in peers \/ provision[c].key \in failed
  /\ Provisioning # {} => Deleting = {}

(* A key is stored in the row it is a peer for, or about to be.            *)
KeysKnown ==
  /\ \A p \in peers :
       \/ rows[p.row].key = p.key \/ p.key \in failed
       \/ \E c \in Provisioning : /\ provision[c].step = "set" /\ c # "app"
                                  /\ provision[c].row = p.row
                                  /\ provision[c].key = p.key
  /\ \A r \in Rows : rows[r].key # 0 /\ rows[r].status # "inactive" =>
       \/ [row |-> r, key |-> rows[r].key] \in peers \cup devices
       \/ rows[r].key \in failed

(* A deletion is the last of a row, and removes the key the row has.       *)
DeletionsLast ==
  \A r \in Rows :
    /\ rows[r].status = "inactive" =>
         /\ rows[r].key # 0 => \/ deleting[r].step = "key"
                               \/ rows[r].key \in failed
         /\ rows[r].sub \in Subs
         /\ reached[rows[r].sub] = 3
    /\ r \in Deleting => rows[r].status = "inactive"
    /\ deleting[r].step = "key" =>
         rows[r].key = deleting[r].key /\ rows[r].key # 0
    /\ rows[r].status = "none" => rows[r].key = 0

BillingIInv ==
  /\ BillingTypeOK /\ ConfigWorks /\ AccessEnds
  /\ ~disturbed => OneProvision /\ KeysKnown /\ DeletionsLast

(* While one subscription lives, a download comes to an end, or its        *)
(* provisions are turned down again and again: the page goes on asking for *)
(* as long as no key is generated or no address is free.                   *)
DownloadEnds ==
  \A c \in Clicks :
    \/ []<><<TurnedDown(c)>>_billingVars
    \/ (caller[c] # "idle")
         ~> (caller[c] = "idle" \/ Cardinality(LiveRows) # 1 \/ keys = MaxKeys)

(* A subscription has one peer on this host at most, with the same         *)
(* exceptions: no key it was given before goes on working beside the one   *)
(* it has, but one of which something failed.                              *)
OnePeerEach ==
  ~disturbed =>
    \A p, q \in peers :
      p.row = q.row /\ {p.key, q.key} \cap failed = {} => p = q
=============================================================================

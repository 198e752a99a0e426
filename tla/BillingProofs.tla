--------------------------- MODULE BillingProofs ---------------------------
(***************************************************************************)
(* A downloaded file works and a deleted subscription loses its peer, for  *)
(* any number of subscriptions, rows, keys, devices and downloads, but for *)
(* the keys of which a command or a handler failed: as long as no          *)
(* provisions met and the payment service's events came in order.          *)
(***************************************************************************)
EXTENDS Billing, TLAPS

(* A behaviour begins in the invariant.                                    *)
LEMMA BillingStart == BillingInit => BillingIInv
  <1> SUFFICES ASSUME BillingInit PROVE BillingIInv
    OBVIOUS
  <1> USE BillingAssumption
  <1>1. BillingTypeOK
    <2>1. RowsTypeOK
      BY DEF BillingInit, RowsTypeOK, RowStates, NoRow, Rows, DeletionStates,
             NoDeletion
    <2>2. EventsTypeOK
      <3>1. posted \subseteq [type : {"completed", "deleted"}, sub : Subs]
        BY DEF BillingInit
      <3>2. reached \in [Subs -> 0 .. 3]
        BY DEF BillingInit
      <3> QED BY <3>1, <3>2 DEF EventsTypeOK
    <2>3. ProvisionTypeOK
      <3>1. caller \in [Callers -> {"idle", "config", "provision"}]
        BY DEF BillingInit
      <3>2. provision \in [Callers -> ProvisionStates]
        BY DEF BillingInit, NoProvision, ProvisionStates
      <3>3. disturbed \in BOOLEAN
        BY DEF BillingInit
      <3>4. \A c \in Callers : provision[c] = NoProvision
        BY DEF BillingInit
      <3> QED BY <3>1, <3>2, <3>3, <3>4 DEF ProvisionTypeOK, NoProvision, Provisioning
    <2>4. PageTypeOK
      BY DEF BillingInit, PageTypeOK
    <2> QED BY <2>1, <2>2, <2>3, <2>4 DEF BillingTypeOK
  <1>2. ConfigWorks /\ AccessEnds
    BY DEF BillingInit, ConfigWorks, AccessEnds
  <1>3. OneProvision /\ KeysKnown /\ DeletionsLast
    BY DEF BillingInit, OneProvision, KeysKnown, DeletionsLast, NoRow,
           NoProvision, NoDeletion, Provisioning, Deleting
  <1> QED BY <1>1, <1>2, <1>3 DEF BillingIInv

-----------------------------------------------------------------------------
(* The types.  Each group of variables is changed by a few actions only.   *)
LEMMA RowsTypes ==
  ASSUME BillingTypeOK, [BillingNext]_billingVars PROVE RowsTypeOK'
  <1> RowsTypeOK /\ ProvisionTypeOK
    BY DEF BillingTypeOK
  <1> USE BillingAssumption
  <1>1. ASSUME keys' = keys, rows' \in [Rows -> RowStates],
               peers' \subseteq peers,
               devices' \subseteq devices
                 \cup {[row |-> r, key |-> rows[r].key] :
                         r \in {q \in Rows : rows[q].key # 0}}
                 \cup {[row |-> provision[c].row, key |-> provision[c].key] :
                         c \in {d \in Callers : provision[d].step = "set"}},
               failed' \subseteq 0 .. keys,
               deleting' \in [Rows -> DeletionStates]
        PROVE  RowsTypeOK'
    <2>1. UNCHANGED <<RowStates, DeletionStates>>
      BY <1>1 DEF RowStates, DeletionStates
    <2>2. \A r \in Rows : rows[r].key \in 0 .. keys
      BY DEF RowsTypeOK, RowStates
    <2>3. \A c \in Callers : provision[c].step = "set" =>
            provision[c].row \in Rows /\ provision[c].key \in 1 .. keys
      BY DEF RowsTypeOK, ProvisionTypeOK, ProvisionStates, Provisioning, Rows
    <2>4. devices' \subseteq [row : Rows, key : 1 .. keys]
      BY <1>1, <2>2, <2>3 DEF RowsTypeOK
    <2>5. peers' \subseteq [row : Rows, key : 1 .. keys]
      BY <1>1 DEF RowsTypeOK
    <2> QED BY <1>1, <2>1, <2>4, <2>5 DEF RowsTypeOK
  <1>2. /\ rows \in [Rows -> RowStates]
        /\ deleting \in [Rows -> DeletionStates]
        /\ failed \subseteq 0 .. keys
    BY DEF RowsTypeOK
  <1>3. \A r \in Rows : deleting[r].key \in 0 .. keys
    BY DEF RowsTypeOK, DeletionStates
  <1>4. CASE UNCHANGED <<rows, keys, peers, devices, failed, deleting>>
    BY <1>1, <1>2, <1>4
  <1>5. ASSUME NEW s \in Subs, HandleCompleted(s) PROVE RowsTypeOK'
    <2>1. rows' \in [Rows -> RowStates]
      BY <1>2, <1>5 DEF HandleCompleted, RowStates, Live, RowsTypeOK
    <2> QED BY <1>1, <1>2, <1>5, <2>1 DEF HandleCompleted, Handle
  <1>6. ASSUME NEW s \in Subs, NEW type \in {"paid", "failed"},
               HandlePayment(type, s)
        PROVE  RowsTypeOK'
    <2> DEFINE row(r) == [rows[r] EXCEPT !.status =
                            IF type = "paid" THEN "active" ELSE "past_due"]
    <2>1. rows' = rows \/ rows' = [r \in Rows |->
            IF r \notin RowsOf(s) THEN rows[r] ELSE row(r)]
      BY <1>6 DEF HandlePayment
    <2>2. \A r \in Rows : row(r) \in RowStates
      BY DEF Live, RowsTypeOK, RowStates
    <2>3. UNCHANGED <<keys, peers, devices, failed, deleting>>
      BY <1>6 DEF HandlePayment, Handle
    <2> HIDE DEF row
    <2>4. rows' \in [Rows -> RowStates]
      BY <2>1, <2>2 DEF RowsTypeOK
    <2> QED BY <1>1, <1>2, <2>3, <2>4
  <1>7. ASSUME NEW s \in Subs, HandleDeleted(s) PROVE RowsTypeOK'
    <2>1. UNCHANGED <<keys, peers, devices, failed>>
      BY <1>7 DEF HandleDeleted, Handle
    <2>2. CASE UNCHANGED <<rows, deleting>>
      BY <1>1, <1>2, <2>1, <2>2
    <2>3. ASSUME NEW r \in Rows, NEW step \in {"key", "devices"},
                 rows' = [rows EXCEPT ![r].status = "inactive"],
                 deleting' = [deleting EXCEPT ![r] =
                                [step |-> step, key |-> rows[r].key]]
          PROVE  RowsTypeOK'
      <3>1. rows' \in [Rows -> RowStates]
        BY <2>3 DEF RowsTypeOK, RowStates
      <3>2. deleting' \in [Rows -> DeletionStates]
        BY <2>3 DEF RowsTypeOK, RowStates, DeletionStates
      <3> QED BY <1>1, <1>2, <2>1, <3>1, <3>2
    <2> QED BY <1>7, <2>2, <2>3 DEF HandleDeleted, RowsOf
  <1>8. ASSUME NEW r \in Rows, RemoveKey(r) PROVE RowsTypeOK'
    <2>1. UNCHANGED <<keys, devices>> /\ peers' \subseteq peers
      BY <1>8 DEF RemoveKey
    <2>2. rows' \in [Rows -> RowStates]
      BY <1>8 DEF RemoveKey, RowsTypeOK, RowStates
    <2>3. deleting' \in [Rows -> DeletionStates]
      BY <1>8 DEF RemoveKey, RowsTypeOK, DeletionStates
    <2>4. failed' \subseteq 0 .. keys
      BY <1>2, <1>3, <1>8 DEF RemoveKey
    <2> QED BY <1>1, <2>1, <2>2, <2>3, <2>4
  <1>9. ASSUME NEW r \in Rows, RemoveDevices(r) \/ DeletionLost(r)
        PROVE  RowsTypeOK'
    <2>1. /\ UNCHANGED <<keys, rows>>
          /\ devices' \subseteq devices /\ peers' \subseteq peers
      BY <1>9 DEF RemoveDevices, DeletionLost
    <2>2. deleting' \in [Rows -> DeletionStates]
      BY <1>2, <1>9 DEF RemoveDevices, DeletionLost, DeletionStates, NoDeletion,
                        RowsTypeOK
    <2>3. failed' \subseteq 0 .. keys
      <3>1. CASE DeletionLost(r)
        <4>1. failed' \subseteq failed \cup {deleting[r].key}
          BY <3>1 DEF DeletionLost
        <4> QED BY <1>2, <1>3, <4>1
      <3>2. CASE RemoveDevices(r)
        <4> PICK kept \in SUBSET (DevicesOf(r) \cap peers) :
              failed' = failed \cup {d.key : d \in kept}
          BY <3>2 DEF RemoveDevices
        <4>1. \A d \in kept : d.key \in 0 .. keys
          BY DEF RowsTypeOK, DevicesOf
        <4> QED BY <1>2, <4>1
      <3> QED BY <1>9, <3>1, <3>2
    <2> QED BY <1>1, <1>2, <2>1, <2>2, <2>3
  <1>10. ASSUME NEW c \in Callers, ProvisionPeer(c) PROVE RowsTypeOK'
    <2>1. /\ UNCHANGED <<rows, deleting, devices>>
          /\ keys' = keys + 1 /\ keys < MaxKeys
      BY <1>10 DEF ProvisionPeer
    <2>2. provision[c].row \in Rows
      BY <1>10 DEF ProvisionPeer, ProvisionTypeOK, ProvisionStates,
                   Provisioning, Rows
    <2>3. /\ peers' \subseteq
               peers \cup {[row |-> provision[c].row, key |-> keys + 1]}
          /\ failed' \subseteq failed \cup {keys + 1}
      BY <1>10 DEF ProvisionPeer
    <2>4. /\ RowStates \subseteq RowStates'
          /\ DeletionStates \subseteq DeletionStates'
      BY <2>1 DEF RowStates, DeletionStates, RowsTypeOK
    <2>5. peers' \cup devices' \subseteq [row : Rows, key : 1 .. keys']
      BY <2>1, <2>2, <2>3 DEF RowsTypeOK
    <2> QED BY <1>2, <2>1, <2>3, <2>4, <2>5 DEF RowsTypeOK
  <1>11. ASSUME NEW c \in Callers, ProvisionCommit(c) PROVE RowsTypeOK'
    <2>1. UNCHANGED <<keys, deleting, peers, failed>>
      BY <1>11 DEF ProvisionCommit
    <2>2. rows' \in [Rows -> RowStates]
      <3>1. provision[c].key \in 0 .. keys
        BY DEF ProvisionTypeOK, ProvisionStates
      <3>2. \/ rows' = rows
            \/ rows' = [rows EXCEPT ![provision[c].row].key = provision[c].key]
        BY <1>11 DEF ProvisionCommit
      <3> QED BY <1>2, <3>1, <3>2 DEF RowStates
    <2>3. provision[c].step = "set"
          /\ devices' \subseteq devices \cup
               {[row |-> provision[c].row, key |-> provision[c].key]}
      BY <1>11 DEF ProvisionCommit
    <2> QED BY <1>1, <1>2, <2>1, <2>2, <2>3
  <1>12. ASSUME NEW c \in Callers, ProvisionLost(c) PROVE RowsTypeOK'
    <2>1. UNCHANGED <<rows, keys, peers, devices, deleting>>
      BY <1>12 DEF ProvisionLost
    <2>2. failed' \subseteq 0 .. keys
      BY <1>2, <1>12 DEF ProvisionLost, ProvisionTypeOK, ProvisionStates
    <2> QED BY <1>1, <1>2, <2>1, <2>2
  <1>13. CASE RegisterTakesOver
    <2>1. UNCHANGED <<rows, keys, peers, failed, deleting>>
      BY <1>13 DEF RegisterTakesOver
    <2>2. PICK r \in Rows :
            /\ rows[r].key # 0
            /\ devices' = devices \cup {[row |-> r, key |-> rows[r].key]}
      BY <1>13 DEF RegisterTakesOver, TakesOver
    <2> QED BY <1>1, <1>2, <2>1, <2>2
  <1>14. \/ UNCHANGED <<rows, keys, peers, devices, failed, deleting>>
         \/ \E s \in Subs : \/ HandleCompleted(s) \/ HandleDeleted(s)
                            \/ \E type \in {"paid", "failed"} :
                                 HandlePayment(type, s)
         \/ \E r \in Rows : RemoveKey(r) \/ RemoveDevices(r) \/ DeletionLost(r)
         \/ \E c \in Callers :
              ProvisionPeer(c) \/ ProvisionCommit(c) \/ ProvisionLost(c)
         \/ RegisterTakesOver
    BY DEF BillingNext, billingVars, LoadStatus, StartCheckout, Revisit,
           CompleteCheckout, Cancel, ProvisionBegin, Begin, ProvisionRefused,
           ProvisionFails, RegisterBegin, Download, ConfigAnswered,
           DownloadThrows, SuccessDownload
  <1> QED BY <1>4, <1>5, <1>6, <1>7, <1>8, <1>9, <1>10, <1>11, <1>12, <1>13,
             <1>14

(* The types of the events are kept.                                       *)
LEMMA EventsTypes ==
  ASSUME BillingTypeOK, [BillingNext]_billingVars PROVE EventsTypeOK'
  <1> EventsTypeOK
    BY DEF BillingTypeOK
  <1>1. CASE UNCHANGED stripeVars
    BY <1>1 DEF EventsTypeOK, stripeVars
  <1>2. ASSUME NEW s \in Subs, NEW type \in DOMAIN Stage, NEW meets,
               Handle(type, s, meets)
        PROVE  EventsTypeOK'
    BY <1>2 DEF Handle, Stage, EventsTypeOK
  <1>3. ASSUME NEW s \in Subs, CompleteCheckout(s) \/ Cancel(s)
        PROVE  EventsTypeOK'
    BY <1>3 DEF CompleteCheckout, Cancel, Post, EventsTypeOK
  <1>4. ASSUME NEW s \in Subs,
               \/ HandleCompleted(s) \/ HandleDeleted(s)
               \/ \E type \in {"paid", "failed"} : HandlePayment(type, s)
        PROVE  EventsTypeOK'
    BY <1>2, <1>4 DEF HandleCompleted, HandleDeleted, HandlePayment, Stage
  <1>5. \/ UNCHANGED stripeVars
        \/ \E s \in Subs : \/ CompleteCheckout(s) \/ Cancel(s)
                           \/ HandleCompleted(s) \/ HandleDeleted(s)
                           \/ \E type \in {"paid", "failed"} :
                                HandlePayment(type, s)
    BY DEF BillingNext, billingVars, stripeVars, LoadStatus, StartCheckout,
           Revisit, RemoveKey, RemoveDevices, DeletionLost, ProvisionBegin,
           Begin, ProvisionRefused, ProvisionPeer, ProvisionFails,
           ProvisionCommit, ProvisionLost, RegisterBegin, RegisterTakesOver,
           Download, ConfigAnswered, DownloadThrows, SuccessDownload
  <1> QED BY <1>1, <1>3, <1>4, <1>5

(* The types of the provisions are kept.                                   *)
LEMMA ProvisionTypes ==
  ASSUME BillingTypeOK, [BillingNext]_billingVars PROVE ProvisionTypeOK'
  <1> RowsTypeOK /\ ProvisionTypeOK
    BY DEF BillingTypeOK
  <1> USE BillingAssumption
  <1>1. CASE UNCHANGED <<keys, caller, provision>> /\ disturbed' \in BOOLEAN
    BY <1>1 DEF ProvisionTypeOK, ProvisionStates, Provisioning
  <1>2. ASSUME UNCHANGED <<keys, provision, disturbed>>,
               NEW c \in Callers, NEW step \in {"idle", "config", "provision"},
               caller' = [caller EXCEPT ![c] = step]
        PROVE  ProvisionTypeOK'
    BY <1>2 DEF ProvisionTypeOK, ProvisionStates, Provisioning
  <1>3. ASSUME NEW c \in Callers, NEW r \in Rows, NEW first \in BOOLEAN,
               Begin(c, r, first)
        PROVE  ProvisionTypeOK'
    <2>1. UNCHANGED <<keys, caller>> /\ disturbed' \in BOOLEAN
      BY <1>3 DEF Begin
    <2>2. provision' = [provision EXCEPT ![c] =
                          [step |-> "chosen", row |-> r, key |-> 0,
                           first |-> first]]
      BY <1>3 DEF Begin
    <2> QED BY <2>1, <2>2 DEF ProvisionTypeOK, ProvisionStates, RowsTypeOK,
                              Rows, Provisioning
  <1>4. ASSUME NEW c \in Callers, ProvisionPeer(c) PROVE ProvisionTypeOK'
    BY <1>4 DEF ProvisionPeer, ProvisionTypeOK, ProvisionStates, RowsTypeOK,
                Provisioning
  <1>5. ASSUME NEW c \in Callers, UNCHANGED <<keys, disturbed>>,
               provision' = [provision EXCEPT ![c] = NoProvision],
               caller' = Back(c)
        PROVE  ProvisionTypeOK'
    <2>1. caller' \in [Callers -> {"idle", "config", "provision"}]
      BY <1>5 DEF ProvisionTypeOK, Back
    <2>2. provision' \in [Callers -> ProvisionStates]
      BY <1>5 DEF ProvisionTypeOK, ProvisionStates, NoProvision, RowsTypeOK
    <2>3. UNCHANGED ProvisionStates
      BY <1>5 DEF ProvisionStates
    <2>4. \A d \in Provisioning' :
            d \in Provisioning /\ provision'[d] = provision[d]
      BY <1>5 DEF ProvisionTypeOK, NoProvision, Provisioning
    <2> QED BY <1>5, <2>1, <2>2, <2>3, <2>4 DEF ProvisionTypeOK
  <1>6. \/ UNCHANGED <<keys, caller, provision>> /\ disturbed' \in BOOLEAN
        \/ /\ UNCHANGED <<keys, provision, disturbed>>
           /\ \E c \in Callers, step \in {"idle", "config", "provision"} :
                caller' = [caller EXCEPT ![c] = step]
        \/ \E c \in Callers, r \in Rows, first \in BOOLEAN : Begin(c, r, first)
        \/ \E c \in Callers :
             \/ ProvisionPeer(c)
             \/ /\ UNCHANGED <<keys, disturbed>>
                /\ provision' = [provision EXCEPT ![c] = NoProvision]
                /\ caller' = Back(c)
    <2> disturbed \in BOOLEAN
      BY DEF ProvisionTypeOK
    <2>1. CASE UNCHANGED billingVars \/ LoadStatus \/ StartCheckout \/ Revisit
               \/ SuccessDownload \/ RegisterTakesOver
      BY <2>1 DEF billingVars, LoadStatus, StartCheckout, Revisit,
                  SuccessDownload, RegisterTakesOver
    <2>2. ASSUME NEW s \in Subs,
                 \/ HandleCompleted(s) \/ HandleDeleted(s) \/ Cancel(s)
                 \/ \E type \in {"paid", "failed"} : HandlePayment(type, s)
          PROVE  /\ UNCHANGED <<keys, caller, provision>>
                 /\ disturbed' \in BOOLEAN
      BY <2>2 DEF HandleCompleted, HandlePayment, HandleDeleted, Cancel, Handle
    <2>3. ASSUME NEW s \in Subs, CompleteCheckout(s)
          PROVE  /\ UNCHANGED <<keys, provision, disturbed>>
                 /\ caller' = [caller EXCEPT !["success"] = "provision"]
      BY <2>3 DEF CompleteCheckout
    <2>4. ASSUME NEW r \in Rows,
                 RemoveKey(r) \/ RemoveDevices(r) \/ DeletionLost(r)
          PROVE  UNCHANGED <<keys, caller, provision, disturbed>>
      BY <2>4 DEF RemoveKey, RemoveDevices, DeletionLost
    <2>5. ASSUME NEW c \in Callers,
                 \/ ProvisionRefused(c) \/ Download(c) \/ ConfigAnswered(c)
                 \/ DownloadThrows(c)
          PROVE  /\ UNCHANGED <<keys, provision, disturbed>>
                 /\ \E step \in {"idle", "config", "provision"} :
                      caller' = [caller EXCEPT ![c] = step]
      BY <2>5 DEF ProvisionRefused, Back, Download, ConfigAnswered,
                  DownloadThrows
    <2>6. ASSUME NEW c \in Callers, ProvisionBegin(c) \/ RegisterBegin
          PROVE  \E d \in Callers, r \in Rows, first \in BOOLEAN :
                   Begin(d, r, first)
      BY <2>6 DEF ProvisionBegin, RegisterBegin, Callers
    <2>7. ASSUME NEW c \in Callers,
                 ProvisionFails(c) \/ ProvisionCommit(c) \/ ProvisionLost(c)
          PROVE  /\ UNCHANGED <<keys, disturbed>>
                 /\ provision' = [provision EXCEPT ![c] = NoProvision]
                 /\ caller' = Back(c)
      BY <2>7 DEF ProvisionFails, ProvisionCommit, ProvisionLost
    <2>8. "success" \in Callers /\ "app" \in Callers
      BY DEF Callers
    <2> QED BY <2>1, <2>2, <2>3, <2>4, <2>5, <2>6, <2>7, <2>8 DEF BillingNext
  <1> QED BY <1>1, <1>2, <1>3, <1>4, <1>5, <1>6

(* The types of the page are kept.                                         *)
LEMMA PageTypes ==
  ASSUME BillingTypeOK, [BillingNext]_billingVars PROVE PageTypeOK'
  <1> RowsTypeOK /\ PageTypeOK
    BY DEF BillingTypeOK
  <1> USE BillingAssumption
  <1>1. CASE keys' \in {keys, keys + 1} /\ UNCHANGED <<view, tabs, file>>
    BY <1>1 DEF PageTypeOK, RowsTypeOK
  <1>2. CASE LoadStatus \/ Revisit \/ StartCheckout
    BY <1>2 DEF PageTypeOK, LoadStatus, Revisit, StartCheckout
  <1>3. ASSUME NEW s \in Subs, CompleteCheckout(s) PROVE PageTypeOK'
    BY <1>3 DEF PageTypeOK, CompleteCheckout
  <1>4. ASSUME NEW r \in Rows, Hand(r), UNCHANGED <<keys, view, tabs>>
        PROVE  PageTypeOK'
    BY <1>4 DEF PageTypeOK, Hand, RowsTypeOK, RowStates, Rows
  <1>5. \/ keys' \in {keys, keys + 1} /\ UNCHANGED <<view, tabs, file>>
        \/ LoadStatus \/ StartCheckout \/ Revisit
        \/ \E s \in Subs : CompleteCheckout(s)
        \/ \E r \in Rows : Hand(r) /\ UNCHANGED <<keys, view, tabs>>
    BY DEF BillingNext, billingVars, pageVars, Cancel, Handle, HandleCompleted,
           HandlePayment, HandleDeleted, RemoveKey, RemoveDevices, DeletionLost,
           ProvisionBegin, Begin, ProvisionRefused, ProvisionPeer,
           ProvisionFails, ProvisionCommit, ProvisionLost, RegisterBegin,
           RegisterTakesOver, Download, ConfigAnswered, DownloadThrows,
           SuccessDownload
  <1> QED BY <1>1, <1>2, <1>3, <1>4, <1>5

-----------------------------------------------------------------------------
(* What was disturbed stays so.                                            *)
LEMMA DisturbedStays ==
  ASSUME [BillingNext]_billingVars, ~disturbed' PROVE ~disturbed
  BY DEF BillingNext, billingVars, LoadStatus, StartCheckout, Revisit,
         CompleteCheckout, Cancel, Handle, HandleCompleted, HandlePayment,
         HandleDeleted, RemoveKey, RemoveDevices, DeletionLost,
         ProvisionBegin, Begin, ProvisionRefused, ProvisionPeer,
         ProvisionFails, ProvisionCommit, ProvisionLost, RegisterBegin,
         RegisterTakesOver, Download, ConfigAnswered, DownloadThrows,
         SuccessDownload

(* What the invariant adds while nothing is disturbed.                     *)
KeysRight == OneProvision /\ KeysKnown /\ DeletionsLast

(* What ConfigWorks says while nothing is disturbed.                       *)
FileWorks ==
  file.key # 0 /\ rows[file.row].status # "inactive"
    => /\ rows[file.row].key = file.key
       /\ file \in peers \cup devices \/ file.key \in failed

(* While no page's provision is about to store a key, every peer's is      *)
(* stored, but for those excepted.                                         *)
LEMMA AllStored ==
  ASSUME KeysKnown,
         \A c \in Callers : provision[c].step # "set" \/ c = "app"
  PROVE  \A p \in peers : rows[p.row].key = p.key \/ p.key \in failed
  BY DEF KeysKnown, Provisioning

(* A step that leaves rows, peers and what is under way alone.             *)
LEMMA QuietKeepsKeys ==
  ASSUME KeysRight, FileWorks, failed \subseteq failed',
         devices \subseteq devices',
         UNCHANGED <<rows, peers, reached, deleting, provision, file>>
  PROVE  KeysRight' /\ FileWorks'
  <1>1. OneProvision'
    BY DEF KeysRight, OneProvision, Provisioning, Deleting
  <1>2. KeysKnown'
    BY DEF KeysRight, KeysKnown, Provisioning
  <1>3. DeletionsLast'
    BY DEF KeysRight, DeletionsLast, Deleting
  <1>4. FileWorks'
    BY DEF FileWorks
  <1> QED BY <1>1, <1>2, <1>3, <1>4 DEF KeysRight

(* An event handled in its order is not one the webhook is past.           *)
LEMMA InOrder ==
  ASSUME BillingTypeOK, NEW s \in Subs, NEW type \in DOMAIN Stage,
         NEW meets \in BOOLEAN, Handle(type, s, meets), ~disturbed'
  PROVE  /\ reached[s] < 3
         /\ \A q \in Subs : reached[q] = 3 => reached'[q] = 3
         /\ type = "deleted" => reached'[s] = 3
         /\ ~meets
         /\ UNCHANGED <<peers, devices, failed, provision, file>>
  <1>1. Stage[type] \in 1 .. 3 /\ (type = "deleted" => Stage[type] = 3)
    BY DEF Stage
  <1>2. reached \in [Subs -> 0 .. 3]
    BY DEF BillingTypeOK, EventsTypeOK
  <1>3. reached' = [reached EXCEPT ![s] = IF @ < Stage[type] THEN Stage[type]
                                          ELSE @]
    BY DEF Handle
  <1>4. ~Unordered(type, s) /\ ~meets
    BY DEF Handle
  <1>5. reached[s] < 3
    BY <1>1, <1>2, <1>4 DEF Unordered
  <1>6. UNCHANGED <<peers, devices, failed, provision, file>>
    BY DEF Handle
  <1> QED BY <1>1, <1>2, <1>3, <1>4, <1>5, <1>6

(* A row is added: it had no key, and nothing was provisioned for it.      *)
LEMMA CompletedKeepsKeys ==
  ASSUME BillingTypeOK, KeysRight, FileWorks, ~disturbed', NEW s \in Subs,
         HandleCompleted(s)
  PROVE  KeysRight' /\ FileWorks'
  <1> USE BillingAssumption DEF KeysRight
  <1> Handle("completed", s, FALSE)
    BY DEF HandleCompleted
  <1>1. \A q \in Subs : reached[q] = 3 => reached'[q] = 3
    BY InOrder DEF Stage
  <1> PICK r \in Rows :
        /\ rows[r].status = "none"
        /\ rows' = [rows EXCEPT ![r] =
                      [status |-> "trialing", sub |-> s, key |-> 0]]
    BY DEF HandleCompleted
  <1>2. UNCHANGED <<peers, devices, failed, deleting, provision, file>>
    BY DEF HandleCompleted, Handle
  <1>3. rows[r].key = 0 /\ deleting[r].step = "none"
    BY DEF DeletionsLast, Deleting
  <1>4. rows'[r] = [status |-> "trialing", sub |-> s, key |-> 0]
    BY DEF BillingTypeOK, RowsTypeOK
  <1>5. \A q \in Rows \ {r} : rows'[q] = rows[q]
    BY DEF BillingTypeOK, RowsTypeOK
  <1>6. \A c \in Provisioning : provision[c].row \in Rows \ {r}
    <2>1. \A c \in Provisioning : provision[c].row \in Rows
      BY DEF BillingTypeOK, ProvisionTypeOK, ProvisionStates, Provisioning, Rows
    <2> QED BY <2>1 DEF OneProvision
  <1>7. OneProvision'
    BY <1>2, <1>5, <1>6 DEF OneProvision, Provisioning, Deleting
  <1>8. KeysKnown'
    <2>1. \A p \in peers : p.row \in Rows /\ p.key # 0
      BY DEF BillingTypeOK, RowsTypeOK
    <2> QED BY <1>2, <1>3, <1>4, <1>5, <2>1 DEF KeysKnown, Provisioning
  <1>9. DeletionsLast'
    BY <1>1, <1>2, <1>3, <1>4, <1>5 DEF DeletionsLast, Deleting
  <1>10. FileWorks'
    <2>1. file.key # 0 => file.row \in Rows
      BY DEF BillingTypeOK, PageTypeOK, Rows
    <2> QED BY <1>2, <1>3, <1>4, <1>5, <2>1 DEF FileWorks
  <1> QED BY <1>7, <1>8, <1>9, <1>10

(* A payment changes the status of rows that are not inactive, and no key. *)
LEMMA PaymentKeepsKeys ==
  ASSUME BillingTypeOK, KeysRight, FileWorks, ~disturbed', NEW s \in Subs,
         NEW type \in {"paid", "failed"}, HandlePayment(type, s)
  PROVE  KeysRight' /\ FileWorks'
  <1> USE BillingAssumption DEF KeysRight
  <1> Handle(type, s, FALSE)
    BY DEF HandlePayment
  <1>1. reached[s] < 3 /\ \A q \in Subs : reached[q] = 3 => reached'[q] = 3
    BY InOrder DEF Stage
  <1>2. UNCHANGED <<peers, devices, failed, deleting, provision, file>>
    BY DEF HandlePayment, Handle
  <1>3. \A r \in RowsOf(s) : rows[r].status \notin {"none", "inactive"}
    BY <1>1 DEF RowsOf, DeletionsLast
  <1>4. \A r \in Rows :
          /\ rows'[r].key = rows[r].key /\ rows'[r].sub = rows[r].sub
          /\ \/ rows'[r].status = rows[r].status
             \/ /\ rows[r].status \notin {"none", "inactive"}
                /\ rows'[r].status \notin {"none", "inactive"}
    <2> SUFFICES ASSUME NEW r \in Rows, rows' # rows
                 PROVE  /\ rows'[r].key = rows[r].key
                        /\ rows'[r].sub = rows[r].sub
                        /\ \/ rows'[r].status = rows[r].status
                           \/ /\ rows[r].status \notin {"none", "inactive"}
                              /\ rows'[r].status \notin {"none", "inactive"}
      OBVIOUS
    <2>1. rows'[r] = IF r \notin RowsOf(s) THEN rows[r]
                     ELSE [rows[r] EXCEPT !.status =
                             IF type = "paid" THEN "active" ELSE "past_due"]
      BY DEF HandlePayment
    <2>2. rows[r] \in RowStates
      BY DEF BillingTypeOK, RowsTypeOK
    <2>3. CASE r \notin RowsOf(s)
      BY <2>1, <2>3
    <2>4. CASE r \in RowsOf(s)
      BY <1>3, <2>1, <2>2, <2>4 DEF RowStates
    <2> QED BY <2>3, <2>4
  <1>5. OneProvision'
    <2>1. \A c \in Provisioning : provision[c].row \in Rows
      BY DEF BillingTypeOK, ProvisionTypeOK, ProvisionStates, Provisioning, Rows
    <2> QED BY <1>2, <1>4, <2>1 DEF OneProvision, Provisioning, Deleting
  <1>6. KeysKnown'
    <2>1. \A p \in peers : p.row \in Rows
      BY DEF BillingTypeOK, RowsTypeOK
    <2> QED BY <1>2, <1>4, <2>1 DEF KeysKnown, Provisioning
  <1>7. DeletionsLast'
    BY <1>1, <1>2, <1>4 DEF DeletionsLast, Deleting
  <1>8. FileWorks'
    <2>1. file.key # 0 => file.row \in Rows
      BY DEF BillingTypeOK, PageTypeOK, Rows
    <2> QED BY <1>2, <1>4, <2>1 DEF FileWorks
  <1> QED BY <1>5, <1>6, <1>7, <1>8

(* A deletion that meets no provision makes a living row inactive.         *)
LEMMA DeletedKeepsKeys ==
  ASSUME BillingTypeOK, KeysRight, FileWorks, ~disturbed', NEW s \in Subs,
         HandleDeleted(s)
  PROVE  KeysRight' /\ FileWorks'
  <1> USE BillingAssumption DEF KeysRight
  <1>1. /\ reached[s] < 3 /\ reached'[s] = 3
        /\ \A q \in Subs : reached[q] = 3 => reached'[q] = 3
        /\ UNCHANGED <<peers, devices, failed, provision, file>>
    BY InOrder DEF Stage, HandleDeleted
  <1>2. CASE UNCHANGED <<rows, deleting>>
    BY <1>1, <1>2 DEF OneProvision, Provisioning, Deleting, KeysKnown,
       DeletionsLast, FileWorks
  <1>3. CASE ~UNCHANGED <<rows, deleting>>
    <2>1. Handle("deleted", s, Provisioning # {})
      BY <1>3 DEF HandleDeleted
    <2>2. Provisioning = {}
      BY <2>1, InOrder DEF Stage
    <2> PICK r \in RowsOf(s) :
          /\ rows' = [rows EXCEPT ![r].status = "inactive"]
          /\ deleting' = [deleting EXCEPT ![r] =
                            [step |-> IF rows[r].key = 0 THEN "devices"
                                      ELSE "key",
                             key |-> rows[r].key]]
      BY <1>3 DEF HandleDeleted
    <2>3. /\ r \in Rows /\ rows[r].sub = s
          /\ rows[r].status \notin {"none", "inactive"}
      BY <1>1 DEF RowsOf, DeletionsLast
    <2>4. /\ rows'[r].status = "inactive" /\ rows'[r].key = rows[r].key
          /\ rows'[r].sub = s /\ deleting'[r].key = rows[r].key
          /\ deleting'[r].step = IF rows[r].key = 0 THEN "devices" ELSE "key"
      BY <2>3 DEF BillingTypeOK, RowsTypeOK, RowStates
    <2>5. \A q \in Rows \ {r} :
            rows'[q] = rows[q] /\ deleting'[q] = deleting[q]
      BY <2>3 DEF BillingTypeOK, RowsTypeOK
    <2>6. OneProvision'
      BY <1>1, <2>2 DEF OneProvision, Provisioning
    <2>7. KeysKnown'
      <3>1. \A p \in peers : p.row \in Rows
        BY DEF BillingTypeOK, RowsTypeOK
      <3> QED BY <1>1, <2>4, <2>5, <3>1 DEF KeysKnown, Provisioning
    <2>8. DeletionsLast'
      BY <1>1, <2>3, <2>4, <2>5 DEF DeletionsLast, Deleting
    <2>9. FileWorks'
      <3>1. file.key # 0 => file.row \in Rows
        BY DEF BillingTypeOK, PageTypeOK, Rows
      <3> QED BY <1>1, <2>4, <2>5, <3>1 DEF FileWorks
    <2> QED BY <2>6, <2>7, <2>8, <2>9
  <1> QED BY <1>2, <1>3

(* A step of a deletion removes peers and devices of its own row only, and *)
(* forgets a key whose peer is gone or excepted.                           *)
LEMMA DeletionKeepsKeys ==
  ASSUME BillingTypeOK, KeysRight, FileWorks, NEW r \in Rows,
         RemoveKey(r) \/ RemoveDevices(r) \/ DeletionLost(r)
  PROVE  KeysRight' /\ FileWorks'
  <1> USE BillingAssumption DEF KeysRight
  <1>1. /\ rows[r].status = "inactive" /\ rows[r].sub \in Subs
        /\ reached[rows[r].sub] = 3 /\ deleting[r].step # "none"
        /\ deleting[r].step = "key" => rows[r].key = deleting[r].key
    BY DEF RemoveKey, RemoveDevices, DeletionLost, DeletionsLast, Deleting
  <1>2. Provisioning = {}
    BY <1>1 DEF OneProvision, Deleting
  <1>3. UNCHANGED <<reached, provision, file>> /\ failed \subseteq failed'
    BY DEF RemoveKey, RemoveDevices, DeletionLost, stripeVars
  <1>4. \A q \in Rows \ {r} : rows'[q] = rows[q] /\ deleting'[q] = deleting[q]
    BY DEF RemoveKey, RemoveDevices, DeletionLost, BillingTypeOK, RowsTypeOK
  <1>5. /\ rows'[r].status = "inactive" /\ rows'[r].sub = rows[r].sub
        /\ deleting'[r].step \in {"none", "devices"}
        /\ rows'[r].key = rows[r].key \/ rows'[r].key = 0
    <2> /\ rows \in [Rows -> RowStates]
        /\ deleting \in [Rows -> DeletionStates]
      BY DEF BillingTypeOK, RowsTypeOK
    <2>1. CASE RemoveKey(r)
      BY <1>1, <2>1 DEF RemoveKey, RowStates, DeletionStates
    <2>2. CASE RemoveDevices(r) \/ DeletionLost(r)
      BY <1>1, <2>2 DEF RemoveDevices, DeletionLost, NoDeletion
    <2> QED BY <2>1, <2>2
  <1>6. \A p \in peers \cup devices : p.row \in Rows
    BY DEF BillingTypeOK, RowsTypeOK
  <1>7. /\ peers' \subseteq peers /\ devices' \subseteq devices
        /\ \A p \in peers \ peers' : p.row = r
        /\ \A p \in devices \ devices' : p.row = r
    BY DEF RemoveKey, RemoveDevices, DeletionLost, DevicesOf
  <1>8. OneProvision'
    BY <1>2, <1>3 DEF OneProvision, Provisioning
  <1>9. rows'[r].key # 0 => rows'[r].key \in failed'
    <2>1. CASE RemoveKey(r)
      BY <2>1 DEF RemoveKey, BillingTypeOK, RowsTypeOK, RowStates
    <2>2. CASE RemoveDevices(r)
      BY <1>1, <1>3, <2>2 DEF RemoveDevices, DeletionsLast
    <2>3. CASE DeletionLost(r)
      BY <1>1, <1>3, <2>3 DEF DeletionLost, DeletionsLast
    <2> QED BY <2>1, <2>2, <2>3
  <1>10. KeysKnown'
    <2>1. ASSUME NEW p \in peers'
          PROVE  rows'[p.row].key = p.key \/ p.key \in failed'
      <3>1. p \in peers /\ p.row \in Rows /\ p = [row |-> p.row, key |-> p.key]
        BY <1>6, <1>7 DEF BillingTypeOK, RowsTypeOK
      <3>2. rows[p.row].key = p.key \/ p.key \in failed
        BY <1>2, <3>1, AllStored DEF Provisioning
      <3>3. CASE p.row # r
        BY <1>3, <1>4, <3>1, <3>2, <3>3
      <3>4. CASE p.row = r /\ rows'[r].key # rows[r].key
        <4>1. RemoveKey(r)
          BY <3>4 DEF RemoveKey, RemoveDevices, DeletionLost
        <4>2. p # [row |-> r, key |-> deleting[r].key]
              \/ deleting[r].key \in failed'
          BY <2>1, <4>1 DEF RemoveKey
        <4> QED BY <1>1, <1>3, <3>1, <3>2, <3>4, <4>1, <4>2 DEF RemoveKey
      <3> QED BY <1>3, <3>2, <3>3, <3>4
    <2>2. ASSUME NEW q \in Rows, rows'[q].key # 0, rows'[q].status # "inactive"
          PROVE  \/ [row |-> q, key |-> rows'[q].key] \in peers' \cup devices'
                 \/ rows'[q].key \in failed'
      <3>1. q # r
        BY <1>5, <2>2
      <3>2. \/ [row |-> q, key |-> rows[q].key] \in peers \cup devices
            \/ rows[q].key \in failed
        BY <1>4, <2>2, <3>1 DEF KeysKnown
      <3> QED BY <1>3, <1>4, <1>7, <3>1, <3>2
    <2> QED BY <2>1, <2>2 DEF KeysKnown
  <1>11. DeletionsLast'
    BY <1>1, <1>3, <1>4, <1>5, <1>9 DEF DeletionsLast, Deleting
  <1>12. FileWorks'
    <2>1. file.key # 0 => file.row \in Rows
      BY DEF BillingTypeOK, PageTypeOK, Rows
    <2> SUFFICES ASSUME file.key # 0, rows'[file.row].status # "inactive"
                 PROVE  /\ rows'[file.row].key = file.key
                        /\ \/ file \in peers' \cup devices'
                           \/ file.key \in failed'
      BY <1>3 DEF FileWorks
    <2>2. file.row \in Rows /\ file.row # r
      BY <1>5, <2>1
    <2>3. /\ rows[file.row].key = file.key
          /\ file \in peers \cup devices \/ file.key \in failed
      BY <1>4, <2>2 DEF FileWorks
    <2> QED BY <1>3, <1>4, <1>7, <2>2, <2>3
  <1> QED BY <1>8, <1>10, <1>11, <1>12

(* A provision begins where nothing else is under way.                     *)
LEMMA BeginKeepsKeys ==
  ASSUME BillingTypeOK, KeysRight, FileWorks, ~disturbed', NEW c \in Callers,
         NEW r \in Rows, OnlyLive(r), NEW first \in BOOLEAN,
         first <=> rows[r].key = 0, c # "app" => first, Begin(c, r, first)
  PROVE  KeysRight' /\ FileWorks'
  <1> USE BillingAssumption DEF KeysRight
  <1>1. rows[r].status \notin {"none", "inactive"}
    BY DEF OnlyLive, LiveRows, Live
  <1>2. Provisioning = {} /\ Deleting = {}
    BY DEF Begin
  <1>3. UNCHANGED <<rows, peers, devices, failed, reached, deleting, file>>
    BY DEF Begin, stripeVars
  <1>4. /\ provision'[c] = [step |-> "chosen", row |-> r, key |-> 0,
                            first |-> first]
        /\ \A d \in Callers \ {c} : provision'[d] = provision[d]
    BY DEF Begin, BillingTypeOK, ProvisionTypeOK
  <1>5. Provisioning' = {c}
    BY <1>2, <1>4 DEF Provisioning
  <1>6. OneProvision'
    BY <1>1, <1>2, <1>3, <1>4, <1>5 DEF OneProvision, Deleting
  <1>7. KeysKnown'
    <2>1. \A p \in peers : rows[p.row].key = p.key \/ p.key \in failed
      BY <1>2, AllStored DEF Provisioning
    <2> QED BY <1>3, <2>1 DEF KeysKnown
  <1>8. DeletionsLast' /\ FileWorks'
    BY <1>3 DEF DeletionsLast, Deleting, FileWorks
  <1> QED BY <1>6, <1>7, <1>8

(* The key that is generated is the peer its provision speaks of.          *)
LEMMA PeerKeepsKeys ==
  ASSUME BillingTypeOK, KeysRight, FileWorks, NEW c \in Callers,
         ProvisionPeer(c)
  PROVE  KeysRight' /\ FileWorks'
  <1> USE BillingAssumption DEF KeysRight
  <1>1. UNCHANGED <<rows, devices, reached, deleting, file>>
        /\ c \in Provisioning
    BY DEF ProvisionPeer, Provisioning, stripeVars
  <1> DEFINE row == provision[c].row
             peer == [row |-> row, key |-> keys + 1]
  <1>2. /\ peers \subseteq peers' /\ peers' \subseteq peers \cup {peer}
        /\ failed \subseteq failed'
        /\ c # "app" => peer \in peers' \/ keys + 1 \in failed'
        /\ c = "app" => peers' = peers
    BY DEF ProvisionPeer
  <1>3. /\ provision'[c] = [step |-> "set", row |-> row, key |-> keys + 1,
                            first |-> provision[c].first]
        /\ \A d \in Callers \ {c} : provision'[d] = provision[d]
    BY DEF ProvisionPeer, BillingTypeOK, ProvisionTypeOK, ProvisionStates
  <1>4. Provisioning' = Provisioning
    BY <1>1, <1>3 DEF Provisioning
  <1>5. Provisioning = {c}
    BY <1>1 DEF OneProvision
  <1> HIDE DEF peer
  <1>6. OneProvision'
    BY <1>1, <1>2, <1>3, <1>4, <1>5 DEF OneProvision, Deleting, peer
  <1>7. KeysKnown'
    <2>1. \A p \in peers : rows[p.row].key = p.key \/ p.key \in failed
      BY <1>5, AllStored DEF Provisioning, ProvisionPeer
    <2>2. /\ provision'[c].step = "set" /\ provision'[c].row = peer.row
          /\ provision'[c].key = peer.key /\ c \in Provisioning'
      BY <1>1, <1>3, <1>4 DEF peer
    <2> QED BY <1>1, <1>2, <2>1, <2>2 DEF KeysKnown
  <1>8. DeletionsLast' /\ FileWorks'
    BY <1>1, <1>2 DEF DeletionsLast, Deleting, FileWorks
  <1> QED BY <1>6, <1>7, <1>8

(* The key is stored in the row it is a peer for, or as a device's.        *)
LEMMA CommitKeepsKeys ==
  ASSUME BillingTypeOK, KeysRight, FileWorks, NEW c \in Callers,
         ProvisionCommit(c)
  PROVE  KeysRight' /\ FileWorks'
  <1> USE BillingAssumption DEF KeysRight
  <1>1. UNCHANGED <<peers, failed, reached, deleting, file>>
        /\ c \in Provisioning /\ devices \subseteq devices'
    BY DEF ProvisionCommit, Provisioning, stripeVars
  <1> DEFINE r == provision[c].row
             key == provision[c].key
  <1>2. r \in Rows /\ key # 0
    BY <1>1 DEF ProvisionCommit, BillingTypeOK, ProvisionTypeOK,
                ProvisionStates, Rows
  <1>3. /\ rows[r].status \notin {"none", "inactive"}
        /\ provision[c].first <=> rows[r].key = 0
        /\ c # "app" => provision[c].first
        /\ Provisioning = {c} /\ Deleting = {}
    BY <1>1 DEF OneProvision
  <1>4. \/ [row |-> r, key |-> key] \in peers' \cup devices'
        \/ key \in failed'
    <2>1. CASE c = "app"
      BY <2>1 DEF ProvisionCommit
    <2>2. CASE c # "app"
      BY <1>1, <2>2 DEF OneProvision, ProvisionCommit
    <2> QED BY <2>1, <2>2
  <1>5. /\ rows'[r].key = IF provision[c].first THEN key ELSE rows[r].key
        /\ rows'[r].status = rows[r].status /\ rows'[r].sub = rows[r].sub
    BY <1>2 DEF ProvisionCommit, BillingTypeOK, RowsTypeOK, RowStates
  <1>6. \A q \in Rows \ {r} : rows'[q] = rows[q]
    BY <1>2 DEF ProvisionCommit, BillingTypeOK, RowsTypeOK
  <1>7. Provisioning' = {}
    BY <1>3 DEF ProvisionCommit, NoProvision, Provisioning, BillingTypeOK,
                ProvisionTypeOK
  <1>8. OneProvision'
    BY <1>7 DEF OneProvision
  <1>9. KeysKnown'
    <2>1. ASSUME NEW p \in peers
          PROVE  rows'[p.row].key = p.key \/ p.key \in failed
      <3>1. p.row \in Rows /\ p.key # 0
        BY DEF BillingTypeOK, RowsTypeOK
      <3>2. \/ rows[p.row].key = p.key \/ p.key \in failed
            \/ c # "app" /\ r = p.row /\ key = p.key
        BY <1>3 DEF KeysKnown
      <3>3. CASE p.row = r
        BY <1>3, <1>5, <3>1, <3>2, <3>3
      <3>4. CASE p.row # r
        BY <1>6, <3>1, <3>2, <3>4
      <3> QED BY <3>3, <3>4
    <2>2. ASSUME NEW q \in Rows, rows'[q].key # 0, rows'[q].status # "inactive"
          PROVE  \/ [row |-> q, key |-> rows'[q].key] \in peers' \cup devices'
                 \/ rows'[q].key \in failed'
      <3>1. CASE q = r /\ provision[c].first
        BY <1>4, <1>5, <3>1
      <3>2. CASE ~(q = r /\ provision[c].first)
        <4>1. rows'[q].key = rows[q].key /\ rows'[q].status = rows[q].status
          BY <1>5, <1>6, <3>2
        <4> QED BY <1>1, <2>2, <4>1 DEF KeysKnown
      <3> QED BY <3>1, <3>2
    <2> QED BY <1>1, <2>1, <2>2 DEF KeysKnown
  <1>10. DeletionsLast'
    BY <1>1, <1>2, <1>3, <1>5, <1>6 DEF DeletionsLast, Deleting
  <1>11. FileWorks'
    <2> SUFFICES ASSUME file.key # 0, rows'[file.row].status # "inactive"
                 PROVE  /\ rows'[file.row].key = file.key
                        /\ file \in peers \cup devices' \/ file.key \in failed
      BY <1>1 DEF FileWorks
    <2>1. file.row \in Rows
      BY DEF BillingTypeOK, PageTypeOK, Rows
    <2>2. rows[file.row].status # "inactive"
      BY <1>5, <1>6, <2>1
    <2>3. /\ rows[file.row].key = file.key
          /\ file \in peers \cup devices \/ file.key \in failed
      BY <2>2 DEF FileWorks
    <2>4. file.row # r \/ ~provision[c].first
      BY <1>3, <2>3
    <2> QED BY <1>1, <1>5, <1>6, <2>1, <2>3, <2>4
  <1> QED BY <1>8, <1>9, <1>10, <1>11

(* A provision that is turned down leaves a key excepted, or none.         *)
LEMMA TurnedDownKeepsKeys ==
  ASSUME BillingTypeOK, KeysRight, FileWorks, NEW c \in Callers, TurnedDown(c)
  PROVE  KeysRight' /\ FileWorks'
  <1> USE DEF KeysRight
  <1>1. /\ UNCHANGED <<rows, peers, devices, reached, deleting, file>>
        /\ failed \subseteq failed' /\ c \in Provisioning
        /\ provision[c].step = "set" => provision[c].key \in failed'
    BY DEF TurnedDown, ProvisionFails, ProvisionLost, Provisioning, stripeVars
  <1>2. Provisioning = {c}
    BY <1>1 DEF OneProvision
  <1>3. Provisioning' = {}
    BY <1>2 DEF TurnedDown, ProvisionFails, ProvisionLost, NoProvision,
                Provisioning, BillingTypeOK, ProvisionTypeOK
  <1>4. OneProvision'
    BY <1>3 DEF OneProvision
  <1>5. KeysKnown'
    BY <1>1, <1>2 DEF KeysKnown
  <1>6. DeletionsLast' /\ FileWorks'
    BY <1>1 DEF DeletionsLast, Deleting, FileWorks
  <1> QED BY <1>4, <1>5, <1>6

(* A file is handed out for a living row, whose key is a peer or excepted. *)
LEMMA HandKeepsKeys ==
  ASSUME BillingTypeOK, KeysRight, NEW r \in Rows, OnlyLive(r),
         rows[r].key # 0, Hand(r),
         UNCHANGED <<rows, peers, devices, failed, reached, deleting,
                     provision>>
  PROVE  KeysRight' /\ FileWorks'
  <1>1. KeysRight'
    BY DEF KeysRight, OneProvision, Provisioning, Deleting, KeysKnown,
           DeletionsLast
  <1>2. rows[r].status # "inactive"
    BY DEF OnlyLive, LiveRows, Live
  <1>3. /\ file'.row = r /\ file'.key = rows[r].key
        /\ file' \in peers \cup devices \/ file'.key \in failed
    BY <1>2 DEF Hand, KeysRight, KeysKnown
  <1> QED BY <1>1, <1>3 DEF FileWorks

(* Every step keeps the invariant.                                         *)
LEMMA BillingSteps ==
  ASSUME BillingIInv, [BillingNext]_billingVars PROVE BillingIInv'
  <1>1. BillingTypeOK'
    BY RowsTypes, EventsTypes, ProvisionTypes, PageTypes
       DEF BillingIInv, BillingTypeOK
  <1>2. ASSUME ~disturbed' PROVE KeysRight' /\ FileWorks'
    <2>1. BillingTypeOK /\ KeysRight /\ FileWorks
      BY <1>2, DisturbedStays DEF BillingIInv, KeysRight, ConfigWorks, FileWorks
    <2>2. CASE /\ UNCHANGED <<rows, peers, failed, reached, deleting,
                              provision, file>>
               /\ devices \subseteq devices'
      BY <2>1, <2>2, QuietKeepsKeys
    <2>3. ASSUME NEW r \in Rows, OnlyLive(r), rows[r].key # 0, Hand(r),
                 UNCHANGED <<rows, peers, devices, failed, reached, deleting,
                             provision>>
          PROVE  KeysRight' /\ FileWorks'
      BY <2>1, <2>3, HandKeepsKeys
    <2>4. ASSUME NEW s \in Subs,
                 \/ HandleCompleted(s) \/ HandleDeleted(s)
                 \/ \E type \in {"paid", "failed"} : HandlePayment(type, s)
          PROVE  KeysRight' /\ FileWorks'
      BY <1>2, <2>1, <2>4, CompletedKeepsKeys, PaymentKeepsKeys,
         DeletedKeepsKeys
    <2>5. ASSUME NEW r \in Rows,
                 RemoveKey(r) \/ RemoveDevices(r) \/ DeletionLost(r)
          PROVE  KeysRight' /\ FileWorks'
      BY <2>1, <2>5, DeletionKeepsKeys
    <2>6. ASSUME NEW c \in Callers, ProvisionBegin(c)
          PROVE  KeysRight' /\ FileWorks'
      BY <1>2, <2>1, <2>6, BeginKeepsKeys DEF ProvisionBegin
    <2>7. CASE RegisterBegin
      <3>1. "app" \in Callers
        BY DEF Callers
      <3>2. PICK r \in Rows : OnlyLive(r) /\ Begin("app", r, rows[r].key = 0)
        BY <2>7 DEF RegisterBegin
      <3>3. (rows[r].key = 0) \in BOOLEAN
        OBVIOUS
      <3> QED BY <1>2, <2>1, <3>1, <3>2, <3>3, BeginKeepsKeys
    <2>8. ASSUME NEW c \in Callers,
                 ProvisionPeer(c) \/ ProvisionCommit(c) \/ TurnedDown(c)
          PROVE  KeysRight' /\ FileWorks'
      BY <2>1, <2>8, PeerKeepsKeys, CommitKeepsKeys, TurnedDownKeepsKeys
    <2>9. \/ /\ UNCHANGED <<rows, peers, failed, reached, deleting, provision,
                            file>>
             /\ devices \subseteq devices'
          \/ \E r \in Rows :
               /\ OnlyLive(r) /\ rows[r].key # 0 /\ Hand(r)
               /\ UNCHANGED <<rows, peers, devices, failed, reached, deleting,
                              provision>>
          \/ \E s \in Subs : \/ HandleCompleted(s) \/ HandleDeleted(s)
                             \/ \E type \in {"paid", "failed"} :
                                  HandlePayment(type, s)
          \/ \E r \in Rows :
               RemoveKey(r) \/ RemoveDevices(r) \/ DeletionLost(r)
          \/ \E c \in Callers : ProvisionBegin(c) \/ ProvisionPeer(c)
                                \/ ProvisionCommit(c) \/ TurnedDown(c)
          \/ RegisterBegin
      BY DEF BillingNext, billingVars, stripeVars, LoadStatus, StartCheckout,
             Revisit, CompleteCheckout, Cancel, ProvisionRefused, TurnedDown,
             RegisterTakesOver, Download, ConfigAnswered, DownloadThrows,
             SuccessDownload
    <2> QED BY <2>2, <2>3, <2>4, <2>5, <2>6, <2>7, <2>8, <2>9
  <1>3. ConfigWorks'
    BY <1>2 DEF ConfigWorks, FileWorks
  <1>4. AccessEnds'
    <2> SUFFICES ASSUME ~disturbed', NEW r \in Rows,
                        rows'[r].status = "inactive", r \notin Deleting',
                        NEW p \in peers', p.row = r
                 PROVE  p.key \in failed'
      BY DEF AccessEnds
    <2>1. rows'[r].key = 0 \/ rows'[r].key \in failed'
      BY <1>2 DEF KeysRight, DeletionsLast, Deleting
    <2>2. p.key # 0
      BY <1>1 DEF BillingTypeOK, RowsTypeOK
    <2>3. \A c \in Provisioning' : provision'[c].row # r
      BY <1>2 DEF KeysRight, OneProvision
    <2> QED BY <1>2, <2>1, <2>2, <2>3 DEF KeysRight, KeysKnown
  <1> QED BY <1>1, <1>2, <1>3, <1>4 DEF BillingIInv, KeysRight

(* A file that was downloaded works while its subscription lives, and a    *)
(* deletion that is over leaves no peer, but for keys of which a command   *)
(* or a handler failed.                                                    *)
THEOREM KeysFollowSubscriptions ==
  BillingSpec => [](ConfigWorks /\ AccessEnds)
  <1>1. BillingInit => BillingIInv
    BY BillingStart
  <1>2. BillingIInv /\ [BillingNext]_billingVars => BillingIInv'
    BY BillingSteps
  <1>3. BillingIInv => ConfigWorks /\ AccessEnds
    BY DEF BillingIInv
  <1> QED BY <1>1, <1>2, <1>3, PTL DEF BillingSpec
============================================================================

------------------------------ MODULE GameForm ------------------------------
(***************************************************************************)
(* The form that asks for a game                                           *)
(* (dashboard/frontend/src/pages/GamesDatabase.jsx) and the backend that   *)
(* refuses a game already asked for (dashboard/backend/routers/games.py).  *)
(*                                                                         *)
(* One game, asked for by this page and by others.  The backend looks for  *)
(* its row and adds one in two steps.  Leaving the page leaves what it     *)
(* submitted under way.                                                    *)
(***************************************************************************)
EXTENDS Naturals

CONSTANTS
  MaxFormPages,  (* bound of the model: openings of the page               *)
  MaxEntries     (* bound of the model: rows of the game                   *)

ASSUME GameFormAssumption == MaxFormPages \in Nat \ {0} /\ MaxEntries \in Nat

OtherBrowser == 0
Submitters == 0 .. MaxFormPages

VARIABLES
  formPage,     (* the opening that is on the screen                       *)
  showForm, submitting,
  told,         (* its message: nothing, submitted, exists or failed       *)
  entry,        (* by opening, and of another browser: the request's state *)
  entries,      (* rows of the game                                        *)
  racedEntry    (* history: the backend looked two up at once              *)

formVars ==
  <<formPage, showForm, submitting, told, entry, entries, racedEntry>>

FormInit ==
  /\ formPage = 1 /\ showForm = FALSE /\ submitting = FALSE
  /\ told = "nothing"
  /\ entry = [s \in Submitters |-> "none"]
  /\ entries = 0 /\ racedEntry = FALSE

-----------------------------------------------------------------------------
ToggleForm ==
  /\ showForm' = ~showForm
  /\ told' = "nothing"
  /\ UNCHANGED <<formPage, submitting, entry, entries, racedEntry>>

(* handleSubmit with a name; the button is disabled while it waits.        *)
SubmitForm ==
  /\ showForm /\ ~submitting
  /\ submitting' = TRUE /\ told' = "nothing"
  /\ entry' = [entry EXCEPT ![formPage] = "sent"]
  /\ UNCHANGED <<formPage, showForm, entries, racedEntry>>

SubmitElsewhere ==
  /\ entry[OtherBrowser] = "none"
  /\ entry' = [entry EXCEPT ![OtherBrowser] = "sent"]
  /\ UNCHANGED <<formPage, showForm, submitting, told, entries, racedEntry>>

Found(n) == IF n = 0 THEN "checked" ELSE IF n = 1 THEN "exists" ELSE "failed"

LookUp(s, answer) ==
  /\ entry[s] = "sent"
  /\ entry' = [entry EXCEPT ![s] = answer]
  /\ racedEntry' = (racedEntry \/ (answer = "checked" /\
                      \E q \in Submitters : entry[q] = "checked"))
  /\ UNCHANGED <<formPage, showForm, submitting, told, entries>>

(* submit_request looks for the game: with one row it is refused (409),    *)
(* with two the look-up itself fails.                                      *)
CheckEntry(s) == LookUp(s, Found(entries))

AddEntry(s) ==
  /\ entry[s] = "checked" /\ entries < MaxEntries
  /\ entries' = entries + 1
  /\ entry' = [entry EXCEPT ![s] = "submitted"]
  /\ UNCHANGED <<formPage, showForm, submitting, told, racedEntry>>

(* The page takes the answer, and closes the form when it succeeded.       *)
CloseRequest(s, message) ==
  /\ entry' = [entry EXCEPT ![s] = "none"]
  /\ IF s = formPage
     THEN /\ submitting' = FALSE /\ told' = message
          /\ showForm' = (showForm /\ message # "submitted")
     ELSE UNCHANGED <<submitting, told, showForm>>
  /\ UNCHANGED <<formPage, entries, racedEntry>>

FormAnswered(s) ==
  /\ entry[s] \in {"submitted", "exists", "failed"}
  /\ CloseRequest(s, entry[s])

(* The request throws, on its way there or back.                           *)
FormLost(s) ==
  /\ entry[s] \in {"sent", "submitted", "exists", "failed"}
  /\ CloseRequest(s, "failed")

(* The page is left and opened again.                                      *)
OpenForm ==
  /\ formPage < MaxFormPages
  /\ formPage' = formPage + 1
  /\ showForm' = FALSE /\ submitting' = FALSE /\ told' = "nothing"
  /\ UNCHANGED <<entry, entries, racedEntry>>

-----------------------------------------------------------------------------
FormNext ==
  \/ ToggleForm \/ SubmitForm \/ SubmitElsewhere \/ OpenForm
  \/ \E s \in Submitters :
       CheckEntry(s) \/ AddEntry(s) \/ FormAnswered(s) \/ FormLost(s)

FormSpec == FormInit /\ [][FormNext]_formVars

-----------------------------------------------------------------------------
(***************************************************************************)
(* Properties.                                                             *)
(***************************************************************************)
FormTypeOK ==
  /\ formPage \in 1 .. MaxFormPages
  /\ showForm \in BOOLEAN /\ submitting \in BOOLEAN
  /\ told \in {"nothing", "submitted", "exists", "failed"}
  /\ entry \in [Submitters ->
       {"none", "sent", "checked", "exists", "failed", "submitted"}]
  /\ entries \in Nat
  /\ racedEntry \in BOOLEAN

(* A game is asked for once, unless the backend looked up two at once; and *)
(* a page that says it has been, is right.                                 *)
AskedOnce ==
  /\ ~racedEntry => entries <= 1
  /\ told \in {"submitted", "exists"} => entries > 0

(* What it rests on: one look-up at a time finds nothing only while there  *)
(* is nothing, and every answer that speaks of a row is right.             *)
LookUpsRight ==
  /\ ~racedEntry => \A s \in Submitters : entry[s] = "checked" =>
       entries = 0 /\ \A q \in Submitters : entry[q] = "checked" => q = s
  /\ \A s \in Submitters : entry[s] \in {"submitted", "exists"} => entries > 0

FormIInv == FormTypeOK /\ AskedOnce /\ LookUpsRight
=============================================================================

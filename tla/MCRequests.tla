----------------------------- MODULE MCRequests -----------------------------
(***************************************************************************)
(* What prototype.js and controls.js do with requests, side by side: `part'*)
(* names the one that moves, and the others rest.  Answers to the          *)
(* autocompleter come in any order, and some words are too short to be     *)
(* asked for, or they come in the order of the requests.                   *)
(***************************************************************************)
EXTENDS AjaxRequest

CONSTANTS
  Texts,          \* what the updater's server answers
  MaxUpdaters,    \* bound: its requests
  MaxDecay,       \* bound: equal answers that it counts
  Long, Some, Empty

VARIABLES
  part,
  running, updater, waiting, connected, timer, oldTimers, container, lastText, decay, due, extra,
  text, focus, hasFocus, changed, active, index, entryCount, menu, list,
  observer, blurs, requests, asked,
  editing, saving, form, html, oldInnerHTML, shown, saves, loads, disposed

Updater == INSTANCE PeriodicalUpdater

\* The word that was chosen is answered with itself only, one word with nothing.
Words == {Long, Some, Empty}
CountOf == [w \in Words |-> IF w = Long THEN 3 ELSE IF w = Empty THEN 0 ELSE 1]

Menu == INSTANCE Autocompleter
          WITH Chosen <- Some, Short <- {Empty}, Count <- CountOf, InOrder <- FALSE,
               MaxRequests <- 2, MaxBlurs <- 2
MenuInOrder == INSTANCE Autocompleter
          WITH Chosen <- Some, Short <- {}, Count <- CountOf, InOrder <- TRUE,
               MaxRequests <- 2, MaxBlurs <- 2

Editor == INSTANCE InPlaceEditor
            WITH Texts <- {"old", "new", "other", "last"}, LoadsText <- TRUE,
                 MaxRequests <- 5

ASSUME RequestsAssumption ==
  /\ Updater!PeriodicalUpdaterAssumption
  /\ Menu!AutocompleterAssumption /\ MenuInOrder!AutocompleterAssumption
  /\ Editor!InPlaceEditorAssumption

updaterVars == <<running, updater, waiting, connected, timer, oldTimers, container,
                 lastText, decay, due, extra>>
menuVars == <<text, focus, hasFocus, changed, active, index, entryCount, menu, list,
              observer, blurs, requests, asked>>
editorVars == <<editing, saving, form, html, oldInnerHTML, shown, saves, loads, disposed>>
allVars == <<part, vars, updaterVars, menuVars, editorVars>>

-----------------------------------------------------------------------------
AllInit ==
  /\ part \in {"requests", "updater", "menu", "menuInOrder", "editor"}
  /\ Init /\ Updater!Init
  /\ Menu!Init /\ (part \in {"menu", "menuInOrder"} \/ text = Some)
  /\ Editor!Init /\ (part = "editor" \/ html = "old")

Moves(p) ==
  /\ part = p
  /\ IF p = "requests" THEN Next ELSE UNCHANGED vars
  /\ IF p = "updater" THEN Updater!Next ELSE UNCHANGED updaterVars
  /\ IF p = "menu" THEN Menu!Next
     ELSE IF p = "menuInOrder" THEN MenuInOrder!Next ELSE UNCHANGED menuVars
  /\ IF p = "editor" THEN Editor!Next ELSE UNCHANGED editorVars
  /\ UNCHANGED part

AllNext ==
  \/ Moves("requests") \/ Moves("updater") \/ Moves("menu")
  \/ Moves("menuInOrder") \/ Moves("editor")

\* No step of one that rests is enabled: its fairness asks for nothing.
AllSpec ==
  /\ AllInit /\ [][AllNext]_allVars
  /\ Fairness /\ Updater!Fairness /\ Editor!Fairness
  /\ part = "menu" => Menu!Fairness

-----------------------------------------------------------------------------
\* The updater has no more loops that ask side by side than it was started without
\* a stop before, and the state of the requests and of the updater stays typed: the
\* count is never below zero.
RequestsSound == TypeOK /\ Updater!TypeOK /\ Updater!OneLoop

\* Whatever was typed, clicked, answered or cancelled, in any order: Return
\* selects an entry there is, the menu is the answer to the last request when
\* answers keep their order, and the element or its form is on the page.
PageUsable ==
  /\ Menu!TypeOK /\ Menu!SelectsAnEntry /\ Menu!ChangedHasTimer
  /\ part = "menuInOrder" => Menu!ListForLastRequest
  /\ Editor!TypeOK /\ Editor!EitherShown /\ Editor!NotStuck

\* What an answer may do: end its request; bring the updater to ask again; end
\* "Saving..."; but not open a menu that was left, nor close the form a user
\* edits in, nor change a container whose updater was stopped before each start.
AnswersHandled ==
  /\ AllEnd
  /\ Updater!AsksAgain /\ Updater!QuietWhenStopped /\ Updater!ChangeResetsDelay
  /\ part = "menu" => Menu!HiddenAfterBlur
  /\ Menu!NotOpenedAfterBlur
  /\ Editor!SavingEnds /\ Editor!AnswersLeaveForm
=============================================================================

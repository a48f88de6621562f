--------------------------- MODULE InPlaceEditor ---------------------------
(***************************************************************************)
(* Ajax.InPlaceEditor of controls.js: a click replaces the element by a    *)
(* form, whose text may have to be loaded first; submitting puts "Saving"  *)
(* into the element until the server has answered.  An answer reports a    *)
(* failure first and its completion then, in one go.  Texts are abstract;  *)
(* the colours of the hover effect are left out.                           *)
(***************************************************************************)
EXTENDS Naturals

CONSTANTS
  Texts,         \* what the element may hold; "" is an empty element
  LoadsText,     \* options.loadTextURL is given
  MaxRequests    \* bound: loads under way

InPlaceEditorAssumption ==
  Texts \subseteq STRING /\ LoadsText \in BOOLEAN /\ MaxRequests \in Nat

Saving == "Saving..."
Null == "null"

VARIABLES
  editing, saving,
  form,            \* "none", "loading" (its field is disabled) or "ready"
  html,            \* element.innerHTML
  oldInnerHTML,
  shown,           \* the element is displayed
  saves, loads,    \* requests under way
  disposed         \* dispose has removed the listeners

vars == <<editing, saving, form, html, oldInnerHTML, shown, saves, loads, disposed>>

Init ==
  /\ editing = FALSE /\ saving = FALSE
  /\ form = "none"
  /\ html \in Texts
  /\ oldInnerHTML = Null
  /\ shown = TRUE
  /\ saves = 0 /\ loads = 0
  /\ disposed = FALSE

-----------------------------------------------------------------------------
(* Faulty variants of the helpers below; no action uses them. *)

NothingOld(old) == FALSE

-----------------------------------------------------------------------------
MayEdit == ~saving /\ ~editing

EnterEditMode ==
  /\ ~disposed
  /\ shown
  /\ MayEdit
  /\ loads < MaxRequests
  /\ editing' = TRUE
  /\ shown' = FALSE
  /\ IF LoadsText
     THEN form' = "loading" /\ loads' = loads + 1
     ELSE form' = "ready" /\ UNCHANGED loads
  /\ UNCHANGED <<saving, html, oldInnerHTML, saves, disposed>>

\* onLoadedExternalText finds the form that is open now, or none and throws.
LoadedExternalText ==
  /\ loads > 0
  /\ loads' = loads - 1
  /\ form' = IF form = "none" THEN form ELSE "ready"
  /\ UNCHANGED <<editing, saving, html, oldInnerHTML, shown, saves, disposed>>

ShownAfter == TRUE
EditingAfter == FALSE

LeaveEditMode ==
  /\ form' = "none"
  /\ shown' = ShownAfter
  /\ editing' = EditingAfter
  /\ saving' = FALSE
  /\ oldInnerHTML' = Null

\* onclickCancel leaves twice, which is the same as once.
Cancel ==
  /\ form # "none"
  /\ LeaveEditMode
  /\ UNCHANGED <<html, saves, loads, disposed>>

\* onSubmit: onLoading comes first, then the request is sent.
Submit ==
  /\ form # "none"
  /\ saving' = TRUE
  /\ form' = "none"
  /\ oldInnerHTML' = html
  /\ html' = Saving
  /\ shown' = TRUE
  /\ saves' = saves + 1
  /\ UNCHANGED <<editing, loads, disposed>>

\* "if (this.oldInnerHTML)": neither null nor an empty text counts.
HasOld(old) == old \notin {Null, ""}

\* The updater puts the answer into the element; then onComplete.
Saved ==
  /\ saves > 0
  /\ saves' = saves - 1
  /\ html' \in Texts
  /\ LeaveEditMode
  /\ UNCHANGED <<loads, disposed>>

\* onFailure, then onComplete.
SaveFails ==
  /\ saves > 0
  /\ saves' = saves - 1
  /\ html' = IF HasOld(oldInnerHTML) THEN oldInnerHTML ELSE html
  /\ LeaveEditMode
  /\ UNCHANGED <<loads, disposed>>

Dispose ==
  /\ ~disposed
  /\ disposed' = TRUE
  /\ html' = IF HasOld(oldInnerHTML) THEN oldInnerHTML ELSE html
  /\ LeaveEditMode
  /\ UNCHANGED <<saves, loads>>

Next ==
  \/ EnterEditMode \/ LoadedExternalText \/ Cancel \/ Submit \/ Saved \/ SaveFails
  \/ Dispose

Spec == Init /\ [][Next]_vars

\* The server answers, well or badly.
Fairness ==
  /\ WF_vars(LoadedExternalText)
  /\ WF_vars(Saved \/ SaveFails)

FairSpec == Spec /\ Fairness

-----------------------------------------------------------------------------
TypeOK ==
  /\ \A b \in {editing, saving, shown, disposed} : b \in BOOLEAN
  /\ form \in {"none", "loading", "ready"}
  /\ html \in Texts \cup {Saving}
  /\ oldInnerHTML \in Texts \cup {Null}
  /\ saves \in 0..1
  /\ loads \in 0..MaxRequests

\* The page shows the element or its form, never both and never neither.
EitherShown == shown <=> form = "none"

\* "Saving..." is not "displayed indefinitely", as the comment in onSubmit puts it.
SavingEnds == (html = Saving) ~> (html # Saving)

\* No answer takes away the form that a user is editing in.
AnswersLeaveForm == [][(saves' < saves \/ loads' < loads) /\ form # "none" => form' # "none"]_vars

\* Whatever was cancelled, answered or disposed of, the element can be edited
\* again once nothing is under way.
NotStuck == (form = "none" /\ saves = 0) => MayEdit
=============================================================================

--------------------------- MODULE Autocompleter ---------------------------
(***************************************************************************)
(* Autocompleter.Base and Ajax.Autocompleter of controls.js: one text      *)
(* field, the menu of choices under it, the timer that waits until the     *)
(* user stops typing, the requests under way, the timers that hide the     *)
(* menu some time after the field has lost the focus, and the fade that    *)
(* hides it in the end.                                                    *)
(***************************************************************************)
EXTENDS Integers, Sequences, SequencesExt, FiniteSetsExt

CONSTANTS
  Words,         \* values of the field
  Chosen,        \* the word a selected entry writes into the field
  Short,         \* words below minChars
  Count,         \* number of entries the server answers a word with
  InOrder,       \* answers arrive in the order of their requests
  MaxRequests,   \* bound: requests under way
  MaxBlurs       \* bound: timers of onBlur under way

AutocompleterAssumption ==
  /\ Chosen \in Words /\ Short \subseteq Words
  /\ Count \in [Words -> Nat] /\ InOrder \in BOOLEAN
  /\ MaxRequests \in Nat /\ MaxBlurs \in Nat

NoWord == "none"
MaxCount == Max({Count[w] : w \in Words})

VARIABLES
  text,         \* element.value
  focus,        \* the browser's focus is on the field
  hasFocus, changed, active, index, entryCount,   \* fields of the object
  menu,         \* display of update: "hidden", "shown" or "fading"
  list,         \* the word whose entries are in the menu
  observer,     \* the timer of onKeyPress is set
  blurs,        \* timers of onBlur
  requests,     \* the words asked for, in order
  asked         \* the word of the last request

vars == <<text, focus, hasFocus, changed, active, index, entryCount, menu, list,
          observer, blurs, requests, asked>>

field == <<hasFocus, changed, active, index, entryCount>>
screen == <<menu, list>>
timers == <<observer, blurs, requests, asked>>

Init ==
  /\ text \in Words
  /\ focus = FALSE
  /\ hasFocus = FALSE /\ changed = FALSE /\ active = FALSE
  /\ index = 0 /\ entryCount = 0
  /\ menu = "hidden" /\ list = NoWord
  /\ observer = FALSE /\ blurs = 0 /\ requests = <<>> /\ asked = NoWord

-----------------------------------------------------------------------------
(* Faulty variants of the helpers below; no action uses them. *)

KeepIndex == index

-----------------------------------------------------------------------------
Shown(m) == IF m = "hidden" THEN "shown" ELSE m
Hidden(m) == IF m = "shown" THEN "fading" ELSE m

MarkPrevious == IF index > 0 THEN index - 1 ELSE entryCount - 1
MarkNext == IF index < entryCount - 1 THEN index + 1 ELSE 0

\* render, with the values the fields have by then.
Render(count) ==
  IF count > 0
  THEN /\ menu' = IF hasFocus THEN Shown(menu) ELSE menu
       /\ active' = (active \/ hasFocus)
  ELSE /\ menu' = Hidden(menu)
       /\ active' = FALSE

\* selectEntry and the hide that follows it; updateElement focuses the field.
SelectEntry ==
  /\ text' = Chosen
  /\ focus' = TRUE
  /\ active' = FALSE
  /\ menu' = Hidden(menu)

\* A key the menu does not use: it changes the text, and the timer starts again.
Type ==
  /\ focus
  /\ \E w \in Words : text' = w
  /\ changed' = TRUE
  /\ hasFocus' = TRUE
  /\ observer' = TRUE
  /\ UNCHANGED <<focus, active, index, entryCount, screen, blurs, requests, asked>>

KeyReturn ==
  /\ focus /\ active
  /\ SelectEntry
  /\ UNCHANGED <<hasFocus, changed, index, entryCount, list, timers>>

KeyEsc ==
  /\ focus /\ active
  /\ menu' = Hidden(menu)
  /\ active' = FALSE
  /\ UNCHANGED <<text, focus, hasFocus, changed, index, entryCount, list, timers>>

KeyUpDown ==
  /\ focus /\ active
  /\ index' \in {MarkPrevious, MarkNext}
  /\ Render(entryCount)
  /\ UNCHANGED <<text, focus, hasFocus, changed, entryCount, list, timers>>

\* The pointer moves over an entry of the menu or clicks on it.
OnHover ==
  /\ menu # "hidden"
  /\ \E i \in 0..(entryCount - 1) :
        /\ index # i
        /\ index' = i
  /\ Render(entryCount)
  /\ UNCHANGED <<text, focus, hasFocus, changed, entryCount, list, timers>>

OnClick ==
  /\ menu # "hidden"
  /\ \E i \in 0..(entryCount - 1) : index' = i
  /\ SelectEntry
  /\ UNCHANGED <<hasFocus, changed, entryCount, list, timers>>

Focus ==
  /\ ~focus
  /\ focus' = TRUE
  /\ UNCHANGED <<text, field, screen, timers>>

KeepsObserver == observer
HasFocusAfterBlur == FALSE

OnBlur ==
  /\ focus
  /\ blurs < MaxBlurs
  /\ focus' = FALSE
  /\ blurs' = blurs + 1
  /\ observer' = KeepsObserver
  /\ hasFocus' = HasFocusAfterBlur
  /\ active' = FALSE
  /\ UNCHANGED <<text, changed, index, entryCount, screen, requests, asked>>

\* 250 milliseconds after a blur, whatever has happened since.
BlurTimer ==
  /\ blurs > 0
  /\ blurs' = blurs - 1
  /\ menu' = Hidden(menu)
  /\ UNCHANGED <<text, focus, field, list, observer, requests, asked>>

FadeEnds ==
  /\ menu = "fading"
  /\ menu' = "hidden"
  /\ UNCHANGED <<text, focus, field, list, timers>>

GetToken == text

\* The user has not typed for a while: ask the server, unless too little is typed.
OnObserverEvent ==
  /\ observer
  /\ Len(requests) < MaxRequests
  /\ observer' = FALSE
  /\ changed' = FALSE
  /\ IF GetToken \notin Short
     THEN /\ requests' = Append(requests, GetToken)
          /\ asked' = GetToken
          /\ UNCHANGED <<active, menu>>
     ELSE /\ active' = FALSE
          /\ menu' = Hidden(menu)
          /\ UNCHANGED <<requests, asked>>
  /\ UNCHANGED <<text, focus, hasFocus, index, entryCount, list, blurs>>

Accepts == ~changed /\ hasFocus

FirstIndex == 0

\* onComplete and updateChoices, or nothing when the answer comes too late.
OnComplete ==
  \E n \in DOMAIN requests :
    /\ InOrder => n = 1
    /\ requests' = RemoveAt(requests, n)
    /\ IF Accepts
       THEN /\ list' = requests[n]
            /\ entryCount' = Count[requests[n]]
            /\ index' = FirstIndex
            /\ Render(Count[requests[n]])
       ELSE UNCHANGED <<list, entryCount, index, menu, active>>
    /\ UNCHANGED <<text, focus, hasFocus, changed, observer, blurs, asked>>

Next ==
  \/ Type \/ KeyReturn \/ KeyEsc \/ KeyUpDown \/ OnHover \/ OnClick \/ Focus \/ OnBlur
  \/ BlurTimer \/ FadeEnds \/ OnObserverEvent \/ OnComplete

Spec == Init /\ [][Next]_vars

\* Timers fire, fades end and requests are answered; the user may do nothing.
Fairness ==
  /\ WF_vars(BlurTimer)
  /\ WF_vars(FadeEnds)
  /\ WF_vars(OnObserverEvent)
  /\ WF_vars(OnComplete)

FairSpec == Spec /\ Fairness

-----------------------------------------------------------------------------
TypeOK ==
  /\ text \in Words
  /\ \A b \in {focus, hasFocus, changed, active, observer} : b \in BOOLEAN
  /\ index \in 0..MaxCount /\ entryCount \in 0..MaxCount
  /\ menu \in {"hidden", "shown", "fading"}
  /\ list \in Words \cup {NoWord} /\ asked \in Words \cup {NoWord}
  /\ blurs \in 0..MaxBlurs
  /\ requests \in Seq(Words) /\ Len(requests) <= MaxRequests

\* Return never selects an entry that the menu does not have, also when an
\* answer has replaced a longer list by a shorter one.
SelectsAnEntry == active => index \in 0..(entryCount - 1)

\* The object refuses answers while the text has changed: then the timer that
\* ends this must be set, or the field would never get a menu again.
ChangedHasTimer == changed => observer

\* When all is answered, an active menu is the answer to the last request.
ListForLastRequest == active /\ ~observer /\ requests = <<>> => list = asked

\* A field that has lost the focus does not keep its menu, though answers may
\* still come in.
HiddenAfterBlur == (~focus /\ menu = "shown") ~> (focus \/ menu # "shown")

\* Once the field has been left and the timers are over, no answer opens the menu.
NotOpenedAfterBlur == [][~focus /\ menu = "hidden" => menu' = "hidden"]_vars
=============================================================================

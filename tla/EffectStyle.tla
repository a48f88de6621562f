---------------------------- MODULE EffectStyle ----------------------------
(***************************************************************************)
(* What the combination effects of effects.js do to the inline style of    *)
(* one element and of its first child: what each changes when it is        *)
(* created, when it is set up, while it runs and when it finishes, and the *)
(* values it has kept to put back.  The queue is modelled in EffectQueue;  *)
(* here effects run side by side, or one at a time, or through toggle,     *)
(* which admits one effect per element.                                    *)
(*                                                                         *)
(* "own" is what the page gave the element, "mid" a value in the middle of *)
(* an animation, "child" the value of the first child; height stands for   *)
(* width, height and font size, top for top and left.  An element that is  *)
(* not positioned has no top, left or bottom of its own.                   *)
(***************************************************************************)
EXTENDS Naturals, Sequences, SequencesExt

CONSTANT
  StyleOptions    \* what a page may do with an element

Pairs == [slide  |-> [show |-> "SlideDown", hide |-> "SlideUp"],
          blind  |-> [show |-> "BlindDown", hide |-> "BlindUp"],
          appear |-> [show |-> "Appear",    hide |-> "Fade"]]

AllKinds == {"Fade", "Appear", "Puff", "BlindUp", "BlindDown", "SwitchOff", "DropOut",
             "Shake", "SlideDown", "SlideUp", "Squish", "Grow", "Shrink", "Pulsate", "Fold"}

\* The kinds that a script starts and the pairs that toggle is called with; how
\* many effects that are started directly overlap, 0 when all are started through
\* toggle, and how many are created, which are bounds.
EffectStyleAssumption ==
  \A o \in StyleOptions :
    /\ o.kinds \subseteq AllKinds /\ o.togglable \subseteq DOMAIN Pairs
    /\ o.live \in Nat /\ o.created \in Nat
    /\ "Puff" \in o.kinds => o.live <= 1

VARIABLES
  options,
  pair,      \* the pair of effects the page toggles this element with
  own,       \* the element's style before any effect
  style,     \* its style now
  live,      \* the effects in their queues, in the order of creation
  created,   \* effects created so far
  last,      \* the effect that finished last, in a set
  lost       \* the attributes that need not come back to what the page gave

vars == <<options, pair, own, style, live, created, last, lost>>

Original == [shown : BOOLEAN, position : {"static", "relative"}, overflow : {"visible", "hidden"},
             height : {"own"}, top : {"own"}, opacity : {"full"}, bottom : {"own"},
             childPosition : {"static", "relative"}, childBottom : {"own"},
             madePositioned : {FALSE}, madeClipping : {"none"}, madeChild : {FALSE}]

Init ==
  /\ options \in StyleOptions
  /\ pair \in options.togglable
  /\ own \in Original
  /\ style = own
  /\ live = <<>>
  /\ created = 0
  /\ last = {}
  /\ lost = {}

-----------------------------------------------------------------------------
(* Faulty variants of the helpers below; no action uses them. *)

NeverRestores(kind, stage) == FALSE

-----------------------------------------------------------------------------
(* The methods of elements that the effects call. *)

Show(s) == [s EXCEPT !.shown = TRUE]
Hide(s) == [s EXCEPT !.shown = FALSE]

MakePositioned(s) ==
  IF s.position = "static" THEN [s EXCEPT !.position = "relative", !.madePositioned = TRUE]
  ELSE s

UndoPositioned(s) ==
  IF s.madePositioned
  THEN [s EXCEPT !.position = "static", !.madePositioned = FALSE, !.top = "own", !.bottom = "own"]
  ELSE s

MakeClipping(s) ==
  IF s.madeClipping = "none"
  THEN [s EXCEPT !.madeClipping = s.overflow, !.overflow = "hidden"]
  ELSE s

UndoClipping(s) ==
  IF s.madeClipping # "none"
  THEN [s EXCEPT !.overflow = s.madeClipping, !.madeClipping = "none"]
  ELSE s

\* makePositioned and undoPositioned of the first child.
MakeChildPositioned(s) ==
  IF s.childPosition = "static"
  THEN [s EXCEPT !.childPosition = "relative", !.madeChild = TRUE]
  ELSE s

UndoChildPositioned(s) ==
  IF s.madeChild
  THEN [s EXCEPT !.childPosition = "static", !.madeChild = FALSE, !.childBottom = "own"]
  ELSE s

\* What the closures of an effect keep when it is created.
Kept(s) == [opacity |-> s.opacity, top |-> s.top, height |-> s.height,
            position |-> s.position, childBottom |-> s.childBottom]

PutOpacity(s, saved) == [s EXCEPT !.opacity = saved.opacity]
PutPlace(s, saved) == [s EXCEPT !.top = saved.top]
PutBox(s, saved) == [s EXCEPT !.top = saved.top, !.height = saved.height]

-----------------------------------------------------------------------------
(* The effects.  A chain (SwitchOff, Shake, Grow, Fold) has two stages.    *)

Chained(kind) == kind \in {"SwitchOff", "Shake", "Grow", "Fold"}

\* The constructor itself, and beforeStart.
Created(kind, s) ==
  CASE kind \in {"BlindUp", "Fold"} -> MakeClipping(s)
    [] kind = "SlideUp" -> Show(MakeClipping(MakeChildPositioned(MakePositioned(s))))
    [] kind = "Shrink"  -> MakeClipping(MakePositioned(s))
    [] OTHER            -> s

\* afterSetup of the effects that open the element from nothing.
OpenBlind(s) == Show([MakeClipping(s) EXCEPT !.height = "mid"])
OpenSlide(s) == OpenBlind(MakeChildPositioned(MakePositioned(s)))

\* beforeSetup, setup and afterSetup at the first frame of a stage.
\* (The parts of a Parallel are set up in turn: a Move among them positions the
\* element, if another effect has undone that since the Parallel was created.)
SetUp(kind, stage, s) ==
  CASE kind = "Appear" \/ (kind = "SwitchOff" /\ stage = 1) -> Show([s EXCEPT !.opacity = "mid"])
    [] kind = "SwitchOff" /\ stage = 2 -> MakeClipping(MakePositioned(s))
    [] kind = "Puff"                   -> [s EXCEPT !.position = "absolute"]
    [] kind = "BlindDown"              -> OpenBlind(s)
    [] kind = "SlideDown"              -> OpenSlide(s)
    [] kind \in {"DropOut", "Shake", "Shrink"} -> MakePositioned(s)
    [] kind = "Squish"                 -> MakeClipping(s)
    [] kind = "Grow" /\ stage = 1      -> MakePositioned(MakeClipping(Hide(s)))
    [] kind = "Grow" /\ stage = 2      -> MakePositioned(Show([s EXCEPT !.height = "mid"]))
    [] OTHER                           -> s

Fades == {"Fade", "Appear", "Puff", "DropOut", "Shrink", "Pulsate"}
Moves == {"DropOut", "Shake", "Grow", "Shrink"}
Scales == {"Puff", "BlindUp", "BlindDown", "SlideUp", "SlideDown", "Squish", "Shrink", "Fold"}
Slides == {"SlideUp", "SlideDown"}

FadesIn(kind, stage) ==
  kind \in Fades \/ (kind = "SwitchOff" /\ stage = 1) \/ (kind = "Grow" /\ stage = 2)
ScalesIn(kind, stage) == kind \in Scales \/ (kind \in {"SwitchOff", "Grow"} /\ stage = 2)
MovesIn(kind, stage) == kind \in Moves \/ (kind = "SwitchOff" /\ stage = 2)

\* A frame of the stage, and the last one for the opacity.
Drawn(kind, stage, s, opacity) ==
  [s EXCEPT
     !.opacity = IF FadesIn(kind, stage) THEN opacity ELSE @,
     !.height = IF ScalesIn(kind, stage) THEN "mid" ELSE @,
     !.top = IF MovesIn(kind, stage) \/ (kind = "Puff" /\ s.position = "absolute") THEN "mid" ELSE @,
     !.childBottom = IF kind \in Slides THEN "mid" ELSE @]

LastOpacity(kind) ==
  IF kind \in {"Fade", "Puff", "DropOut", "Shrink"} THEN "zero" ELSE "full"

\* finish of the Scale with restoreAfterFinish: what setup had found.
Restores(kind, stage) == ScalesIn(kind, stage) /\ kind # "Fold"

(* afterFinish at the end of the last stage.                               *)

FinishedFirst(kind, s, saved) ==
  CASE kind = "Fade"      -> PutOpacity(Hide(s), saved)
    [] kind = "Appear"    -> s
    [] kind = "Puff"      -> [PutOpacity(Hide(s), saved) EXCEPT !.position = saved.position]
    [] kind = "BlindUp"   -> UndoClipping(Hide(s))
    [] kind = "BlindDown" -> UndoClipping(s)
    [] kind = "SwitchOff" -> PutOpacity(UndoPositioned(UndoClipping(Hide(s))), saved)
    [] kind = "DropOut"   -> PutPlace(PutOpacity(UndoPositioned(Hide(s)), saved), saved)

\* SlideUp puts the bottom that the child had on the element.
ChildValue(value) == IF value = "own" THEN "child" ELSE value

FinishedSlide(kind, s, saved) ==
  CASE kind = "Shake"     -> PutPlace(UndoPositioned(s), saved)
    [] kind = "SlideDown" ->
         [UndoPositioned(UndoChildPositioned(UndoClipping(s))) EXCEPT !.childBottom = saved.childBottom]
    [] kind = "SlideUp"   ->
         [UndoPositioned(UndoChildPositioned(UndoClipping(Hide(s)))) EXCEPT !.bottom = ChildValue(saved.childBottom)]
    [] kind = "Squish"    -> UndoClipping(Hide(s))

FinishedGrow(kind, s, saved) ==
  CASE kind = "Grow"    -> PutOpacity(PutBox(UndoPositioned(UndoClipping(s)), saved), saved)
    [] kind = "Shrink"  -> PutOpacity(PutBox(UndoPositioned(UndoClipping(Hide(s))), saved), saved)
    [] kind = "Pulsate" -> PutOpacity(s, saved)
    [] kind = "Fold"    -> PutBox(UndoClipping(Hide(s)), saved)

Finished(kind, s, saved) ==
  CASE kind \in {"Shake", "SlideDown", "SlideUp", "Squish"} -> FinishedSlide(kind, s, saved)
    [] kind \in {"Grow", "Shrink", "Pulsate", "Fold"}       -> FinishedGrow(kind, s, saved)
    [] OTHER                                                -> FinishedFirst(kind, s, saved)

-----------------------------------------------------------------------------
\* What an effect has kept to put back at its end, and what a Scale restores.
Puts(kind) ==
  CASE kind \in {"Fade", "Puff", "SwitchOff", "Pulsate"} -> {"opacity"}
    [] kind = "DropOut"            -> {"opacity", "top"}
    [] kind = "Shake"              -> {"top"}
    [] kind \in {"Grow", "Shrink"} -> {"opacity", "top", "height"}
    [] kind = "Fold"               -> {"top", "height"}
    [] kind = "SlideDown"          -> {"childBottom"}
    [] OTHER                       -> {}

Finds(kind, stage) ==
  IF Restores(kind, stage) THEN {"top", "height"} \ Puts(kind) ELSE {}

Animated == {"opacity", "top", "height", "bottom", "childBottom"}

\* Those of the attributes that are not as the page gave them.
Foreign(attributes) == {a \in attributes : style[a] # own[a]}

\* The attributes that SlideUp leaves changed: its child's bottom becomes the
\* element's, and the child, when it was positioned already, keeps the last frame's.
Misplaced(kind) ==
  IF kind # "SlideUp" THEN {}
  ELSE IF style.madeChild THEN {"bottom"} ELSE {"bottom", "childBottom"}

-----------------------------------------------------------------------------
New(kind) == [kind |-> kind, stage |-> 1, running |-> FALSE,
              saved |-> Kept(style), found |-> Kept(style)]

Create(kind, admitted) ==
  /\ created < options.created
  /\ created' = created + 1
  /\ style' = Created(kind, style)
  /\ live' = IF admitted THEN Append(live, New(kind)) ELSE live
  /\ lost' = IF admitted THEN lost \cup Foreign(Puts(kind)) ELSE lost
  /\ UNCHANGED <<options, pair, own, last>>

\* new Effect.<Kind>(element), in the default queue.
Direct ==
  /\ Len(live) < options.live
  /\ \E kind \in options.kinds : Create(kind, TRUE)

\* queue: {position: 'end', scope: element.id, limit: 1}
BelowLimit == live = <<>>

\* Effect.toggle: the effect is created in any case, and then queued or not.
Toggle ==
  /\ options.live = 0
  /\ Create(IF style.shown THEN Pairs[pair].hide ELSE Pairs[pair].show, BelowLimit)

\* The first frame of a stage.  Scale keeps what it finds before afterSetup.
Begin ==
  \E i \in DOMAIN live :
    LET e == live[i]
        ready == SetUp(e.kind, e.stage, style)
    IN  /\ ~e.running
        /\ live' = [live EXCEPT ![i] = [e EXCEPT !.running = TRUE, !.found = Kept(style)]]
        /\ style' = Drawn(e.kind, e.stage, ready, "mid")
        /\ lost' = lost \cup Foreign(Finds(e.kind, e.stage))
        /\ UNCHANGED <<options, pair, own, created, last>>

Frame ==
  \E i \in DOMAIN live :
    LET e == live[i]
    IN  /\ e.running
        /\ style' = Drawn(e.kind, e.stage, style, "mid")
        /\ UNCHANGED <<options, pair, own, live, created, last, lost>>

\* The last frame of a stage; the callback of a chain creates the next stage.
End ==
  \E i \in DOMAIN live :
    LET e == live[i]
        drawn == Drawn(e.kind, e.stage, style, LastOpacity(e.kind))
        restored == IF Restores(e.kind, e.stage) THEN PutBox(drawn, e.found) ELSE drawn
    IN  /\ e.running
        /\ IF Chained(e.kind) /\ e.stage = 1
           THEN /\ live' = [live EXCEPT ![i] = [e EXCEPT !.stage = 2, !.running = FALSE]]
                /\ style' = restored
                /\ UNCHANGED <<last, lost>>
           ELSE /\ live' = RemoveAt(live, i)
                /\ style' = Finished(e.kind, restored, e.saved)
                /\ last' = {e.kind}
                /\ lost' = lost \cup Misplaced(e.kind)
        /\ UNCHANGED <<options, pair, own, created>>

Next == Direct \/ Toggle \/ Begin \/ Frame \/ End

Spec == Init /\ [][Next]_vars

-----------------------------------------------------------------------------
TypeOK ==
  /\ options \in StyleOptions /\ pair \in options.togglable
  /\ own \in Original
  /\ style \in [shown : BOOLEAN, position : {"static", "relative", "absolute"},
                overflow : {"visible", "hidden"}, height : {"own", "mid"}, top : {"own", "mid"},
                opacity : {"full", "mid", "zero"}, bottom : {"own", "child", "mid"},
                childPosition : {"static", "relative"}, childBottom : {"own", "mid"},
                madePositioned : BOOLEAN, madeClipping : {"none", "visible", "hidden"},
                madeChild : BOOLEAN]
  /\ Len(live) <= IF options.live = 0 THEN 1 ELSE options.live
  /\ created \in 0..options.created
  /\ last \subseteq AllKinds
  /\ lost \subseteq Animated

Idle == live = <<>>

\* When no effect is left, the element has its own opacity, size and place again,
\* and its child too, in whatever order effects on it have overlapped, except what
\* an effect found in the middle of another's animation when it kept it, and what
\* SlideUp changes.  When effects run one at a time, or through toggle, they
\* find nothing in the middle, and SlideUp changes the bottom only.
Restored ==
  /\ Idle => \A a \in Animated \ lost : style[a] = own[a]
  /\ options.live <= 1 => lost \subseteq {"bottom", "childBottom"}
  /\ options.live <= 1 /\ own.childPosition = "static" => "childBottom" \notin lost

\* Clipping and positioning are undone, and to the values of the page, however
\* effects that make and undo them have overlapped.
NoTraceLeft ==
  Idle => /\ style.overflow = own.overflow /\ style.madeClipping = "none"
          /\ style.position = own.position /\ ~style.madePositioned
          /\ style.childPosition = own.childPosition /\ ~style.madeChild

\* While toggle blinds or slides an element, what is outside its box is hidden.
ClippedWhileScaled ==
  options.live = 0 => \A i \in DOMAIN live :
    live[i].running /\ live[i].kind \in {"BlindUp", "BlindDown", "SlideUp", "SlideDown"} =>
      style.overflow = "hidden"

\* An element that an effect has hidden is hidden and one it has opened is
\* shown, whatever was clicked while the effect ran.
ShownAsAsked ==
  options.live = 0 /\ Idle /\ last # {} =>
    style.shown = (last \cap {"Fade", "BlindUp", "SlideUp"} = {})
=============================================================================

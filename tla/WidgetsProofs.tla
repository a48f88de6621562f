--------------------------- MODULE WidgetsProofs ---------------------------
(***************************************************************************)
(* The proofs that the tips of domTT.js, the grid of dates and the pop-up  *)
(* calendars of calendar.js are sound, for every page, set of options and  *)
(* bound: an inductive invariant of each, and the arithmetic of dates that *)
(* the grid rests on.                                                      *)
(***************************************************************************)
EXTENDS MCWidgets, TLAPS

-----------------------------------------------------------------------------
(* The tips *)

\* What a tip shows agrees with its status and with its fader.
Seen(t) ==
  /\ t.status = "none" => ~t.display /\ t.opacity = 0 /\ t.fading = "no"
  /\ t.fading = "in" => t.status = "active" /\ options.fade \in {"in", "both"}
  /\ t.fading = "out" => t.status # "active" /\ options.fade \in {"out", "both"}
  /\ options.fade = "neither" => (t.display <=> t.status = "active")
  /\ options.fade = "out" => t.opacity = 0
  /\ t.status = "active" =>
       t.display /\ (t.fading = "no" => t.opacity = MaxOpacity \/ options.fade = "out")
  /\ t.status # "active" /\ t.fading = "no" => t.opacity = 0 \/ options.fade = "neither"
  /\ t.lifetimeTimeout => options.type = "greasy"
  /\ (options.trail = "lazy" => options.fade = "neither") => (t.hides => t.status = "active")

\* Its timers are those of its status, unless it trails the mouse later.
Timed(t) ==
  options.trail # "lazy" =>
    /\ t.oldTimeouts = 0 /\ t.trails = 0
    /\ t.activateTimeout <=> t.status = "pending"
    /\ t.lifetimeTimeout => t.status = "active"

Opened == {"pending", "active"}

Sound(t) == t \in Tips!Tip /\ Seen(t) /\ Timed(t)

\* A tip is not open any more, or as it was; no timer was added.
ClosedOf(t, u) ==
  /\ Sound(u) /\ Tips!Waiting(u) <= Tips!Waiting(t)
  /\ u = t \/ u.status \notin Opened

LEMMA TipNumbers ==
  /\ MaxOpacity \in Nat /\ MaxOpacity > 0
  /\ 0 \in 0..MaxOpacity /\ MaxOpacity \in 0..MaxOpacity
  /\ MaxTimers \in Nat /\ MaxTimers > 0
  /\ TipOptions \subseteq Tips!Options
  /\ "none" \notin Owners
<1> QED
  BY WidgetsAssumption DEF WidgetsAssumption, Tips!DomTooltipAssumption

LEMMA TipFields ==
  ASSUME NEW t \in Tips!Tip
  PROVE  /\ t.oldTimeouts \in Nat /\ t.trails \in Nat /\ t.opacity \in 0..MaxOpacity
         /\ t.activateTimeout \in BOOLEAN
         /\ t.activateTimeout => Tips!Waiting(t) = t.oldTimeouts + t.trails + 1
         /\ ~t.activateTimeout => Tips!Waiting(t) = t.oldTimeouts + t.trails
<1>1. t.oldTimeouts \in Nat /\ t.trails \in Nat /\ t.opacity \in 0..MaxOpacity
      /\ t.activateTimeout \in BOOLEAN
  BY DEF Tips!Tip
<1> QED
  BY <1>1 DEF Tips!Waiting

LEMMA CollidedFacts ==
  ASSUME NEW t \in Tips!Tip, NEW place
  PROVE  /\ Tips!Collided(t, place) \in Tips!Tip
         /\ \A u \in {Tips!Collided(t, place)} :
              /\ u.status = t.status /\ u.eventType = t.eventType /\ u.destroy = t.destroy
              /\ u.activateTimeout = t.activateTimeout /\ u.oldTimeouts = t.oldTimeouts
              /\ u.lifetimeTimeout = t.lifetimeTimeout /\ u.trails = t.trails
              /\ u.display = t.display /\ u.opacity = t.opacity /\ u.fading = t.fading
              /\ u.hides => t.hides \/ t.display
<1> QED
  BY DEF Tips!Collided, Tips!Tip

LEMMA UnhiddenFacts ==
  ASSUME NEW t \in Tips!Tip, t.status = "pending", Seen(t), options \in Tips!Options
  PROVE  /\ Tips!Unhidden(t) \in Tips!Tip /\ Seen(Tips!Unhidden(t))
         /\ \A u \in {Tips!Unhidden(t)} :
              /\ u.status = "active" /\ u.display
              /\ u.activateTimeout = t.activateTimeout /\ u.oldTimeouts = t.oldTimeouts
              /\ u.lifetimeTimeout = t.lifetimeTimeout /\ u.trails = t.trails
<1> DEFINE u == Tips!Unhidden(t)
           s == [t EXCEPT !.status = "active", !.display = TRUE]
<1>0. /\ s \in Tips!Tip /\ s.status = "active" /\ s.display /\ s.opacity = t.opacity
      /\ s.fading = t.fading /\ s.activateTimeout = t.activateTimeout
      /\ s.oldTimeouts = t.oldTimeouts /\ s.lifetimeTimeout = t.lifetimeTimeout
      /\ s.trails = t.trails
      /\ t.lifetimeTimeout => options.type = "greasy"
      /\ options.fade = "out" => t.opacity = 0
  BY DEF Tips!Tip, Seen
<1>1. options.fade \in {"neither", "in", "out", "both"}
  BY DEF Tips!Options
<1>2. CASE options.fade = "neither"
  <2>1. u = [s EXCEPT !.opacity = MaxOpacity]
    BY <1>2 DEF Tips!Unhidden
  <2> HIDE DEF s, u
  <2>2. u \in Tips!Tip /\ u.opacity = MaxOpacity /\ u.fading = s.fading /\ u.status = s.status
        /\ u.display = s.display /\ u.activateTimeout = s.activateTimeout
        /\ u.oldTimeouts = s.oldTimeouts /\ u.lifetimeTimeout = s.lifetimeTimeout
        /\ u.trails = s.trails
    BY <1>0, <2>1, TipNumbers DEF Tips!Tip
  <2>3. Seen(u)
    BY <1>0, <1>2, <2>2, TipNumbers DEF Seen
  <2> QED
    BY <1>0, <2>2, <2>3 DEF u
<1>3. CASE options.fade = "out"
  <2>1. u = [s EXCEPT !.fading = "no"]
    BY <1>3 DEF Tips!Unhidden
  <2> HIDE DEF s, u
  <2>2. u \in Tips!Tip /\ u.opacity = s.opacity /\ u.fading = "no" /\ u.status = s.status
        /\ u.display = s.display /\ u.activateTimeout = s.activateTimeout
        /\ u.oldTimeouts = s.oldTimeouts /\ u.lifetimeTimeout = s.lifetimeTimeout
        /\ u.trails = s.trails
    BY <1>0, <2>1 DEF Tips!Tip
  <2>3. Seen(u)
    BY <1>0, <1>3, <2>2 DEF Seen
  <2> QED
    BY <1>0, <2>2, <2>3 DEF u
<1>4. CASE options.fade \in {"in", "both"}
  <2>1. u = [s EXCEPT !.fading = "in"]
    BY <1>4 DEF Tips!Unhidden, Tips!BeginFade
  <2> HIDE DEF s, u
  <2>2. u \in Tips!Tip /\ u.opacity = s.opacity /\ u.fading = "in" /\ u.status = s.status
        /\ u.display = s.display /\ u.activateTimeout = s.activateTimeout
        /\ u.oldTimeouts = s.oldTimeouts /\ u.lifetimeTimeout = s.lifetimeTimeout
        /\ u.trails = s.trails
    BY <1>0, <2>1 DEF Tips!Tip
  <2>3. Seen(u)
    BY <1>0, <1>4, <2>2 DEF Seen
  <2> QED
    BY <1>0, <2>2, <2>3 DEF u
<1> QED
  BY <1>1, <1>2, <1>3, <1>4

LEMMA LifetimeFacts ==
  ASSUME NEW t \in Tips!Tip, Seen(t), options \in Tips!Options
  PROVE  /\ Tips!StartLifetime(t) \in Tips!Tip /\ Seen(Tips!StartLifetime(t))
         /\ \A u \in {Tips!StartLifetime(t)} :
              /\ u.status = t.status /\ u.display = t.display
              /\ u.activateTimeout = t.activateTimeout /\ u.oldTimeouts = t.oldTimeouts
              /\ u.trails = t.trails
<1> DEFINE u == Tips!StartLifetime(t)
<1>1. u = IF options.type = "greasy" /\ options.lifetime
          THEN [t EXCEPT !.lifetimeTimeout = TRUE] ELSE t
  BY DEF Tips!StartLifetime
<1> HIDE DEF u
<1>2. u \in Tips!Tip /\ u.opacity = t.opacity /\ u.fading = t.fading /\ u.status = t.status
      /\ u.display = t.display /\ u.activateTimeout = t.activateTimeout
      /\ u.oldTimeouts = t.oldTimeouts /\ u.trails = t.trails /\ u.hides = t.hides
      /\ (u.lifetimeTimeout => t.lifetimeTimeout \/ options.type = "greasy")
  BY <1>1 DEF Tips!Tip
<1> QED
  BY <1>2 DEF u, Seen

\* domTT_show of a pending tip makes it active.
LEMMA ShownPending ==
  ASSUME NEW t \in Tips!Tip, t.status = "pending", Seen(t), options \in Tips!Options, NEW place
  PROVE  /\ Tips!Shown(t, place) \in Tips!Tip /\ Seen(Tips!Shown(t, place))
         /\ \A u \in {Tips!Shown(t, place)} :
              /\ u.status = "active"
              /\ u.activateTimeout = t.activateTimeout /\ u.oldTimeouts = t.oldTimeouts
              /\ u.trails = t.trails
<1> DEFINE v == Tips!Unhidden(t)
           w == Tips!StartLifetime(v)
           u == Tips!Collided(w, place)
<1>1. v \in Tips!Tip /\ Seen(v) /\ v.status = "active" /\ v.display
      /\ v.activateTimeout = t.activateTimeout /\ v.oldTimeouts = t.oldTimeouts
      /\ v.trails = t.trails
  BY UnhiddenFacts
<1>2. Tips!Shown(t, place) = IF options.fade = "out" THEN v ELSE u
  BY DEF Tips!Shown
<1> HIDE DEF v
<1>3. w \in Tips!Tip /\ Seen(w) /\ w.status = "active" /\ w.display
      /\ w.activateTimeout = t.activateTimeout /\ w.oldTimeouts = t.oldTimeouts
      /\ w.trails = t.trails
  BY <1>1, LifetimeFacts
<1> HIDE DEF w
<1>4. u \in Tips!Tip /\ u.status = w.status /\ u.activateTimeout = w.activateTimeout
      /\ u.oldTimeouts = w.oldTimeouts /\ u.lifetimeTimeout = w.lifetimeTimeout
      /\ u.trails = w.trails /\ u.display = w.display /\ u.opacity = w.opacity
      /\ u.fading = w.fading
  BY <1>3, CollidedFacts
<1> HIDE DEF u
<1>5. Seen(u)
  BY <1>3, <1>4 DEF Seen
<1> QED
  BY <1>1, <1>2, <1>3, <1>4, <1>5

\* A tip that is not pending only moves.
LEMMA ShownOther ==
  ASSUME NEW t \in Tips!Tip, t.status # "pending", Seen(t),
         options.trail = "lazy" \/ t.status = "active", NEW place
  PROVE  /\ Tips!Shown(t, place) \in Tips!Tip /\ Seen(Tips!Shown(t, place))
         /\ \A u \in {Tips!Shown(t, place)} :
              /\ u.status = t.status /\ u.lifetimeTimeout = t.lifetimeTimeout
              /\ u.activateTimeout = t.activateTimeout /\ u.oldTimeouts = t.oldTimeouts
              /\ u.trails = t.trails
<1> DEFINE u == Tips!Collided(t, place)
<1>1. Tips!Shown(t, place) = IF t.status = "none" THEN t ELSE u
  BY DEF Tips!Shown
<1>2. u \in Tips!Tip /\ u.status = t.status /\ u.activateTimeout = t.activateTimeout
      /\ u.oldTimeouts = t.oldTimeouts /\ u.lifetimeTimeout = t.lifetimeTimeout
      /\ u.trails = t.trails /\ u.display = t.display /\ u.opacity = t.opacity
      /\ u.fading = t.fading /\ (u.hides => t.hides \/ t.display)
  BY CollidedFacts
<1> HIDE DEF u
<1>3. Seen(u)
  BY <1>2 DEF Seen
<1> QED
  BY <1>1, <1>2, <1>3

\* domTT_deactivate closes a tip, and no timer is added.
LEMMA DeactivatedFacts ==
  ASSUME NEW t, Sound(t), options \in Tips!Options
  PROVE  ClosedOf(t, Tips!Deactivated(t)) /\ Tips!Deactivated(t).status \notin Opened
<1> DEFINE u == Tips!Deactivated(t)
<1>0. t \in Tips!Tip /\ Seen(t) /\ Timed(t) /\ options.fade \in {"neither", "in", "out", "both"}
  BY DEF Sound, Tips!Options
<1>1. CASE t.status = "pending"
  <2>1. u = [t EXCEPT !.status = "inactive", !.activateTimeout = FALSE]
    BY <1>1 DEF Tips!Deactivated, Tips!Cancelled
  <2>2. u \in Tips!Tip /\ u.status = "inactive"
    BY <1>0, <2>1 DEF Tips!Tip
  <2>3. Seen(u) /\ Timed(u)
    BY <1>0, <1>1, <2>1 DEF Seen, Timed, Tips!Tip
  <2>4. Tips!Waiting(u) <= Tips!Waiting(t)
    <3>1. ~u.activateTimeout /\ u.oldTimeouts = t.oldTimeouts /\ u.trails = t.trails
      BY <1>0, <2>1 DEF Tips!Tip
    <3> QED
      BY <1>0, <2>2, <3>1, TipFields
  <2> QED
    BY <2>2, <2>3, <2>4 DEF ClosedOf, Sound, Opened
<1>2. CASE t.status = "active"
  <2> DEFINE r == [[t EXCEPT !.lifetimeTimeout = FALSE] EXCEPT !.hides = FALSE]
  <2>1. u = Tips!Hidden(r) /\ r \in Tips!Tip
    BY <1>0, <1>2 DEF Tips!Deactivated, Tips!Recovered, Tips!ClearLifetime, Tips!Tip
  <2>2. r.status = "active" /\ ~r.lifetimeTimeout /\ ~r.hides /\ r.fading = t.fading
        /\ r.opacity = t.opacity /\ r.display = t.display /\ r.destroy = t.destroy
        /\ r.activateTimeout = t.activateTimeout /\ r.oldTimeouts = t.oldTimeouts
        /\ r.trails = t.trails
    BY <1>0, <1>2 DEF Tips!Tip
  <2> HIDE DEF r, u
  <2>3. CASE t.destroy
    <3>1. u = [Tips!NoTip EXCEPT
                 !.oldTimeouts = r.oldTimeouts + (IF r.activateTimeout THEN 1 ELSE 0),
                 !.trails = r.trails, !.hides = r.hides]
      BY <2>1, <2>2, <2>3 DEF Tips!Hidden
    <3>2. u \in Tips!Tip /\ u.status = "none" /\ ~u.activateTimeout /\ u.trails = t.trails
          /\ u.oldTimeouts = t.oldTimeouts + (IF t.activateTimeout THEN 1 ELSE 0)
          /\ ~u.display /\ u.opacity = 0 /\ u.fading = "no" /\ ~u.hides /\ ~u.lifetimeTimeout
      <4>1. Tips!NoTip \in Tips!Tip
        BY TipNumbers DEF Tips!Tip, Tips!NoTip
      <4>2. r.oldTimeouts + (IF r.activateTimeout THEN 1 ELSE 0) \in Nat /\ r.trails \in Nat
            /\ r.hides \in BOOLEAN
        <5>1. r.oldTimeouts \in Nat /\ r.trails \in Nat /\ r.hides \in BOOLEAN
          BY <2>1 DEF Tips!Tip
        <5> QED
          BY <5>1
      <4>3. u \in Tips!Tip
        BY <3>1, <4>1, <4>2 DEF Tips!Tip
      <4> QED
        BY <2>2, <3>1, <4>3 DEF Tips!NoTip
    <3>3. Seen(u) /\ Timed(u)
      BY <1>0, <1>2, <3>2 DEF Seen, Timed
    <3>4. Tips!Waiting(u) <= Tips!Waiting(t)
      BY <1>0, <3>2, TipFields
    <3> QED
      BY <3>2, <3>3, <3>4 DEF ClosedOf, Sound, Opened, u
  <2>4. CASE ~t.destroy
    <3>1. u = CASE options.fade = "neither" -> [r EXCEPT !.status = "inactive", !.display = FALSE]
                [] options.fade = "in" -> [r EXCEPT !.status = "inactive", !.fading = "no",
                   !.opacity = 0]
                [] OTHER -> [[r EXCEPT !.fading = "out"] EXCEPT !.status = "inactive"]
      BY <2>1, <2>2, <2>4 DEF Tips!Hidden, Tips!BeginFade
    <3>2. u \in Tips!Tip /\ u.status = "inactive" /\ u.activateTimeout = t.activateTimeout
          /\ u.trails = t.trails /\ u.oldTimeouts = t.oldTimeouts /\ ~u.hides
          /\ ~u.lifetimeTimeout /\ u.opacity \in 0..MaxOpacity
          /\ (options.fade = "neither" => ~u.display /\ u.fading = r.fading)
          /\ (options.fade = "in" => u.fading = "no" /\ u.opacity = 0)
          /\ (options.fade \in {"out", "both"} => u.fading = "out" /\ u.opacity = r.opacity)
      <4>1. CASE options.fade = "neither"
        <5>1. u = [r EXCEPT !.status = "inactive", !.display = FALSE]
          BY <3>1, <4>1
        <5> QED
          BY <2>1, <2>2, <4>1, <5>1 DEF Tips!Tip
      <4>2. CASE options.fade = "in"
        <5>1. u = [r EXCEPT !.status = "inactive", !.fading = "no", !.opacity = 0]
          BY <3>1, <4>2
        <5> QED
          BY <2>1, <2>2, <4>2, <5>1, TipNumbers DEF Tips!Tip
      <4>3. CASE options.fade \in {"out", "both"}
        <5>1. u = [[r EXCEPT !.fading = "out"] EXCEPT !.status = "inactive"]
          BY <3>1, <4>3
        <5> QED
          BY <2>1, <2>2, <4>3, <5>1 DEF Tips!Tip
      <4> QED
        BY <1>0, <4>1, <4>2, <4>3
    <3>3. Seen(u) /\ Timed(u)
      BY <1>0, <1>2, <2>2, <3>2 DEF Seen, Timed
    <3>4. Tips!Waiting(u) <= Tips!Waiting(t)
      BY <1>0, <3>2, TipFields
    <3> QED
      BY <3>2, <3>3, <3>4 DEF ClosedOf, Sound, Opened, u
  <2> QED
    BY <2>3, <2>4
<1>3. CASE t.status \notin Opened
  <2>1. u = t
    BY <1>3 DEF Tips!Deactivated, Opened
  <2> QED
    BY <1>0, <1>3, <2>1, TipFields DEF ClosedOf, Sound
<1> QED
  BY <1>1, <1>2, <1>3 DEF Opened

\* domTT_create makes a tip that is not open yet.
LEMMA CreatedFacts ==
  ASSUME NEW t, Sound(t), t.status \notin Opened, options \in Tips!Options,
         NEW event \in {"mouseover", "click"}
  PROVE  /\ Sound(Tips!Created(t, event)) /\ Tips!Created(t, event).status = "inactive"
         /\ Tips!Waiting(Tips!Created(t, event)) = Tips!Waiting(t)
<1> DEFINE u == Tips!Created(t, event)
<1>0. t \in Tips!Tip /\ Seen(t) /\ Timed(t)
  BY DEF Sound
<1>1. u = [Tips!NoTip EXCEPT
             !.status = "inactive", !.eventType = event, !.destroy = options.destroy,
             !.oldTimeouts = t.oldTimeouts + (IF t.activateTimeout THEN 1 ELSE 0),
             !.trails = t.trails, !.hides = t.hides]
  BY DEF Tips!Created
<1> HIDE DEF u
<1>2. Tips!NoTip \in Tips!Tip
  BY TipNumbers DEF Tips!Tip, Tips!NoTip
<1>3. t.oldTimeouts + (IF t.activateTimeout THEN 1 ELSE 0) \in Nat
      /\ t.trails \in Nat /\ t.hides \in BOOLEAN /\ options.destroy \in BOOLEAN
  <2>1. t.oldTimeouts \in Nat /\ t.trails \in Nat /\ t.hides \in BOOLEAN /\ options.destroy \in BOOLEAN
    BY <1>0 DEF Tips!Tip, Tips!Options
  <2> QED
    BY <2>1
<1>4. u \in Tips!Tip
  BY <1>1, <1>2, <1>3 DEF Tips!Tip
<1>5. u.status = "inactive" /\ ~u.activateTimeout /\ ~u.lifetimeTimeout /\ u.trails = t.trails
      /\ u.oldTimeouts = t.oldTimeouts + (IF t.activateTimeout THEN 1 ELSE 0)
      /\ u.hides = t.hides /\ ~u.display /\ u.opacity = 0 /\ u.fading = "no"
  BY <1>1, <1>2 DEF Tips!NoTip
<1>6. Seen(u)
  BY <1>0, <1>5 DEF Seen, Opened
<1>7. Timed(u)
  BY <1>0, <1>5 DEF Timed, Opened
<1>8. Tips!Waiting(u) = Tips!Waiting(t)
  BY <1>0, <1>4, <1>5, TipFields
<1> QED
  BY <1>4, <1>5, <1>6, <1>7, <1>8 DEF Sound, u

\* domTT_activate starts one timer or shows the tip at once.
LEMMA TimerFacts ==
  ASSUME NEW t, Sound(t), t.status = "inactive", options \in Tips!Options,
         Tips!Waiting(t) < MaxTimers, NEW delay \in BOOLEAN, NEW place
  PROVE  Sound(Tips!Timer(t, delay, place)) /\ Tips!Waiting(Tips!Timer(t, delay, place)) <= MaxTimers
<1> DEFINE u == Tips!Timer(t, delay, place)
           old == t.oldTimeouts + (IF t.activateTimeout THEN 1 ELSE 0)
<1>0. t \in Tips!Tip /\ Seen(t) /\ Timed(t)
  BY DEF Sound
<1>1. old \in Nat /\ old + t.trails = Tips!Waiting(t) /\ t.trails \in Nat
  <2>1. t.oldTimeouts \in Nat /\ t.trails \in Nat /\ t.activateTimeout \in BOOLEAN
    BY <1>0, TipFields
  <2>2. CASE t.activateTimeout
    BY <1>0, <2>1, <2>2, TipFields
  <2>3. CASE ~t.activateTimeout
    BY <1>0, <2>1, <2>3, TipFields
  <2> QED
    BY <2>2, <2>3
<1>2. options.trail # "lazy" => old = 0 /\ t.trails = 0 /\ ~t.lifetimeTimeout
  BY <1>0 DEF Timed
<1>3. CASE delay
  <2>1. u = [[t EXCEPT !.status = "pending"] EXCEPT !.oldTimeouts = old, !.activateTimeout = TRUE]
    BY <1>3 DEF Tips!Timer, Tips!Tip
  <2> HIDE DEF u, old
  <2>2. u \in Tips!Tip /\ u.status = "pending" /\ u.activateTimeout = TRUE /\ u.oldTimeouts = old
        /\ u.trails = t.trails /\ u.lifetimeTimeout = t.lifetimeTimeout /\ u.hides = t.hides
        /\ u.display = t.display /\ u.opacity = t.opacity /\ u.fading = t.fading
    BY <1>0, <1>1, <2>1 DEF Tips!Tip
  <2>3. Seen(u)
    BY <1>0, <2>2 DEF Seen
  <2>4. Timed(u)
    BY <1>2, <2>2 DEF Timed
  <2>5. Tips!Waiting(u) = old + t.trails + 1
    BY <2>2, TipFields
  <2>6. Tips!Waiting(u) <= MaxTimers
    <3>1. Tips!Waiting(t) \in Nat
      BY <1>1
    <3> QED
      BY <1>1, <2>5, <3>1, TipNumbers
  <2> QED
    BY <2>2, <2>3, <2>4, <2>6 DEF Sound, u
<1>4. CASE ~delay
  <2> DEFINE s == [[t EXCEPT !.status = "pending"] EXCEPT !.oldTimeouts = old, !.activateTimeout = FALSE]
  <2>1. u = Tips!Shown(s, place)
    BY <1>0, <1>4 DEF Tips!Timer, Tips!Tip
  <2> HIDE DEF u, old
  <2>2. s \in Tips!Tip /\ s.status = "pending" /\ s.activateTimeout = FALSE /\ s.oldTimeouts = old
        /\ s.trails = t.trails /\ s.lifetimeTimeout = t.lifetimeTimeout /\ s.hides = t.hides
        /\ s.display = t.display /\ s.opacity = t.opacity /\ s.fading = t.fading
    BY <1>0, <1>1 DEF Tips!Tip
  <2> HIDE DEF s
  <2>3. Seen(s)
    BY <1>0, <2>2 DEF Seen
  <2>4. u \in Tips!Tip /\ Seen(u) /\ u.status = "active" /\ ~u.activateTimeout
        /\ u.oldTimeouts = old /\ u.trails = t.trails
    BY <2>1, <2>2, <2>3, ShownPending
  <2>5. Timed(u)
    BY <1>2, <2>4 DEF Timed
  <2>6. Tips!Waiting(u) = old + t.trails
    BY <2>4, TipFields
  <2>7. Tips!Waiting(u) <= MaxTimers
    BY <1>1, <2>6, TipNumbers
  <2> QED
    BY <2>4, <2>5, <2>7 DEF Sound, u
<1> QED
  BY <1>3, <1>4

LEMMA ActivatedFacts ==
  ASSUME NEW t, Sound(t), options \in Tips!Options,
         Tips!Waiting(t) < MaxTimers, NEW event \in {"mouseover", "click"}, NEW place
  PROVE  /\ Sound(Tips!Activated(t, event, place))
         /\ Tips!Waiting(Tips!Activated(t, event, place)) <= MaxTimers
<1> DEFINE another == t.status # "none" /\ t.eventType # event
           d == [t EXCEPT !.destroy = TRUE]
           old == IF another /\ options.type = "greasy" THEN Tips!Deactivated(d) ELSE t
           u == Tips!Activated(t, event, place)
<1>0. t \in Tips!Tip /\ t.status \in {"none", "inactive", "pending", "active"}
      /\ Tips!Waiting(t) \in Nat /\ Tips!Delay(event) \in BOOLEAN
  <2>1. t \in Tips!Tip
    BY DEF Sound
  <2>2. Tips!Waiting(t) \in Nat
    BY <2>1, TipFields
  <2> QED
    BY <2>1, <2>2 DEF Tips!Tip, Tips!Delay
<1>1. CASE ~another /\ t.status = "inactive"
  <2>1. u = Tips!Timer(t, Tips!Delay(event), place)
    BY <1>1 DEF Tips!Activated
  <2> QED
    BY <1>0, <1>1, <2>1, TimerFacts
<1>2. CASE ~another /\ t.status \in Opened
  <2>1. u = t
    BY <1>2 DEF Tips!Activated, Opened
  <2> QED
    BY <1>0, <2>1, TipNumbers
<1>3. CASE another /\ options.type # "greasy" /\ t.status # "inactive"
  <2>1. u = t
    BY <1>3 DEF Tips!Activated
  <2> QED
    BY <1>0, <2>1, TipNumbers
<1>4. CASE ~ \/ ~another /\ t.status = "inactive"
             \/ ~another /\ t.status \in Opened
             \/ another /\ options.type # "greasy" /\ t.status # "inactive"
  <2>1. u = Tips!Timer(Tips!Created(old, event), Tips!Delay(event), place)
    BY <1>4 DEF Tips!Activated, Opened
  <2>2. Sound(d) /\ Tips!Waiting(d) = Tips!Waiting(t)
    <3>1. d \in Tips!Tip /\ d.status = t.status /\ d.activateTimeout = t.activateTimeout
          /\ d.oldTimeouts = t.oldTimeouts /\ d.trails = t.trails
          /\ d.lifetimeTimeout = t.lifetimeTimeout /\ d.hides = t.hides
          /\ d.display = t.display /\ d.opacity = t.opacity /\ d.fading = t.fading
      BY <1>0 DEF Tips!Tip
    <3> HIDE DEF d
    <3>2. Seen(d) /\ Timed(d)
      BY <3>1 DEF Sound, Seen, Timed
    <3> QED
      BY <1>0, <3>1, <3>2, TipFields DEF Sound
  <2>3. Sound(old) /\ old.status \notin Opened /\ Tips!Waiting(old) <= Tips!Waiting(t)
    <3>1. CASE another /\ options.type = "greasy"
      BY <1>0, <2>2, <3>1, DeactivatedFacts DEF ClosedOf
    <3>2. CASE ~(another /\ options.type = "greasy")
      BY <1>0, <1>4, <3>2 DEF Opened
    <3> QED
      BY <3>1, <3>2
  <2> HIDE DEF old
  <2>4. Sound(Tips!Created(old, event)) /\ Tips!Created(old, event).status = "inactive"
        /\ Tips!Waiting(Tips!Created(old, event)) = Tips!Waiting(old)
    BY <2>3, CreatedFacts
  <2>5. Tips!Waiting(Tips!Created(old, event)) < MaxTimers
    <3>1. Tips!Waiting(old) \in Nat
      BY <2>3, TipFields DEF Sound
    <3> QED
      BY <1>0, <2>3, <2>4, <3>1, TipNumbers
  <2> QED
    BY <1>0, <2>1, <2>4, <2>5, TimerFacts
<1> QED
  BY <1>1, <1>2, <1>3, <1>4

-----------------------------------------------------------------------------
AllSound(ts) ==
  ts \in [Owners -> Tips!Tip] /\ \A o \in Owners : Sound(ts[o]) /\ Tips!Waiting(ts[o]) <= MaxTimers

LEMMA ClosedBound ==
  ASSUME NEW t, NEW u, Sound(t), ClosedOf(t, u), Tips!Waiting(t) <= MaxTimers
  PROVE  Sound(u) /\ Tips!Waiting(u) <= MaxTimers
<1>1. t \in Tips!Tip /\ u \in Tips!Tip
  BY DEF ClosedOf, Sound
<1>2. Tips!Waiting(t) \in Nat /\ Tips!Waiting(u) \in Nat
  BY <1>1, TipFields
<1> QED
  BY <1>2, TipNumbers DEF ClosedOf

LEMMA ClosedSelf ==
  ASSUME NEW t, Sound(t) PROVE ClosedOf(t, t)
<1>1. Tips!Waiting(t) \in Nat
  BY TipFields DEF Sound
<1> QED
  BY <1>1 DEF ClosedOf

\* The mouse leaves the element where it is.
LEMMA LeftFacts ==
  ASSUME AllSound(tips), options \in Tips!Options,
         tipOver = Tips!Page \/ tipOver \in Owners \X {"owner", "tip"}
  PROVE  /\ AllSound(Tips!Left(tips))
         /\ \A o \in Owners : ClosedOf(tips[o], Tips!Left(tips)[o])
         /\ \A o \in Owners :
              options.type = "greasy" /\ tipOver = <<o, "owner">>
                => Tips!Left(tips)[o].status \notin Opened
         /\ \A o \in Owners :
              options.type # "greasy" /\ tips[o].status = "active" /\ tipOver # <<o, "tip">>
                => Tips!Left(tips)[o] = tips[o]
<1> DEFINE l == Tips!Left(tips)
<1>0. \A o \in Owners : Sound(tips[o]) /\ ClosedOf(tips[o], tips[o]) /\ tips[o] \in Tips!Tip
  BY ClosedSelf DEF AllSound, Sound
<1>1. CASE tipOver = Tips!Page
  <2>1. l = tips
    BY <1>1 DEF Tips!Left
  <2> QED
    BY <1>0, <1>1, <2>1 DEF Tips!Page, ClosedOf
<1>2. CASE tipOver # Tips!Page
  <2>1. PICK p \in Owners, e \in {"owner", "tip"} : tipOver = <<p, e>>
    BY <1>2
  <2> DEFINE d == IF e = "owner" THEN Tips!LeftOwner(tips[p])
                  ELSE IF options.type = "velcro" THEN Tips!Deactivated(tips[p]) ELSE tips[p]
  <2>2. l \in [Owners -> Tips!Tip] /\ l[p] = d /\ \A o \in Owners \ {p} : l[o] = tips[o]
    <3>1. ClosedOf(tips[p], Tips!Deactivated(tips[p])) /\ Tips!Deactivated(tips[p]) \in Tips!Tip
      BY <1>0, DeactivatedFacts DEF ClosedOf, Sound
    <3>2. d \in Tips!Tip
      BY <1>0, <3>1 DEF Tips!LeftOwner
    <3>3. l = [tips EXCEPT ![p] = d]
      <4>1. CASE e = "owner"
        BY <1>2, <2>1, <4>1 DEF Tips!Left
      <4>2. CASE e = "tip" /\ options.type = "velcro"
        BY <1>2, <2>1, <4>2 DEF Tips!Left
      <4>3. CASE e = "tip" /\ options.type # "velcro"
        <5>1. l = tips /\ d = tips[p]
          BY <1>2, <2>1, <4>3 DEF Tips!Left
        <5> QED
          BY <5>1 DEF AllSound
      <4> QED
        BY <4>1, <4>2, <4>3
    <3> QED
      BY <3>2, <3>3 DEF AllSound
  <2>3. ClosedOf(tips[p], d)
    BY <1>0, DeactivatedFacts DEF Tips!LeftOwner
  <2>4. options.type = "greasy" /\ e = "owner" => d.status \notin Opened
    <3>1. Tips!Deactivated(tips[p]).status \notin Opened
      BY <1>0, DeactivatedFacts
    <3> QED
      BY <3>1 DEF Tips!LeftOwner, Opened
  <2>5. options.type # "greasy" /\ tips[p].status = "active" /\ e # "tip" => d = tips[p]
    BY DEF Tips!LeftOwner
  <2> HIDE DEF d, l
  <2>6. \A o \in Owners : ClosedOf(tips[o], l[o])
    BY <1>0, <2>2, <2>3
  <2>7. AllSound(l)
    BY <1>0, <2>2, <2>6, ClosedBound DEF AllSound
  <2>8. \A o \in Owners : options.type = "greasy" /\ tipOver = <<o, "owner">> => l[o].status \notin Opened
    <3>1. \A o \in Owners : tipOver = <<o, "owner">> => o = p /\ e = "owner"
      BY <2>1
    <3> QED
      BY <2>2, <2>4, <3>1
  <2>9. \A o \in Owners :
          options.type # "greasy" /\ tips[o].status = "active" /\ tipOver # <<o,
             "tip">> => l[o] = tips[o]
    BY <2>1, <2>2, <2>5
  <2> QED
    BY <2>6, <2>7, <2>8, <2>9 DEF l
<1> QED
  BY <1>1, <1>2

\* With domTT_oneOnly the tip that was opened last is closed.
LEMMA CloseLastFacts ==
  ASSUME NEW ts, AllSound(ts), options \in Tips!Options, NEW o
  PROVE  /\ AllSound(Tips!CloseLast(ts, o))
         /\ \A p \in Owners : ClosedOf(ts[p], Tips!CloseLast(ts, o)[p])
         /\ options.oneOnly /\ lastOpened \in Owners
              => Tips!CloseLast(ts, o)[lastOpened].status \notin Opened
<1> DEFINE c == Tips!CloseLast(ts, o)
<1>0. \A p \in Owners : Sound(ts[p]) /\ ClosedOf(ts[p], ts[p]) /\ ts[p] \in Tips!Tip
  BY ClosedSelf DEF AllSound, Sound
<1>1. CASE options.oneOnly /\ lastOpened \in Owners
  <2>1. c = [ts EXCEPT ![lastOpened] = Tips!Deactivated(ts[lastOpened])]
    BY <1>1 DEF Tips!CloseLast, AllSound
  <2>2. ClosedOf(ts[lastOpened], Tips!Deactivated(ts[lastOpened]))
        /\ Tips!Deactivated(ts[lastOpened]).status \notin Opened
        /\ Tips!Deactivated(ts[lastOpened]) \in Tips!Tip
    BY <1>0, <1>1, DeactivatedFacts DEF ClosedOf, Sound
  <2> HIDE DEF c
  <2>3. c \in [Owners -> Tips!Tip] /\ c[lastOpened] = Tips!Deactivated(ts[lastOpened])
        /\ \A p \in Owners \ {lastOpened} : c[p] = ts[p]
    BY <1>1, <2>1, <2>2 DEF AllSound
  <2>4. \A p \in Owners : ClosedOf(ts[p], c[p])
    BY <1>0, <2>2, <2>3
  <2>5. AllSound(c)
    BY <1>0, <2>3, <2>4, ClosedBound DEF AllSound
  <2> QED
    BY <2>2, <2>3, <2>4, <2>5 DEF c
<1>2. CASE ~(options.oneOnly /\ lastOpened \in Owners)
  <2>1. c = ts
    BY <1>2 DEF Tips!CloseLast
  <2> QED
    BY <1>0, <1>2, <2>1
<1> QED
  BY <1>1, <1>2

TipsInv ==
  /\ Tips!TypeOK
  /\ \A o \in Owners : Seen(tips[o]) /\ Timed(tips[o])
  /\ Tips!GreasyFollowsMouse /\ Tips!HeldIsActive /\ Tips!OneTip

LEMMA TipsAllSound ==
  ASSUME TipsInv
  PROVE  AllSound(tips) /\ options \in Tips!Options /\ \A o \in Owners : Sound(tips[o])
<1> QED
  BY TipNumbers DEF TipsInv, Tips!TypeOK, AllSound, Sound

LEMMA TipsInit == Tips!Init => TipsInv
<1> SUFFICES ASSUME Tips!Init PROVE TipsInv
  OBVIOUS
<1>1. options \in TipOptions /\ options.width \in Nat /\ options.height \in Nat
  BY TipNumbers DEF Tips!Init, Tips!Options
<1>2. Tips!NoTip \in Tips!Tip
  BY TipNumbers DEF Tips!Tip, Tips!NoTip
<1>3. \A o \in Owners : tips[o] = Tips!NoTip
  BY DEF Tips!Init
<1>4. tips \in [Owners -> Tips!Tip]
  BY <1>2 DEF Tips!Init
<1>5. Tips!Waiting(Tips!NoTip) <= MaxTimers
  BY TipNumbers DEF Tips!Waiting, Tips!NoTip
<1>6. mouse \in [x : 0..options.width, y : 0..options.height]
  BY <1>1 DEF Tips!Init
<1>7. Tips!TypeOK
  BY <1>1, <1>3, <1>4, <1>5, <1>6 DEF Tips!TypeOK, Tips!Init, Tips!Page
<1>8. \A o \in Owners : Seen(tips[o]) /\ Timed(tips[o])
  <2>1. Seen(Tips!NoTip) /\ Timed(Tips!NoTip)
    BY DEF Seen, Timed, Tips!NoTip
  <2> QED
    BY <1>3, <2>1
<1>9. Tips!GreasyFollowsMouse /\ Tips!HeldIsActive /\ Tips!OneTip
  <2>1. \A o \in Owners : tips[o].status = "none"
    <3>1. Tips!NoTip.status = "none"
      BY DEF Tips!NoTip
    <3> QED
      BY <1>3, <3>1
  <2>2. dragged = "none" /\ \A o \in Owners : tipOver # <<o, "tip">>
    BY DEF Tips!Init, Tips!Page
  <2> QED
    BY <2>1, <2>2 DEF Tips!GreasyFollowsMouse, Tips!HeldIsActive, Tips!OneTip
<1> QED
  BY <1>7, <1>8, <1>9 DEF TipsInv

\* What a step shows of the tips is enough when the options and the coordinates
\* stay.
LEMMA TipsStep ==
  ASSUME TipsInv, UNCHANGED <<options, mouse>>, AllSound(tips)',
         (tipOver = Tips!Page \/ tipOver \in Owners \X {"owner", "tip"})',
         lastOpened' \in Owners \cup {"none"}, dragged' \in Owners \cup {"none"},
         Tips!GreasyFollowsMouse', Tips!HeldIsActive', Tips!OneTip'
  PROVE  TipsInv'
<1>1. Tips!TypeOK'
  BY DEF TipsInv, Tips!TypeOK, AllSound
<1>2. \A o \in Owners : Seen(tips[o])' /\ Timed(tips[o])'
  BY DEF AllSound, Sound
<1> QED
  BY <1>1, <1>2 DEF TipsInv

\* One tip changes and stays as open as it was; nothing else changes.
LEMMA OneStep ==
  ASSUME TipsInv, NEW o \in Owners, NEW u, Sound(u), Tips!Waiting(u) <= MaxTimers,
         u.status \in Opened => tips[o].status \in Opened,
         options.type # "greasy" /\ tips[o].status = "active" => u.status = "active",
         tips' = [tips EXCEPT ![o] = u], UNCHANGED <<options, mouse, tipOver, lastOpened, dragged>>
  PROVE  TipsInv'
<1>1. tips' \in [Owners -> Tips!Tip] /\ tips'[o] = u /\ \A p \in Owners \ {o} : tips'[p] = tips[p]
  BY DEF TipsInv, Tips!TypeOK, Sound
<1>2. AllSound(tips)'
  <2>1. AllSound(tips')
    BY <1>1, TipsAllSound DEF AllSound
  <2> QED
    BY <2>1 DEF AllSound, Sound, Seen, Timed
<1>3. \A p \in Owners : tips'[p].status \in Opened => tips[p].status \in Opened
  BY <1>1
<1>4. \A p \in Owners : options.type # "greasy" /\ tips[p].status = "active" => tips'[p].status = "active"
  BY <1>1
<1>5. Tips!GreasyFollowsMouse' /\ Tips!OneTip'
  BY <1>3 DEF TipsInv, Tips!GreasyFollowsMouse, Tips!OneTip, Opened
<1>6. Tips!HeldIsActive'
  BY <1>4 DEF TipsInv, Tips!HeldIsActive
<1> QED
  BY <1>2, <1>5, <1>6, TipsStep DEF TipsInv, Tips!TypeOK

LEMMA MouseOverStep ==
  ASSUME TipsInv, NEW o \in Owners, NEW place, Tips!MouseOver(o, place)
  PROVE  TipsInv'
<1>0. /\ dragged = "none" /\ tipOver # <<o, "owner">> /\ Tips!Waiting(tips[o]) < MaxTimers
      /\ tipOver' = <<o, "owner">> /\ UNCHANGED <<dragged, options, mouse>>
  BY DEF Tips!MouseOver, Tips!Room, Tips!rest
<1>1. AllSound(tips) /\ options \in Tips!Options /\ \A p \in Owners : Sound(tips[p])
  BY TipsAllSound
<1> DEFINE l == Tips!Left(tips)
           c == Tips!CloseLast(l, o)
           a == Tips!Activated(c[o], "mouseover", place)
<1>2. /\ AllSound(l)
      /\ \A p \in Owners : ClosedOf(tips[p], l[p])
      /\ \A p \in Owners :
           options.type = "greasy" /\ tipOver = <<p, "owner">> => l[p].status \notin Opened
  BY <1>1, LeftFacts DEF TipsInv, Tips!TypeOK
<1>3. \A p \in Owners : options.type = "greasy" => l[p].status \notin Opened
  <2> SUFFICES ASSUME NEW p \in Owners, options.type = "greasy", l[p].status \in Opened PROVE FALSE
    OBVIOUS
  <2>1. tips[p].status \in Opened
    BY <1>2 DEF ClosedOf
  <2>2. tipOver = <<p, "owner">>
    BY <2>1 DEF TipsInv, Tips!GreasyFollowsMouse, Opened
  <2> QED
    BY <1>2, <2>2
<1>4. \A p \in Owners : l[p].status \in Opened => tips[p].status \in Opened
  BY <1>2 DEF ClosedOf
<1> HIDE DEF l
<1>5. CASE "mouseover" \in options.events
  <2>1. tips' = [c EXCEPT ![o] = a] /\ lastOpened' = o
    BY <1>5 DEF Tips!MouseOver, l
  <2>2. /\ AllSound(c)
        /\ \A p \in Owners : ClosedOf(l[p], c[p])
        /\ options.oneOnly /\ lastOpened \in Owners => c[lastOpened].status \notin Opened
    BY <1>1, <1>2, CloseLastFacts
  <2>3. \A p \in Owners : c[p].status \in Opened => l[p].status \in Opened
    BY <2>2 DEF ClosedOf
  <2> HIDE DEF c
  <2>4. Sound(c[o]) /\ Tips!Waiting(c[o]) < MaxTimers
    <3>1. Tips!Waiting(c[o]) <= Tips!Waiting(l[o]) /\ Tips!Waiting(l[o]) <= Tips!Waiting(tips[o])
      BY <1>2, <2>2 DEF ClosedOf
    <3>2. Tips!Waiting(c[o]) \in Nat /\ Tips!Waiting(l[o]) \in Nat /\ Tips!Waiting(tips[o]) \in Nat
      BY <1>1, <1>2, <2>2, TipFields DEF AllSound
    <3> QED
      BY <1>0, <2>2, <3>1, <3>2, TipNumbers DEF AllSound
  <2>5. Sound(a) /\ Tips!Waiting(a) <= MaxTimers
    BY <1>1, <2>4, ActivatedFacts
  <2> HIDE DEF a
  <2>6. tips' \in [Owners -> Tips!Tip] /\ tips'[o] = a /\ \A p \in Owners \ {o} : tips'[p] = c[p]
    BY <2>1, <2>2, <2>5 DEF AllSound, Sound
  <2>7. AllSound(tips)'
    <3>1. AllSound(tips')
      BY <2>2, <2>5, <2>6 DEF AllSound
    <3> QED
      BY <1>0, <3>1 DEF AllSound, Sound, Seen, Timed
  <2>8. \A p \in Owners \ {o} : tips'[p].status \in Opened =>
          options.type # "greasy" /\ tips[p].status \in Opened /\ (options.oneOnly => lastOpened # p)
    BY <1>3, <1>4, <2>2, <2>3, <2>6
  <2>9. Tips!GreasyFollowsMouse'
    BY <1>0, <2>8 DEF Tips!GreasyFollowsMouse, Opened
  <2>10. Tips!OneTip'
    BY <1>0, <2>1, <2>8 DEF TipsInv, Tips!OneTip, Opened
  <2>11. Tips!HeldIsActive'
    BY <1>0 DEF Tips!HeldIsActive
  <2> QED
    BY <1>0, <2>1, <2>7, <2>9, <2>10, <2>11, TipsStep DEF TipsInv, Tips!TypeOK
<1>6. CASE "mouseover" \notin options.events
  <2>1. tips' = l /\ lastOpened' = lastOpened
    BY <1>6 DEF Tips!MouseOver, l
  <2>2. AllSound(tips)'
    BY <1>0, <1>2, <2>1 DEF AllSound, Sound, Seen, Timed
  <2>3. Tips!GreasyFollowsMouse'
    BY <1>0, <1>3, <2>1 DEF Tips!GreasyFollowsMouse, Opened
  <2>4. Tips!OneTip'
    BY <1>0, <1>4, <2>1 DEF TipsInv, Tips!OneTip, Opened
  <2>5. Tips!HeldIsActive'
    BY <1>0 DEF Tips!HeldIsActive
  <2> QED
    BY <1>0, <2>1, <2>2, <2>3, <2>4, <2>5, TipsStep DEF TipsInv, Tips!TypeOK
<1> QED
  BY <1>5, <1>6

LEMMA ClickStep ==
  ASSUME TipsInv, NEW o \in Owners, NEW place, Tips!Click(o, place)
  PROVE  TipsInv'
<1>0. /\ tipOver = <<o, "owner">> /\ Tips!Waiting(tips[o]) < MaxTimers /\ lastOpened' = o
      /\ UNCHANGED <<tipOver, dragged, options, mouse>>
  BY DEF Tips!Click, Tips!Room, Tips!rest
<1>1. AllSound(tips) /\ options \in Tips!Options /\ \A p \in Owners : Sound(tips[p])
  BY TipsAllSound
<1> DEFINE c == Tips!CloseLast(tips, o)
           a == Tips!Activated(c[o], "click", place)
<1>2. tips' = [c EXCEPT ![o] = a]
  BY DEF Tips!Click
<1>3. /\ AllSound(c)
      /\ \A p \in Owners : ClosedOf(tips[p], c[p])
      /\ options.oneOnly /\ lastOpened \in Owners => c[lastOpened].status \notin Opened
  BY <1>1, CloseLastFacts
<1>4. \A p \in Owners : c[p].status \in Opened => tips[p].status \in Opened
  BY <1>3 DEF ClosedOf
<1> HIDE DEF c
<1>5. Sound(c[o]) /\ Tips!Waiting(c[o]) < MaxTimers
  <2>1. Tips!Waiting(c[o]) <= Tips!Waiting(tips[o])
    BY <1>3 DEF ClosedOf
  <2>2. Tips!Waiting(c[o]) \in Nat /\ Tips!Waiting(tips[o]) \in Nat
    BY <1>1, <1>3, TipFields DEF AllSound
  <2> QED
    BY <1>0, <1>3, <2>1, <2>2, TipNumbers DEF AllSound
<1>6. Sound(a) /\ Tips!Waiting(a) <= MaxTimers
  BY <1>1, <1>5, ActivatedFacts
<1> HIDE DEF a
<1>7. tips' \in [Owners -> Tips!Tip] /\ tips'[o] = a /\ \A p \in Owners \ {o} : tips'[p] = c[p]
  BY <1>2, <1>3, <1>6 DEF AllSound, Sound
<1>8. AllSound(tips)'
  <2>1. AllSound(tips')
    BY <1>3, <1>6, <1>7 DEF AllSound
  <2> QED
    BY <1>0, <2>1 DEF AllSound, Sound, Seen, Timed
<1>9. \A p \in Owners \ {o} : tips'[p].status \in Opened =>
        tips[p].status \in Opened /\ (options.oneOnly => lastOpened # p)
  BY <1>3, <1>4, <1>7
<1>10. Tips!GreasyFollowsMouse'
  BY <1>0, <1>9 DEF TipsInv, Tips!GreasyFollowsMouse, Opened
<1>11. Tips!OneTip'
  BY <1>0, <1>9 DEF TipsInv, Tips!OneTip, Opened
<1>12. Tips!HeldIsActive'
  BY <1>0 DEF TipsInv, Tips!HeldIsActive
<1> QED
  BY <1>0, <1>8, <1>10, <1>11, <1>12, TipsStep DEF TipsInv, Tips!TypeOK

LEMMA MouseOutStep ==
  ASSUME TipsInv, NEW to \in {Tips!Page} \cup (Owners \X {"tip"}), Tips!MouseOut(to)
  PROVE  TipsInv'
<1>0. /\ dragged = "none" /\ tipOver # to /\ tipOver' = to
      /\ (to # Tips!Page => tips[to[1]].status = "active")
      /\ tips' = Tips!Left(tips) /\ UNCHANGED <<lastOpened, dragged, options, mouse>>
  BY DEF Tips!MouseOut, Tips!rest
<1>1. AllSound(tips) /\ options \in Tips!Options
  BY TipsAllSound
<1>2. /\ AllSound(tips')
      /\ \A p \in Owners : ClosedOf(tips[p], tips'[p])
      /\ \A p \in Owners :
           options.type = "greasy" /\ tipOver = <<p, "owner">> => tips'[p].status \notin Opened
      /\ \A p \in Owners :
           options.type # "greasy" /\ tips[p].status = "active" /\ tipOver # <<p, "tip">>
             => tips'[p] = tips[p]
  BY <1>0, <1>1, LeftFacts DEF TipsInv, Tips!TypeOK
<1>3. AllSound(tips)'
  BY <1>0, <1>2 DEF AllSound, Sound, Seen, Timed
<1>4. \A p \in Owners : tips'[p].status \in Opened => tips[p].status \in Opened
  BY <1>2 DEF ClosedOf
<1>5. Tips!GreasyFollowsMouse'
  <2>1. \A p \in Owners : options.type = "greasy" => tips'[p].status \notin Opened
    BY <1>2, <1>4 DEF TipsInv, Tips!GreasyFollowsMouse, Opened
  <2> QED
    BY <1>0, <2>1 DEF Tips!GreasyFollowsMouse, Opened
<1>6. Tips!OneTip'
  BY <1>0, <1>4 DEF TipsInv, Tips!OneTip, Opened
<1>7. Tips!HeldIsActive'
  <2>1. ASSUME NEW p \in Owners, options.type # "greasy", to = <<p, "tip">>
        PROVE  tips'[p].status = "active"
    <3>1. to # Tips!Page /\ to[1] = p
      BY <2>1 DEF Tips!Page
    <3> QED
      BY <1>0, <1>2, <2>1, <3>1
  <2> QED
    BY <1>0, <2>1 DEF Tips!HeldIsActive
<1>8. (tipOver = Tips!Page \/ tipOver \in Owners \X {"owner", "tip"})'
  BY <1>0
<1> QED
  BY <1>0, <1>3, <1>5, <1>6, <1>7, <1>8, TipsStep DEF TipsInv, Tips!TypeOK

LEMMA MouseMoveStep ==
  ASSUME TipsInv, NEW o \in Owners, NEW place, Tips!MouseMove(o, place)
  PROVE  TipsInv'
<1>0. /\ options.trail # "none" /\ tips[o].status = "active"
      /\ UNCHANGED <<options, mouse, tipOver, lastOpened, dragged>>
  BY DEF Tips!MouseMove, Tips!rest
<1>1. Sound(tips[o]) /\ Tips!Waiting(tips[o]) <= MaxTimers /\ options \in Tips!Options
  BY TipsAllSound DEF AllSound
<1> DEFINE t == tips[o]
<1>2. t \in Tips!Tip /\ Seen(t) /\ Timed(t)
  BY <1>1 DEF Sound
<1>3. CASE options.trail = "now"
  <2> DEFINE u == Tips!Shown(t, place)
  <2>1. tips' = [tips EXCEPT ![o] = u]
    BY <1>3 DEF Tips!MouseMove
  <2>2. u \in Tips!Tip /\ Seen(u) /\ u.status = t.status
        /\ u.lifetimeTimeout = t.lifetimeTimeout /\ u.activateTimeout = t.activateTimeout
        /\ u.oldTimeouts = t.oldTimeouts /\ u.trails = t.trails
    BY <1>0, <1>2, ShownOther
  <2> HIDE DEF u
  <2>3. Timed(u)
    BY <1>2, <2>2 DEF Timed
  <2>4. Tips!Waiting(u) = Tips!Waiting(t)
    BY <1>2, <2>2, TipFields
  <2>5. Tips!Waiting(u) <= MaxTimers
    BY <1>1, <2>4
  <2> QED
    BY <1>0, <2>1, <2>2, <2>3, <2>5, OneStep DEF Sound
<1>4. CASE options.trail # "now"
  <2> DEFINE u == [t EXCEPT !.trails = t.trails + 1]
  <2>1. tips' = [tips EXCEPT ![o] = u] /\ Tips!Waiting(t) < MaxTimers
    BY <1>4 DEF Tips!MouseMove, Tips!Room
  <2>2. options.trail = "lazy"
    BY <1>0, <1>1, <1>4 DEF Tips!Options
  <2>3. u \in Tips!Tip /\ u.status = t.status /\ u.display = t.display /\ u.opacity = t.opacity
        /\ u.fading = t.fading /\ u.lifetimeTimeout = t.lifetimeTimeout /\ u.hides = t.hides
        /\ u.activateTimeout = t.activateTimeout /\ u.oldTimeouts = t.oldTimeouts
        /\ u.trails = t.trails + 1
    <3>1. t.trails + 1 \in Nat
      BY <1>2, TipFields
    <3> QED
      BY <1>2, <3>1 DEF Tips!Tip
  <2> HIDE DEF u
  <2>4. Seen(u) /\ Timed(u)
    BY <1>2, <2>2, <2>3 DEF Seen, Timed
  <2>5. Tips!Waiting(u) = Tips!Waiting(t) + 1
    BY <1>2, <2>3, TipFields
  <2>6. Tips!Waiting(u) <= MaxTimers
    BY <1>2, <2>1, <2>5, TipFields, TipNumbers
  <2> QED
    BY <1>0, <2>1, <2>3, <2>4, <2>6, OneStep DEF Sound
<1> QED
  BY <1>3, <1>4

\* A tip that is shown by a timer, which is not waited for any more.
LEMMA ShownByTimer ==
  ASSUME TipsInv, NEW o \in Owners, NEW s, NEW place, s \in Tips!Tip,
         s.status = tips[o].status, s.display = tips[o].display, s.opacity = tips[o].opacity,
         s.fading = tips[o].fading, s.lifetimeTimeout = tips[o].lifetimeTimeout,
         s.hides = tips[o].hides, Tips!Waiting(s) <= MaxTimers,
         options.trail # "lazy" =>
           s.status = "pending" /\ s.oldTimeouts = 0 /\ s.trails = 0 /\ ~s.activateTimeout,
         tips' = [tips EXCEPT ![o] = Tips!Shown(s, place)],
         UNCHANGED <<options, mouse, tipOver, lastOpened, dragged>>
  PROVE  TipsInv'
<1> DEFINE u == Tips!Shown(s, place)
<1>0. options \in Tips!Options /\ Seen(tips[o])
  BY TipsAllSound DEF Sound
<1>1. Seen(s)
  BY <1>0 DEF Seen
<1>2. u \in Tips!Tip /\ Seen(u) /\ u.activateTimeout = s.activateTimeout
      /\ u.oldTimeouts = s.oldTimeouts /\ u.trails = s.trails
      /\ (u.status = "active" \/ u.status = s.status)
      /\ (s.status = "pending" => u.status = "active")
  <2>1. CASE s.status = "pending"
    BY <1>0, <1>1, <2>1, ShownPending
  <2>2. CASE s.status # "pending"
    BY <1>1, <2>2, ShownOther
  <2> QED
    BY <2>1, <2>2
<1>3. u.status \in Opened => s.status \in Opened
  <2>1. CASE s.status = "pending"
    BY <2>1 DEF Opened
  <2>2. CASE s.status # "pending"
    <3>1. u.status = s.status
      BY <1>1, <2>2, ShownOther
    <3> QED
      BY <3>1
  <2> QED
    BY <2>1, <2>2
<1>4. Tips!Waiting(u) = Tips!Waiting(s)
  <2> HIDE DEF u
  <2> QED
    BY <1>2, TipFields
<1>5. Timed(u)
  BY <1>2 DEF Timed
<1>6. Tips!Waiting(u) <= MaxTimers
  BY <1>4
<1>7. tips[o].status = "active" => u.status = "active"
  BY <1>2
<1> HIDE DEF u
<1>8. Sound(u)
  BY <1>2, <1>5 DEF Sound
<1> QED
  BY <1>3, <1>6, <1>7, <1>8, OneStep DEF u

LEMMA RunShowStep ==
  ASSUME TipsInv, NEW o \in Owners, NEW place, Tips!RunShow(o, place)
  PROVE  TipsInv'
<1>0. UNCHANGED <<options, mouse, tipOver, lastOpened, dragged>>
  BY DEF Tips!RunShow, Tips!rest
<1> DEFINE t == tips[o]
<1>1. t \in Tips!Tip /\ Timed(t) /\ Tips!Waiting(t) <= MaxTimers
  BY TipsAllSound DEF AllSound, Sound
<1>2. t.oldTimeouts \in Nat /\ t.trails \in Nat /\ Tips!Waiting(t) \in Nat
  BY <1>1, TipFields
<1>3. CASE t.oldTimeouts > 0 /\ tips' = [tips EXCEPT ![o] = Tips!Shown([t EXCEPT !.oldTimeouts = t.oldTimeouts - 1], place)]
  <2> DEFINE s == [t EXCEPT !.oldTimeouts = t.oldTimeouts - 1]
  <2>1. tips' = [tips EXCEPT ![o] = Tips!Shown(s, place)]
    BY <1>3
  <2>2. s \in Tips!Tip /\ s.status = t.status /\ s.display = t.display /\ s.opacity = t.opacity
        /\ s.fading = t.fading /\ s.lifetimeTimeout = t.lifetimeTimeout /\ s.hides = t.hides
        /\ s.activateTimeout = t.activateTimeout /\ s.oldTimeouts = t.oldTimeouts - 1
        /\ s.trails = t.trails
    <3>1. t.oldTimeouts - 1 \in Nat
      BY <1>2, <1>3
    <3> QED
      BY <1>1, <3>1 DEF Tips!Tip
  <2> HIDE DEF s
  <2>3. options.trail = "lazy"
    BY <1>1, <1>3 DEF Timed
  <2>4. Tips!Waiting(s) <= MaxTimers
    BY <1>1, <1>2, <2>2, TipFields, TipNumbers
  <2> QED
    BY <1>0, <2>1, <2>2, <2>3, <2>4, ShownByTimer
<1>4. CASE t.oldTimeouts = 0 /\ t.activateTimeout
           /\ tips' = [tips EXCEPT ![o] = Tips!Shown([t EXCEPT !.activateTimeout = FALSE], place)]
  <2> DEFINE s == [t EXCEPT !.activateTimeout = FALSE]
  <2>1. tips' = [tips EXCEPT ![o] = Tips!Shown(s, place)]
    BY <1>4
  <2>2. s \in Tips!Tip /\ s.status = t.status /\ s.display = t.display /\ s.opacity = t.opacity
        /\ s.fading = t.fading /\ s.lifetimeTimeout = t.lifetimeTimeout /\ s.hides = t.hides
        /\ ~s.activateTimeout /\ s.oldTimeouts = t.oldTimeouts /\ s.trails = t.trails
    BY <1>1 DEF Tips!Tip
  <2> HIDE DEF s
  <2>3. options.trail # "lazy" => s.status = "pending" /\ s.oldTimeouts = 0 /\ s.trails = 0
    BY <1>1, <1>4, <2>2 DEF Timed
  <2>4. Tips!Waiting(s) <= MaxTimers
    BY <1>1, <1>2, <1>4, <2>2, TipFields, TipNumbers
  <2> QED
    BY <1>0, <2>1, <2>2, <2>3, <2>4, ShownByTimer
<1>5. CASE t.trails > 0 /\ tips' = [tips EXCEPT ![o] = Tips!Shown([t EXCEPT !.trails = t.trails - 1], place)]
  <2> DEFINE s == [t EXCEPT !.trails = t.trails - 1]
  <2>1. tips' = [tips EXCEPT ![o] = Tips!Shown(s, place)]
    BY <1>5
  <2>2. s \in Tips!Tip /\ s.status = t.status /\ s.display = t.display /\ s.opacity = t.opacity
        /\ s.fading = t.fading /\ s.lifetimeTimeout = t.lifetimeTimeout /\ s.hides = t.hides
        /\ s.activateTimeout = t.activateTimeout /\ s.oldTimeouts = t.oldTimeouts
        /\ s.trails = t.trails - 1
    <3>1. t.trails - 1 \in Nat
      BY <1>2, <1>5
    <3> QED
      BY <1>1, <3>1 DEF Tips!Tip
  <2> HIDE DEF s
  <2>3. options.trail = "lazy"
    BY <1>1, <1>5 DEF Timed
  <2>4. Tips!Waiting(s) <= MaxTimers
    BY <1>1, <1>2, <2>2, TipFields, TipNumbers
  <2> QED
    BY <1>0, <2>1, <2>2, <2>3, <2>4, ShownByTimer
<1> QED
  BY <1>3, <1>4, <1>5 DEF Tips!RunShow

LEMMA RunDeactivateStep ==
  ASSUME TipsInv, NEW o \in Owners, Tips!RunDeactivate(o)
  PROVE  TipsInv'
<1> DEFINE t == tips[o]
           s == [t EXCEPT !.lifetimeTimeout = FALSE]
           u == Tips!Deactivated(s)
<1>0. tips' = [tips EXCEPT ![o] = u] /\ t.lifetimeTimeout
      /\ UNCHANGED <<options, mouse, tipOver, lastOpened, dragged>>
  BY DEF Tips!RunDeactivate, Tips!rest
<1>1. t \in Tips!Tip /\ Seen(t) /\ Timed(t) /\ Tips!Waiting(t) <= MaxTimers
      /\ options \in Tips!Options
  BY TipsAllSound DEF AllSound, Sound
<1>2. options.type = "greasy"
  BY <1>0, <1>1 DEF Seen
<1>3. s \in Tips!Tip /\ s.status = t.status /\ s.display = t.display /\ s.opacity = t.opacity
      /\ s.fading = t.fading /\ ~s.lifetimeTimeout /\ s.hides = t.hides
      /\ s.activateTimeout = t.activateTimeout /\ s.oldTimeouts = t.oldTimeouts
      /\ s.trails = t.trails
  BY <1>1 DEF Tips!Tip
<1> HIDE DEF s
<1>4. Sound(s) /\ Tips!Waiting(s) = Tips!Waiting(t)
  <2>1. Seen(s) /\ Timed(s)
    BY <1>1, <1>3 DEF Seen, Timed
  <2> QED
    BY <1>1, <1>3, <2>1, TipFields DEF Sound
<1>5. ClosedOf(s, u) /\ u.status \notin Opened
  BY <1>1, <1>4, DeactivatedFacts
<1>6. Sound(u) /\ Tips!Waiting(u) <= MaxTimers
  BY <1>1, <1>4, <1>5, ClosedBound
<1> QED
  BY <1>0, <1>2, <1>5, <1>6, OneStep

LEMMA TickStep ==
  ASSUME TipsInv, NEW o \in Owners, Tips!Tick(o)
  PROVE  TipsInv'
<1> DEFINE t == tips[o]
           u == Tips!Faded(t)
<1>0. tips' = [tips EXCEPT ![o] = u] /\ t.fading # "no"
      /\ UNCHANGED <<options, mouse, tipOver, lastOpened, dragged>>
  BY DEF Tips!Tick, Tips!rest
<1>1. t \in Tips!Tip /\ Seen(t) /\ Timed(t) /\ Tips!Waiting(t) <= MaxTimers
      /\ t.opacity \in 0..MaxOpacity /\ t.fading \in {"no", "in", "out"}
  BY TipsAllSound DEF AllSound, Sound, Tips!Tip
<1>2. /\ u \in Tips!Tip /\ u.status = t.status /\ u.display = t.display
      /\ u.lifetimeTimeout = t.lifetimeTimeout /\ u.hides = t.hides
      /\ u.activateTimeout = t.activateTimeout /\ u.oldTimeouts = t.oldTimeouts
      /\ u.trails = t.trails
      /\ u.fading = t.fading \/ (u.fading = "no" /\ u.opacity = t.opacity)
      /\ u.fading = "no" =>
           (t.fading = "in" /\ u.opacity = MaxOpacity) \/ (t.fading = "out" /\ u.opacity = 0)
      /\ t.opacity = 0 /\ t.fading = "out" => u.opacity = 0
  <2>1. CASE t.fading = "in" /\ t.opacity < MaxOpacity
    <3>1. u = [t EXCEPT !.opacity = t.opacity + 1] /\ t.opacity + 1 \in 0..MaxOpacity
      BY <1>1, <2>1, TipNumbers DEF Tips!Faded
    <3> QED
      BY <1>1, <2>1, <3>1 DEF Tips!Tip
  <2>2. CASE t.fading = "out" /\ t.opacity > 0
    <3>1. u = [t EXCEPT !.opacity = t.opacity - 1] /\ t.opacity - 1 \in 0..MaxOpacity
      BY <1>1, <2>2, TipNumbers DEF Tips!Faded
    <3> QED
      <4>1. u \in Tips!Tip /\ u.fading = t.fading /\ u.opacity = t.opacity - 1
        BY <1>1, <3>1 DEF Tips!Tip
      <4>2. u.status = t.status /\ u.display = t.display /\ u.hides = t.hides
            /\ u.lifetimeTimeout = t.lifetimeTimeout /\ u.trails = t.trails
            /\ u.activateTimeout = t.activateTimeout /\ u.oldTimeouts = t.oldTimeouts
        BY <1>1, <3>1 DEF Tips!Tip
      <4> QED
        BY <2>2, <4>1, <4>2
  <2>3. CASE ~(t.fading = "in" /\ t.opacity < MaxOpacity) /\ ~(t.fading = "out" /\ t.opacity > 0)
    <3>1. u = [t EXCEPT !.fading = "no"]
      BY <2>3 DEF Tips!Faded
    <3>2. (t.fading = "in" => t.opacity = MaxOpacity) /\ (t.fading = "out" => t.opacity = 0)
      BY <1>1, <2>3, TipNumbers
    <3> QED
      BY <1>0, <1>1, <3>1, <3>2 DEF Tips!Tip
  <2> QED
    BY <2>1, <2>2, <2>3
<1> HIDE DEF u
<1>3. Seen(u)
  BY <1>0, <1>1, <1>2 DEF Seen
<1>4. Timed(u)
  BY <1>1, <1>2 DEF Timed
<1>5. Tips!Waiting(u) = Tips!Waiting(t)
  BY <1>1, <1>2, TipFields
<1>6. Sound(u) /\ Tips!Waiting(u) <= MaxTimers
  BY <1>1, <1>2, <1>3, <1>4, <1>5 DEF Sound
<1> QED
  BY <1>0, <1>2, <1>6, OneStep

LEMMA CloseTipStep ==
  ASSUME TipsInv, NEW o \in Owners, Tips!CloseTip(o)
  PROVE  TipsInv'
<1> DEFINE u == Tips!Deactivated(tips[o])
<1>0. tips' = [tips EXCEPT ![o] = u] /\ options.type \in {"sticky", "velcro"}
      /\ dragged = "none" /\ tipOver' = Tips!Page
      /\ UNCHANGED <<options, mouse, lastOpened, dragged>>
  BY DEF Tips!CloseTip, Tips!rest
<1>1. AllSound(tips) /\ \A p \in Owners : Sound(tips[p])
  BY TipsAllSound
<1>2. ClosedOf(tips[o], u) /\ u.status \notin Opened
  BY TipsAllSound, DeactivatedFacts
<1>3. Sound(u) /\ Tips!Waiting(u) <= MaxTimers /\ u \in Tips!Tip
  BY <1>1, <1>2, ClosedBound DEF AllSound, Sound
<1> HIDE DEF u
<1>4. tips' \in [Owners -> Tips!Tip] /\ tips'[o] = u /\ \A p \in Owners \ {o} : tips'[p] = tips[p]
  BY <1>0, <1>1, <1>3 DEF AllSound
<1>5. AllSound(tips)'
  <2>1. AllSound(tips')
    BY <1>1, <1>3, <1>4 DEF AllSound
  <2> QED
    BY <1>0, <2>1 DEF AllSound, Sound, Seen, Timed
<1>6. Tips!GreasyFollowsMouse' /\ Tips!OneTip' /\ Tips!HeldIsActive'
  <2>1. \A p \in Owners : tips'[p].status \in Opened => tips[p].status \in Opened
    BY <1>2, <1>4
  <2>2. Tips!OneTip'
    BY <1>0, <2>1 DEF TipsInv, Tips!OneTip, Opened
  <2>3. \A p \in Owners : tipOver' # <<p, "tip">>
    BY <1>0 DEF Tips!Page
  <2> QED
    BY <1>0, <2>2, <2>3 DEF Tips!GreasyFollowsMouse, Tips!HeldIsActive
<1> QED
  BY <1>0, <1>5, <1>6, TipsStep DEF TipsInv, Tips!TypeOK

LEMMA CloseAllStep ==
  ASSUME TipsInv, Tips!CloseAll
  PROVE  TipsInv'
<1>0. tips' = [o \in Owners |-> Tips!Deactivated(tips[o])] /\ tipOver = Tips!Page
      /\ UNCHANGED <<options, mouse, tipOver, lastOpened, dragged>>
  BY DEF Tips!CloseAll, Tips!rest
<1>1. AllSound(tips) /\ options \in Tips!Options /\ \A p \in Owners : Sound(tips[p])
  BY TipsAllSound
<1>2. \A o \in Owners : ClosedOf(tips[o], Tips!Deactivated(tips[o]))
                        /\ Tips!Deactivated(tips[o]).status \notin Opened
  BY <1>1, DeactivatedFacts
<1>3. \A o \in Owners : tips'[o] = Tips!Deactivated(tips[o])
  BY <1>0
<1>4. \A o \in Owners : Sound(tips'[o]) /\ Tips!Waiting(tips'[o]) <= MaxTimers /\ tips'[o] \in Tips!Tip
  BY <1>1, <1>2, <1>3, ClosedBound DEF AllSound, Sound
<1>5. AllSound(tips)'
  <2>1. tips' \in [Owners -> Tips!Tip]
    BY <1>0, <1>3, <1>4
  <2>2. AllSound(tips')
    BY <1>4, <2>1 DEF AllSound
  <2> QED
    BY <1>0, <2>2 DEF AllSound, Sound, Seen, Timed
<1>6. \A p \in Owners : tips'[p].status \notin Opened
  BY <1>2, <1>3
<1>7. \A p \in Owners : tipOver' # <<p, "tip">>
  BY <1>0 DEF Tips!Page
<1>8. Tips!GreasyFollowsMouse' /\ Tips!OneTip' /\ Tips!HeldIsActive'
  BY <1>0, <1>6, <1>7 DEF TipsInv, Tips!GreasyFollowsMouse, Tips!OneTip, Tips!HeldIsActive, Opened
<1> QED
  BY <1>0, <1>5, <1>8, TipsStep DEF TipsInv, Tips!TypeOK

LEMMA DragUpdateStep ==
  ASSUME TipsInv, NEW place, Tips!DragUpdate(place)
  PROVE  TipsInv'
<1> DEFINE t == tips[dragged]
           u == Tips!Collided(t, place)
<1>0. tips' = [tips EXCEPT ![dragged] = u] /\ dragged \in Owners
      /\ UNCHANGED <<options, mouse, tipOver, lastOpened, dragged>>
  BY DEF Tips!DragUpdate, Tips!rest, TipsInv, Tips!TypeOK
<1>1. t \in Tips!Tip /\ Seen(t) /\ Timed(t) /\ Tips!Waiting(t) <= MaxTimers
  BY <1>0, TipsAllSound DEF AllSound, Sound
<1>2. t.status = "active"
  BY <1>0, TipNumbers DEF Tips!DragUpdate, TipsInv, Tips!HeldIsActive
<1>3. u \in Tips!Tip /\ u.status = t.status /\ u.activateTimeout = t.activateTimeout
      /\ u.oldTimeouts = t.oldTimeouts /\ u.lifetimeTimeout = t.lifetimeTimeout
      /\ u.trails = t.trails /\ u.display = t.display /\ u.opacity = t.opacity
      /\ u.fading = t.fading
  BY <1>1, CollidedFacts
<1> HIDE DEF u
<1>4. Seen(u) /\ Timed(u)
  BY <1>1, <1>2, <1>3 DEF Seen, Timed
<1>5. Tips!Waiting(u) = Tips!Waiting(t)
  BY <1>1, <1>3, TipFields
<1>6. Sound(u) /\ Tips!Waiting(u) <= MaxTimers
  BY <1>1, <1>3, <1>4, <1>5 DEF Sound
<1> QED
  BY <1>0, <1>3, <1>6, OneStep

LEMMA TipsNext ==
  ASSUME TipsInv, [Tips!Next]_tipVars
  PROVE  TipsInv'
<1>1. CASE UNCHANGED tipVars
  BY <1>1 DEF tipVars, TipsInv, Tips!TypeOK, Seen, Timed, Tips!GreasyFollowsMouse,
     Tips!HeldIsActive,
              Tips!OneTip
<1>2. ASSUME NEW o \in Owners, Tips!DragStart(o) PROVE TipsInv'
  BY <1>2 DEF Tips!DragStart, Tips!rest, TipsInv, Tips!TypeOK, Seen, Timed, Tips!GreasyFollowsMouse,
              Tips!HeldIsActive, Tips!OneTip
<1>3. CASE Tips!DragStop
  BY <1>3 DEF Tips!DragStop, Tips!rest, TipsInv, Tips!TypeOK, Seen, Timed, Tips!GreasyFollowsMouse,
              Tips!HeldIsActive, Tips!OneTip
<1>4. CASE Tips!MoveRight \/ Tips!MoveDown
  <2>1. UNCHANGED <<options, tips, tipOver, lastOpened, dragged>>
    BY <1>4 DEF Tips!MoveRight, Tips!MoveDown
  <2>2. mouse' \in [x : 0..options.width, y : 0..options.height]
    <3>1. options.width \in Nat /\ options.height \in Nat
      BY TipsAllSound DEF Tips!Options
    <3> QED
      BY <1>4, <3>1 DEF Tips!MoveRight, Tips!MoveDown, TipsInv, Tips!TypeOK
  <2> QED
    BY <2>1, <2>2 DEF TipsInv, Tips!TypeOK, Seen, Timed, Tips!GreasyFollowsMouse, Tips!HeldIsActive,
                      Tips!OneTip
<1> QED
  BY <1>1, <1>2, <1>3, <1>4, MouseOverStep, ClickStep, MouseOutStep, MouseMoveStep, RunShowStep,
     RunDeactivateStep, TickStep, CloseTipStep, CloseAllStep, DragUpdateStep DEF Tips!Next

-----------------------------------------------------------------------------
\* What the invariant says of timers, of what is seen and of the list.
LEMMA TipsInvMeans ==
  ASSUME TipsInv
  PROVE  /\ Tips!TypeOK /\ Tips!TimersBelong /\ Tips!HeldIsActive /\ Tips!GreasyFollowsMouse
         /\ Tips!OneTip /\ Tips!ListIsBack /\ Tips!ActiveIsSeen /\ Tips!InactiveIsUnseen
<1>1. Tips!TimersBelong
  BY DEF TipsInv, Timed, Tips!TimersBelong
<1>2. Tips!ListIsBack
  BY DEF TipsInv, Seen, Tips!ListIsBack
<1>3. Tips!ActiveIsSeen /\ Tips!InactiveIsUnseen
  <2> SUFFICES ASSUME NEW o \in Owners
               PROVE  /\ options.fade # "out" /\ tips[o].status = "active" =>
                           tips[o].display /\ (tips[o].opacity > 0 \/ tips[o].fading = "in")
                      /\ tips[o].status # "active" =>
                           ~tips[o].display \/ tips[o].opacity = 0 \/ tips[o].fading = "out"
    BY DEF Tips!ActiveIsSeen, Tips!InactiveIsUnseen
  <2>1. Seen(tips[o]) /\ tips[o].fading \in {"no", "in", "out"}
    BY DEF TipsInv, Tips!TypeOK, Tips!Tip
  <2> QED
    BY <2>1, TipNumbers DEF Seen
<1> QED
  BY <1>1, <1>2, <1>3 DEF TipsInv

-----------------------------------------------------------------------------
(* Where a tip is put *)

LEMMA PlaceNumbers ==
  /\ {Width, Height, OffsetX, OffsetY, MouseHeight, Padding} \subseteq Nat /\ Padding <= MouseHeight
<1> QED
  BY WidgetsAssumption DEF WidgetsAssumption, Tips!DomTooltipAssumption

LEMMA OffsetFacts ==
  ASSUME NEW d
  PROVE  /\ Tips!OffsetLeft(d) \in Int
         /\ d \notin Tips!North => Tips!OffsetTop(d) = OffsetY /\ Tips!MouseOffset(d) = MouseHeight
<1> QED
  BY PlaceNumbers DEF Tips!OffsetLeft, Tips!OffsetTop, Tips!MouseOffset

\* domTT_correctEdgeBleed: a tip that fits is moved between the left and right edges.
LEMMA LeftFits ==
  ASSUME NEW x \in Int, options.width \in Nat, Width + 2 * Padding <= options.width
  PROVE  /\ Tips!CorrectedLeft(x) >= Padding
         /\ Tips!CorrectedLeft(x) + Width <= options.width - Padding
<1> QED
  BY PlaceNumbers DEF Tips!CorrectedLeft

\* A tip below the mouse stays there or is flipped above it, and one that has room
\* on either side gets it.
LEMMA BelowOrAbove ==
  ASSUME mouse.y \in Nat, options.height \in Nat, options.direction \notin Tips!North
  PROVE  /\ \/ Tips!Y = mouse.y + MouseHeight + OffsetY
            \/ Tips!Y = mouse.y - Height - OffsetY
         /\ Tips!RoomBelow \/ Tips!RoomAbove =>
              Tips!Y >= Padding /\ Tips!Y + Height <= options.height - Padding
<1> DEFINE d == options.direction
           y0 == mouse.y + Tips!OffsetTop(d) + Tips!MouseOffset(d)
<1>1. Tips!OffsetTop(d) = OffsetY /\ Tips!MouseOffset(d) = MouseHeight
  BY OffsetFacts
<1>2. Tips!Y = IF Tips!Flipped(y0, d) < Padding THEN mouse.y + MouseHeight + OffsetY
               ELSE Tips!Flipped(y0, d)
  BY <1>1 DEF Tips!Y, Tips!CorrectedTop
<1>3. Tips!Flipped(y0, d) =
        IF y0 + Height - (options.height - Padding) > 0 THEN mouse.y - Height - OffsetY ELSE y0
  BY <1>1 DEF Tips!Flipped
<1>4. y0 = mouse.y + MouseHeight + OffsetY
  BY <1>1, PlaceNumbers
<1> HIDE DEF y0
<1> QED
  BY <1>1, <1>2, <1>3, <1>4, PlaceNumbers DEF Tips!RoomBelow, Tips!RoomAbove

LEMMA PlaceTypes ==
  ASSUME Tips!TypeOK
  PROVE  /\ mouse.x \in Nat /\ mouse.y \in Nat
         /\ options.width \in Nat /\ options.height \in Nat
<1>1. options.width \in Nat /\ options.height \in Nat
  BY TipNumbers DEF Tips!TypeOK, Tips!Options
<1> QED
  BY <1>1 DEF Tips!TypeOK

LEMMA OnPageHolds == Tips!TypeOK => Tips!OnPage
<1> SUFFICES ASSUME Tips!TypeOK PROVE Tips!OnPage
  OBVIOUS
<1>1. Width + 2 * Padding <= options.width =>
        Tips!X >= Padding /\ Tips!X + Width <= options.width - Padding
  <2>1. mouse.x + Tips!OffsetLeft(options.direction) \in Int
    BY OffsetFacts, PlaceTypes
  <2> QED
    BY <2>1, LeftFits, PlaceTypes DEF Tips!X
<1>2. options.direction \notin Tips!North /\ (Tips!RoomBelow \/ Tips!RoomAbove)
        => Tips!Y >= Padding /\ Tips!Y + Height <= options.height - Padding
  BY BelowOrAbove, PlaceTypes
<1> QED
  BY <1>1, <1>2 DEF Tips!OnPage

LEMMA BesideMouseHolds == Tips!TypeOK => Tips!BesideMouse
<1> QED
  BY BelowOrAbove, PlaceTypes, PlaceNumbers DEF Tips!BesideMouse

-----------------------------------------------------------------------------
(* The pop-up calendars *)

\* A calendar of the page is shown alone, and is the one that was opened last
\* and the one that is pressed.
OneCalendar ==
  Popup!OneShown =>
    /\ shown \subseteq {popup} /\ (shown # {} => listening)
    /\ popupParams.cache => shown \subseteq {1}
    /\ pressed => shown \subseteq {C}

\* What is pressed is an element of one calendar, which alone may be dragged.
PressedOne ==
  /\ pressed <=> C # Popup!None
  /\ dragging \subseteq {C} \ {Popup!None}
  /\ C # Popup!None => activeDiv[C] \in Popup!Elements
  /\ C # Popup!None => (C \in dragging <=> activeDiv[C] = "title")
  /\ ~pressed => over[2] # "item"

\* Only the pressed calendar waits for a combo or shows one, that of its button.
Awaited ==
  \A c \in Popup!Calendars :
    /\ timeout[c] # "none" => C = c /\ timeout[c] = activeDiv[c]
    /\ combos[c] # {} => C = c /\ combos[c] = {activeDiv[c]}

\* What is highlighted in a calendar that is shown is under the mouse, and is
\* what is pressed, if anything is.
Hilited ==
  /\ C \in dragging => \A h \in hilite : h[1] \notin shown
  /\ \A h \in hilite : h[1] \in shown =>
       h = over /\ h[2] # "title" /\ (pressed => h = <<C, activeDiv[C]>>)

PopupInv ==
  /\ Popup!TypeOK /\ Popup!KeysReachShown /\ Popup!CoveredIsHidden
  /\ OneCalendar /\ PressedOne /\ Awaited /\ Hilited

LEMMA PopupNumbers ==
  /\ MaxOpens \in Nat /\ MaxOpens > 0
  /\ PopupParams \subseteq [cache : BOOLEAN, focus : BOOLEAN]
  /\ Popup!None = 0 /\ Popup!Calendars = 1..MaxOpens /\ Popup!None \notin Popup!Calendars
<1> QED
  BY WidgetsAssumption DEF WidgetsAssumption, Popup!CalendarPopupAssumption, Popup!None,
     Popup!Calendars

LEMMA PopupInit == Popup!Init => PopupInv
<1> SUFFICES ASSUME Popup!Init PROVE PopupInv
  OBVIOUS
<1>1. Popup!TypeOK
  <2>1. /\ activeDiv \in [Popup!Calendars -> Popup!Elements \cup {"none", "item"}]
        /\ timeout \in [Popup!Calendars -> {"none", "month", "year"}]
        /\ combos \in [Popup!Calendars -> SUBSET {"month", "year"}]
    BY DEF Popup!Init
  <2>2. opens \in 0..MaxOpens
    BY PopupNumbers DEF Popup!Init
  <2>3. {listening, pressed, visible} \subseteq BOOLEAN
    BY DEF Popup!Init
  <2>4. /\ popupParams \in PopupParams /\ shown = {} /\ dragging = {} /\ covers \subseteq Popup!Calendars
        /\ over = Popup!Page /\ popup = Popup!None /\ C = Popup!None
    BY DEF Popup!Init
  <2> QED
    BY <2>1, <2>2, <2>3, <2>4 DEF Popup!TypeOK
<1>2. Popup!KeysReachShown /\ Popup!CoveredIsHidden /\ OneCalendar
  BY DEF Popup!Init, Popup!KeysReachShown, Popup!CoveredIsHidden, OneCalendar
<1>3. PressedOne /\ Hilited
  BY DEF Popup!Init, PressedOne, Hilited, Popup!Page
<1>4. Awaited
  BY DEF Popup!Init, Awaited
<1> QED
  BY <1>1, <1>2, <1>3, <1>4 DEF PopupInv

LEMMA PopupTypes ==
  ASSUME PopupInv
  PROVE  /\ popupParams.cache \in BOOLEAN /\ popupParams.focus \in BOOLEAN
         /\ over = Popup!Page \/ over \in Popup!Calendars \X (Popup!Elements \cup {"item"})
         /\ C # Popup!None => C \in Popup!Calendars
         /\ popup # Popup!None => popup \in Popup!Calendars
         /\ listening => popup \in Popup!Calendars
         /\ ~pressed => C = Popup!None /\ dragging = {}
<1>1. popupParams \in [cache : BOOLEAN, focus : BOOLEAN]
  BY PopupNumbers DEF PopupInv, Popup!TypeOK
<1> QED
  BY <1>1 DEF PopupInv, Popup!TypeOK, Popup!KeysReachShown, PressedOne

LEMMA TriggerStep ==
  ASSUME PopupInv, Popup!Trigger
  PROVE  PopupInv'
<1> DEFINE c == IF popupParams.cache THEN 1 ELSE opens + 1
<1>0. /\ opens < MaxOpens /\ ~pressed /\ (popupParams.focus \/ shown = {}) /\ opens' = opens + 1
      /\ shown' = shown \cup {c} /\ popup' = c /\ listening' = TRUE
      /\ hilite' = hilite \ {h \in hilite : h[1] = c}
      /\ visible' = ~(c \in covers)
      /\ UNCHANGED <<popupParams, C, activeDiv, timeout, combos, dragging, over, pressed, covers>>
  BY DEF Popup!Trigger, Popup!ShowAtElement, Popup!ClearClasses, Popup!HideShowCovered,
         Popup!RemoveClass, Popup!press
<1>1. c \in Popup!Calendars /\ opens' \in 0..MaxOpens
  BY <1>0, PopupNumbers DEF PopupInv, Popup!TypeOK
<1>2. Popup!OneShown => shown' = {c} /\ (popupParams.cache => c = 1)
  BY <1>0 DEF PopupInv, OneCalendar, Popup!OneShown
<1> HIDE DEF c
<1>3. Popup!TypeOK'
  BY <1>0, <1>1 DEF PopupInv, Popup!TypeOK
<1>4. Popup!KeysReachShown'
  BY <1>0 DEF Popup!KeysReachShown
<1>5. Popup!CoveredIsHidden'
  BY <1>0, <1>2 DEF Popup!CoveredIsHidden, Popup!OneShown
<1>6. OneCalendar'
  BY <1>0, <1>2 DEF OneCalendar, Popup!OneShown
<1>7. PressedOne' /\ Awaited'
  BY <1>0 DEF PopupInv, PressedOne, Awaited
<1>8. Hilited'
  BY <1>0, PopupTypes DEF PopupInv, Hilited
<1> QED
  BY <1>3, <1>4, <1>5, <1>6, <1>7, <1>8 DEF PopupInv

\* A calendar that is closed, with or without a release of the mouse.
LEMMA CloseStep ==
  ASSUME PopupInv, NEW c \in Popup!Calendars, Popup!Close(c),
         Popup!OneShown => shown \subseteq {c}
  PROVE  /\ shown' = shown \ {c} /\ ~listening' /\ popup' = popup
         /\ over' = Popup!Page \/ (over' = over /\ over[1] # c)
         /\ visible' = TRUE
         /\ Popup!OneShown => shown' = {}
         /\ \A h \in hilite : h[1] \in shown' => h[1] \in shown /\ over' = over
<1>1. /\ shown' = shown \ {c} /\ ~listening' /\ popup' = popup /\ visible' = TRUE
      /\ over' = IF over[1] = c THEN Popup!Page ELSE over
  BY DEF Popup!Close, Popup!Hide, Popup!HideShowCovered
<1>2. \A h \in hilite : h[1] \in shown' => h[1] \in shown /\ over' = over
  BY <1>1 DEF PopupInv, Hilited
<1> QED
  BY <1>1, <1>2

LEMMA PressOutsideStep ==
  ASSUME PopupInv, Popup!PressOutside \/ Popup!Escape
  PROVE  PopupInv'
<1>0. listening /\ Popup!Close(popup)
      /\ UNCHANGED <<popupParams, opens, C, activeDiv, timeout, combos, dragging, hilite,
         pressed, covers>>
  BY DEF Popup!PressOutside, Popup!Escape, Popup!press, Popup!rest
<1>1. popup \in Popup!Calendars /\ (Popup!OneShown => shown \subseteq {popup})
  BY <1>0, PopupTypes DEF PopupInv, OneCalendar
<1>2. /\ shown' = shown \ {popup} /\ ~listening' /\ popup' = popup
      /\ over' = Popup!Page \/ (over' = over /\ over[1] # popup)
      /\ visible' = TRUE
      /\ Popup!OneShown => shown' = {}
      /\ \A h \in hilite : h[1] \in shown' => h[1] \in shown /\ over' = over
  BY <1>0, <1>1, CloseStep
<1>3. Popup!TypeOK' /\ Popup!KeysReachShown'
  BY <1>0, <1>2 DEF PopupInv, Popup!TypeOK, Popup!KeysReachShown, Popup!Close, Popup!Hide
<1>4. Popup!CoveredIsHidden'
  BY <1>0, <1>2 DEF Popup!CoveredIsHidden, Popup!OneShown
<1>5. OneCalendar'
  BY <1>0, <1>2 DEF OneCalendar, Popup!OneShown
<1>6. PressedOne' /\ Awaited'
  BY <1>0, <1>2 DEF PopupInv, PressedOne, Awaited, Popup!Page
<1>7. Hilited'
  BY <1>0, <1>2 DEF PopupInv, Hilited
<1> QED
  BY <1>3, <1>4, <1>5, <1>6, <1>7 DEF PopupInv

LEMMA PressStep ==
  ASSUME PopupInv, Popup!Press
  PROVE  PopupInv'
<1> DEFINE c == over[1]
           e == over[2]
<1>0. /\ ~pressed /\ c # Popup!None /\ (listening => c = popup) /\ pressed' = TRUE /\ C' = c
      /\ activeDiv' = [activeDiv EXCEPT ![c] = e]
      /\ timeout' = [timeout EXCEPT ![c] = IF e \in {"month", "year"} THEN e ELSE "none"]
      /\ IF e = "title" THEN dragging' = dragging \cup {c} /\ hilite' = hilite
         ELSE hilite' = hilite \cup {over} /\ dragging' = dragging
      /\ UNCHANGED <<popupParams, opens, shown, popup, listening, visible, combos, over, covers>>
  BY DEF Popup!Press, Popup!AddClass, Popup!document, Popup!rest
<1>1. c \in Popup!Calendars /\ e \in Popup!Elements /\ over = <<c, e>>
      /\ C = Popup!None /\ dragging = {}
  BY <1>0, PopupTypes DEF PopupInv, PressedOne, Popup!Page, Popup!None
<1> HIDE DEF c, e
<1>2. /\ activeDiv' \in [Popup!Calendars -> Popup!Elements \cup {"none", "item"}]
      /\ timeout' \in [Popup!Calendars -> {"none", "month", "year"}]
      /\ activeDiv'[c] = e
      /\ \A d \in Popup!Calendars \ {c} : timeout'[d] = timeout[d]
      /\ timeout'[c] \in {e, "none"}
  BY <1>0, <1>1 DEF PopupInv, Popup!TypeOK
<1>3. \A d \in Popup!Calendars : timeout[d] = "none" /\ combos[d] = {}
  BY <1>1, PopupNumbers DEF PopupInv, Awaited
<1>4. dragging' \subseteq {c} /\ (c \in dragging' <=> e = "title")
  BY <1>0, <1>1
<1>5. Popup!TypeOK'
  BY <1>0, <1>1, <1>2, <1>4 DEF PopupInv, Popup!TypeOK
<1>6. Popup!KeysReachShown' /\ Popup!CoveredIsHidden'
  BY <1>0, <1>1, <1>4 DEF PopupInv, Popup!KeysReachShown, Popup!CoveredIsHidden, Popup!OneShown
<1>7. OneCalendar'
  BY <1>0 DEF PopupInv, OneCalendar, Popup!OneShown
<1>8. PressedOne'
  BY <1>0, <1>1, <1>2, <1>4 DEF PressedOne
<1>9. Awaited'
  BY <1>0, <1>2, <1>3 DEF Awaited
<1>10. Hilited'
  BY <1>0, <1>1, <1>2, <1>4 DEF PopupInv, Hilited
<1> QED
  BY <1>5, <1>6, <1>7, <1>8, <1>9, <1>10 DEF PopupInv

LEMMA TimeoutStep ==
  ASSUME PopupInv, NEW c \in Popup!Calendars, Popup!Timeout(c)
  PROVE  PopupInv'
<1>0. /\ timeout[c] # "none" /\ timeout' = [timeout EXCEPT ![c] = "none"]
      /\ combos' = IF C = Popup!None THEN combos ELSE [combos EXCEPT ![C] = @ \cup {timeout[c]}]
      /\ UNCHANGED <<popupParams, opens, shown, popup, listening, visible, C, activeDiv, dragging,
                     hilite, over, pressed, covers>>
  BY DEF Popup!Timeout, Popup!ClearTimeout, Popup!document, Popup!rest
<1>1. C = c /\ timeout[c] = activeDiv[c] /\ C # Popup!None
  BY <1>0, PopupNumbers DEF PopupInv, Awaited
<1>2. combos' = [combos EXCEPT ![c] = combos[c] \cup {activeDiv[c]}]
  BY <1>0, <1>1
<1>3. timeout' \in [Popup!Calendars -> {"none", "month", "year"}] /\ activeDiv[c] \in {"month", "year"}
  BY <1>0, <1>1 DEF PopupInv, Popup!TypeOK
<1>4. combos' \in [Popup!Calendars -> SUBSET {"month", "year"}]
      /\ combos'[c] = {activeDiv[c]} /\ \A d \in Popup!Calendars \ {c} : combos'[d] = combos[d]
  <2>1. combos[c] = {} \/ combos[c] = {activeDiv[c]}
    BY DEF PopupInv, Awaited
  <2>2. combos[c] \cup {activeDiv[c]} = {activeDiv[c]}
    BY <2>1
  <2> QED
    BY <1>2, <1>3, <2>2 DEF PopupInv, Popup!TypeOK
<1>5. Awaited'
  BY <1>0, <1>1, <1>4 DEF PopupInv, Awaited, Popup!TypeOK
<1>6. Popup!TypeOK'
  BY <1>0, <1>3, <1>4 DEF PopupInv, Popup!TypeOK
<1>7. Popup!KeysReachShown' /\ Popup!CoveredIsHidden' /\ OneCalendar' /\ PressedOne' /\ Hilited'
  BY <1>0 DEF PopupInv, Popup!KeysReachShown, Popup!CoveredIsHidden, Popup!OneShown, OneCalendar,
              PressedOne, Hilited
<1> QED
  BY <1>5, <1>6, <1>7 DEF PopupInv

LEMMA MoveStep ==
  ASSUME PopupInv, NEW to \in Popup!Targets, Popup!Move(to)
  PROVE  PopupInv'
<1>0. /\ to # over /\ (C \in dragging => to = Popup!Page) /\ over' = to
      /\ hilite' = IF C = Popup!None
                   THEN (hilite \ {over}) \cup {t \in {to} : t[2] \in Popup!Elements \ {"title"}}
                   ELSE IF C \in dragging THEN hilite
                   ELSE IF to = <<C, activeDiv[C]>> THEN hilite \cup {to}
                   ELSE hilite \ {<<C, activeDiv[C]>>}
      /\ UNCHANGED <<popupParams, opens, shown, popup, listening, visible, C, activeDiv, timeout,
                     combos, dragging, pressed, covers>>
  BY DEF Popup!Move, Popup!document, Popup!press, Popup!rest, Popup!RemoveClass, Popup!AddClass,
         Popup!SameElement
<1>1. to = Popup!Page \/ to \in Popup!Calendars \X (Popup!Elements \cup {"item"})
  BY DEF PopupInv, Popup!TypeOK, Popup!Targets
<1>2. ~pressed => to[2] # "item"
  <2>1. ASSUME ~pressed, NEW c \in shown, combos[c] # {} PROVE FALSE
    <3>1. c \in Popup!Calendars /\ C = Popup!None
      BY <2>1, PopupTypes DEF PopupInv, Popup!TypeOK
    <3> QED
      BY <2>1, <3>1, PopupNumbers DEF PopupInv, Awaited
  <2>2. \A e \in Popup!Elements : e # "item"
    BY DEF Popup!Elements
  <2> QED
    BY <2>1, <2>2 DEF Popup!Targets, Popup!Page
<1>3. Popup!TypeOK'
  BY <1>0, <1>1 DEF PopupInv, Popup!TypeOK
<1>4. PressedOne'
  BY <1>0, <1>2 DEF PopupInv, PressedOne
<1>5. Hilited'
  <2>1. CASE C = Popup!None
    <3>1. ~pressed /\ C \notin dragging
      BY <2>1 DEF PopupInv, PressedOne
    <3>2. \A h \in hilite' : h[1] \in shown => h = to /\ h[2] # "title"
      BY <1>0, <2>1 DEF PopupInv, Hilited
    <3> QED
      BY <1>0, <3>1, <3>2 DEF Hilited
  <2>2. CASE C # Popup!None /\ C \in dragging
    BY <1>0, <2>2 DEF PopupInv, Hilited
  <2>3. CASE C # Popup!None /\ C \notin dragging
    <3>1. pressed /\ activeDiv[C] \in Popup!Elements
      BY <2>3 DEF PopupInv, PressedOne
    <3>2. \A h \in hilite : h[1] \in shown => h = <<C, activeDiv[C]>> /\ h[2] # "title"
      BY <3>1 DEF PopupInv, Hilited
    <3>3. CASE to = <<C, activeDiv[C]>>
      <4>1. activeDiv[C] # "title"
        BY <2>3 DEF PopupInv, PressedOne
      <4> QED
        BY <1>0, <2>3, <3>2, <3>3, <4>1 DEF Hilited
    <3>4. CASE to # <<C, activeDiv[C]>>
      BY <1>0, <2>3, <3>2, <3>4 DEF Hilited
    <3> QED
      BY <3>3, <3>4
  <2> QED
    BY <2>1, <2>2, <2>3
<1>6. Popup!KeysReachShown' /\ Popup!CoveredIsHidden' /\ OneCalendar' /\ Awaited'
  BY <1>0 DEF PopupInv, Popup!KeysReachShown, Popup!CoveredIsHidden, Popup!OneShown, OneCalendar,
              Awaited
<1> QED
  BY <1>3, <1>4, <1>5, <1>6 DEF PopupInv

LEMMA DragStep ==
  ASSUME PopupInv, NEW now \in BOOLEAN, Popup!Drag(now)
  PROVE  PopupInv'
<1>0. /\ C \in dragging /\ visible' = ~(C \in shown /\ C \in covers)
      /\ covers' = IF now THEN covers \cup {C} ELSE covers \ {C}
      /\ UNCHANGED <<popupParams, opens, shown, popup, listening, C, activeDiv, timeout, combos,
                     dragging, hilite, over, pressed>>
  BY DEF Popup!Drag, Popup!HideShowCovered, Popup!press, Popup!rest
<1>1. Popup!TypeOK'
  BY <1>0 DEF PopupInv, Popup!TypeOK
<1>2. Popup!CoveredIsHidden'
  BY <1>0 DEF Popup!CoveredIsHidden
<1>3. Popup!KeysReachShown' /\ OneCalendar' /\ PressedOne' /\ Awaited' /\ Hilited'
  BY <1>0 DEF PopupInv, Popup!KeysReachShown, Popup!OneShown, OneCalendar, PressedOne, Awaited,
              Hilited
<1> QED
  BY <1>1, <1>2, <1>3 DEF PopupInv

LEMMA ReleaseStep ==
  ASSUME PopupInv, Popup!Release
  PROVE  PopupInv'
<1>0. /\ pressed /\ ~pressed' /\ C' = Popup!None
      /\ timeout' = [timeout EXCEPT ![C] = "none"] /\ combos' = [combos EXCEPT ![C] = {}]
      /\ dragging' = dragging \ {C}
      /\ hilite' \subseteq hilite
      /\ UNCHANGED <<popupParams, opens, activeDiv, covers>>
  BY DEF Popup!Release, Popup!ClearTimeout, Popup!HideCombos, Popup!DragEnd, Popup!rest,
         Popup!HiliteAfterClick, Popup!RemoveClass
<1>1. /\ C \in Popup!Calendars /\ activeDiv[C] # "item" /\ dragging' = {}
      /\ Popup!OneShown => shown \subseteq {C}
  BY <1>0, PopupTypes DEF PopupInv, PressedOne, OneCalendar, Popup!Elements
<1>2. /\ shown' \subseteq shown /\ popup' = popup /\ (listening' => listening /\ shown' = shown)
      /\ over' = over \/ over' = Popup!Page
      /\ over'[2] # "item"
      /\ \A h \in hilite : h[1] \in shown' => h[1] \in shown /\ over' = over
      /\ Popup!OneShown =>
           (visible' <=> shown' \cap covers = {}) /\ (shown' = {} \/ listening' = listening)
      /\ visible' \in BOOLEAN /\ listening' \in BOOLEAN
  <2>1. CASE Popup!Closes(C) /\ Popup!Close(C)
    <3>1. Popup!Close(C) /\ over[2] = "day"
      BY <2>1 DEF Popup!Closes
    <3>2. /\ shown' = shown \ {C} /\ ~listening' /\ popup' = popup
          /\ over' = Popup!Page \/ (over' = over /\ over[1] # C)
          /\ visible' = TRUE
          /\ Popup!OneShown => shown' = {}
          /\ \A h \in hilite : h[1] \in shown' => h[1] \in shown /\ over' = over
      BY <1>1, <3>1, CloseStep
    <3>3. listening' = FALSE
      BY <3>1 DEF Popup!Close, Popup!Hide
    <3>4. over'[2] # "item"
      BY <3>1, <3>2 DEF Popup!Page
    <3> QED
      BY <3>2, <3>3, <3>4
  <2>2. CASE ~(Popup!Closes(C) /\ Popup!Close(C))
    <3>1. /\ shown' = shown /\ popup' = popup /\ listening' = listening
          /\ over' = IF over[2] = "item" THEN Popup!Page ELSE over
          /\ visible' = IF C \in dragging THEN ~(C \in shown /\ C \in covers) ELSE visible
      BY <2>2 DEF Popup!Release, Popup!HideShowCovered
    <3>2. over'[2] # "item"
      BY <3>1 DEF Popup!Page
    <3>3. ASSUME NEW h \in hilite, h[1] \in shown PROVE over' = over
      <4>1. h = over /\ h = <<C, activeDiv[C]>>
        BY <1>0, <3>3 DEF PopupInv, Hilited
      <4>2. over[2] # "item"
        BY <1>1, <4>1
      <4> QED
        BY <3>1, <4>2
    <3>4. Popup!OneShown => (visible' <=> shown \cap covers = {})
      <4>1. CASE C \in dragging
        BY <1>1, <3>1, <4>1
      <4>2. CASE C \notin dragging
        <5>1. dragging = {}
          BY <4>2 DEF PopupInv, PressedOne
        <5> QED
          BY <3>1, <4>2, <5>1 DEF PopupInv, Popup!CoveredIsHidden
      <4> QED
        BY <4>1, <4>2
    <3>5. visible' \in BOOLEAN /\ listening' \in BOOLEAN
      BY <3>1 DEF PopupInv, Popup!TypeOK
    <3>6. shown' \subseteq shown /\ (listening' => listening /\ shown' = shown)
      BY <3>1
    <3>7. over' = over \/ over' = Popup!Page
      BY <3>1
    <3> QED
      BY <3>1, <3>2, <3>3, <3>4, <3>5, <3>6, <3>7
  <2> QED
    BY <2>1, <2>2
<1>3. Popup!TypeOK'
  <2>1. /\ timeout' \in [Popup!Calendars -> {"none", "month", "year"}]
        /\ combos' \in [Popup!Calendars -> SUBSET {"month", "year"}]
    BY <1>0 DEF PopupInv, Popup!TypeOK
  <2>2. {listening', pressed', visible'} \subseteq BOOLEAN
    <3>1. pressed' = FALSE
      BY DEF Popup!Release
    <3> QED
      BY <1>2, <3>1
  <2>3. over' = Popup!Page \/ over' \in Popup!Calendars \X (Popup!Elements \cup {"item"})
    BY <1>2 DEF PopupInv, Popup!TypeOK
  <2>4. shown' \subseteq Popup!Calendars /\ popup' \in Popup!Calendars \cup {Popup!None}
    BY <1>2 DEF PopupInv, Popup!TypeOK
  <2> QED
    BY <1>0, <1>1, <2>1, <2>2, <2>3, <2>4 DEF PopupInv, Popup!TypeOK
<1>4. Popup!KeysReachShown' /\ Popup!CoveredIsHidden' /\ OneCalendar'
  <2>1. Popup!KeysReachShown'
    BY <1>2 DEF PopupInv, Popup!KeysReachShown
  <2>2. Popup!CoveredIsHidden'
    BY <1>0, <1>2 DEF Popup!CoveredIsHidden, Popup!OneShown
  <2>3. OneCalendar'
    BY <1>0, <1>2 DEF PopupInv, OneCalendar, Popup!OneShown
  <2> QED
    BY <2>1, <2>2, <2>3
<1>5. PressedOne'
  BY <1>0, <1>1, <1>2 DEF PressedOne
<1>6. Awaited'
  BY <1>0, <1>1 DEF PopupInv, Awaited, Popup!TypeOK
<1>7. Hilited'
  BY <1>0, <1>1, <1>2 DEF PopupInv, Hilited
<1> QED
  BY <1>3, <1>4, <1>5, <1>6, <1>7 DEF PopupInv

LEMMA ArrowStep ==
  ASSUME PopupInv, Popup!Arrow
  PROVE  PopupInv'
<1>0. /\ hilite' \subseteq hilite
      /\ UNCHANGED <<popupParams, opens, shown, popup, listening, visible, C, activeDiv, timeout,
                     combos, dragging, over, pressed, covers>>
  BY DEF Popup!Arrow, Popup!RemoveClass, Popup!document, Popup!press, Popup!rest
<1> QED
  BY <1>0 DEF PopupInv, Popup!TypeOK, Popup!KeysReachShown, Popup!CoveredIsHidden, Popup!OneShown,
              OneCalendar, PressedOne, Awaited, Hilited

LEMMA PopupNext ==
  ASSUME PopupInv, Popup!Next
  PROVE  PopupInv'
<1> QED
  BY TriggerStep, PressOutsideStep, PressStep, ReleaseStep, ArrowStep, TimeoutStep, MoveStep,
     DragStep DEF Popup!Next

LEMMA PopupRests ==
  ASSUME PopupInv, UNCHANGED popupVars
  PROVE  PopupInv'
<1> QED
  BY DEF popupVars, PopupInv, Popup!TypeOK, Popup!KeysReachShown, Popup!CoveredIsHidden,
         Popup!OneShown, OneCalendar, PressedOne, Awaited, Hilited, Popup!Targets

LEMMA PopupInvMeans ==
  ASSUME PopupInv
  PROVE  /\ Popup!TypeOK /\ Popup!ComboOfPressed /\ Popup!ReleaseEndsAll
         /\ Popup!HiliteFollowsMouse /\ Popup!CoveredIsHidden /\ Popup!ShownListens
         /\ Popup!KeysReachShown
<1>1. Popup!ComboOfPressed
  BY DEF PopupInv, Awaited, Popup!ComboOfPressed
<1>2. Popup!ReleaseEndsAll
  BY PopupTypes, PopupNumbers DEF PopupInv, Awaited, Popup!ReleaseEndsAll
<1>3. Popup!HiliteFollowsMouse
  BY DEF PopupInv, Hilited, Popup!HiliteFollowsMouse
<1>4. Popup!ShownListens
  BY DEF PopupInv, OneCalendar, Popup!ShownListens
<1> QED
  BY <1>1, <1>2, <1>3, <1>4 DEF PopupInv

-----------------------------------------------------------------------------
(* Dates.  A day is counted in the four hundred years that begin in March: *)
(* an era, its century, a leap period of four years, a year of it, a month *)
(* and a day.                                                              *)

Place(e, a, b, c) == e \in Int /\ a \in 0..3 /\ b \in 0..24 /\ c \in 0..3

YearNumber(e, a, b, c) == 400 * e + 100 * a + 4 * b + c
DayNumber(e, a, b, c, doy) == 146097 * e + 36524 * a + 1461 * b + 365 * c + doy

\* Just the year before a leap year has a last day, the 29th of February.
LongYear(a, b, c) == c = 3 /\ (b # 24 \/ a = 3)
InYear(a, b, c, doy) == doy \in Int /\ 0 <= doy /\ doy <= 365 /\ (doy = 365 => LongYear(a, b, c))

\* The days before a month of a year that begins in March.
Before(m1) == (153 * m1 + 2) \div 5
DayOfYear(m1, d) == Before(m1) + d - 1
InMonth(m1, d) ==
  /\ m1 \in 0..11 /\ d \in 1..31
  /\ m1 \in {1, 3, 6, 8} => d <= 30
  /\ m1 = 11 => d <= 29

\* The month and the year as they are called.
MonthOf(m1) == (m1 + 2) % 12
YearOf(e, a, b, c, m1) == YearNumber(e, a, b, c) + (IF m1 >= 10 THEN 1 ELSE 0)

\* A day has a place in an era ...
LEMMA PlaceOfDay ==
  ASSUME NEW n \in Int
  PROVE  \E e, a, b, c, doy :
           Place(e, a, b, c) /\ InYear(a, b, c, doy) /\ n = DayNumber(e, a, b, c, doy)
<1> DEFINE e == n \div 146097
           dn == n % 146097
           a == IF dn = 146096 THEN 3 ELSE dn \div 36524
           r == dn - 36524 * a
           b == r \div 1461
           s == r - 1461 * b
           c == IF s = 1460 THEN 3 ELSE s \div 365
           doy == s - 365 * c
<1>1. e \in Int /\ dn \in Int /\ 0 <= dn /\ dn <= 146096 /\ n = 146097 * e + dn
  BY SMTT(30)
<1> HIDE DEF e, dn
<1>2. a \in 0..3 /\ r \in Int /\ 0 <= r /\ r <= 36524 /\ (r = 36524 => a = 3)
  BY <1>1, SMTT(30)
<1>3. dn = 36524 * a + r
  BY <1>1, <1>2, SMTT(30)
<1> HIDE DEF a, r
<1>4. b \in 0..24 /\ s \in Int /\ 0 <= s /\ s <= 1460 /\ (s = 1460 /\ b = 24 => r = 36524)
      /\ r = 1461 * b + s
  BY <1>2, SMTT(30)
<1> HIDE DEF b, s
<1>5. c \in 0..3 /\ doy \in Int /\ 0 <= doy /\ doy <= 365 /\ (doy = 365 => s = 1460 /\ c = 3)
      /\ s = 365 * c + doy
  BY <1>4, SMTT(30)
<1> HIDE DEF c, doy
<1>6. n = DayNumber(e, a, b, c, doy)
  BY <1>1, <1>2, <1>3, <1>4, <1>5, SMTT(30) DEF DayNumber
<1>7. Place(e, a, b, c)
  BY <1>1, <1>2, <1>4, <1>5 DEF Place
<1>8. InYear(a, b, c, doy)
  BY <1>2, <1>4, <1>5, SMTT(30) DEF InYear, LongYear
<1> QED
  BY <1>6, <1>7, <1>8, Zenon

\* ... and a day of a year has a month and a day of it.
LEMMA PlaceOfMonth ==
  ASSUME NEW a, NEW b, NEW c, NEW doy, InYear(a, b, c, doy)
  PROVE  \E m1, d : /\ InMonth(m1, d) /\ doy = DayOfYear(m1, d)
                    /\ m1 = 11 /\ d = 29 => LongYear(a, b, c)
<1> DEFINE m1 == (5 * doy + 2) \div 153
           d == doy - Before(m1) + 1
<1>1. doy \in Int /\ 0 <= doy /\ doy <= 365 /\ (doy = 365 => LongYear(a, b, c))
  BY DEF InYear
<1>2. /\ m1 \in 0..11 /\ d \in 1..31
      /\ m1 \in {1, 3, 6, 8} => d <= 30
      /\ m1 = 11 => d <= 29 /\ (d = 29 => doy = 365)
      /\ doy = Before(m1) + d - 1
  BY <1>1, SMTT(30) DEF Before
<1> HIDE DEF m1, d
<1>3. InMonth(m1, d) /\ doy = DayOfYear(m1, d) /\ (m1 = 11 /\ d = 29 => LongYear(a, b, c))
  BY <1>1, <1>2 DEF InMonth, DayOfYear
<1> QED
  BY <1>3

LEMMA PlaceOfYear ==
  ASSUME NEW y1 \in Int
  PROVE  \E e, a, b, c : Place(e, a, b, c) /\ y1 = YearNumber(e, a, b, c)
<1> DEFINE e == y1 \div 400
           a == (y1 % 400) \div 100
           b == (y1 % 100) \div 4
           c == y1 % 4
<1>1. e \in Int /\ a \in 0..3 /\ b \in 0..24 /\ c \in 0..3 /\ y1 = 400 * e + 100 * a + 4 * b + c
  BY SMTT(30)
<1> HIDE DEF e, a, b, c
<1>2. Place(e, a, b, c) /\ y1 = YearNumber(e, a, b, c)
  BY <1>1 DEF Place, YearNumber
<1> QED
  BY <1>2

\* The date of a place.
LEMMA FromPlace ==
  ASSUME NEW e, NEW a, NEW b, NEW c, Place(e, a, b, c), NEW m1, NEW d, InMonth(m1, d),
         m1 = 11 /\ d = 29 => LongYear(a, b, c)
  PROVE  Grid!FromDays(DayNumber(e, a, b, c, DayOfYear(m1, d))) =
           [y |-> YearOf(e, a, b, c, m1), m |-> MonthOf(m1), d |-> d]
<1>1. /\ e \in Int /\ a \in 0..3 /\ b \in 0..24 /\ c \in 0..3 /\ m1 \in 0..11 /\ d \in 1..31
      /\ m1 \in {1, 3, 6, 8} => d <= 30
      /\ m1 = 11 => d <= 29
  BY DEF Place, InMonth
<1>2. PICK doy \in Int : doy = DayOfYear(m1, d)
  BY <1>1, SMTT(30) DEF DayOfYear, Before
<1>3. /\ 0 <= doy /\ doy <= 365 /\ (doy = 365 => LongYear(a, b, c))
      /\ doy - ((153 * m1 + 2) \div 5) + 1 = d
      /\ (5 * doy + 2) \div 153 = m1
  BY <1>1, <1>2, SMTT(30) DEF DayOfYear, Before
<1>4. PICK yoe \in Int : yoe = 100 * a + 4 * b + c
  BY <1>1
<1>5. PICK dn \in Int : dn = 36524 * a + 1461 * b + 365 * c + doy
  BY <1>1, SMTT(30)
<1>6. PICK n \in Int : n = 146097 * e + dn
  BY <1>1, SMTT(30)
<1>7. n = DayNumber(e, a, b, c, DayOfYear(m1, d))
  BY <1>1, <1>2, <1>5, <1>6, SMTT(30) DEF DayNumber
<1>8. 0 <= dn /\ dn <= 146096
  BY <1>1, <1>3, <1>5, SMTT(30) DEF LongYear
<1>9. (dn - (dn \div 1460) + (dn \div 36524) - (dn \div 146096)) \div 365 = yoe
  BY ONLY <1>1, <1>3, <1>4, <1>5, doy \in Int, dn \in Int, SMTT(30) DEF LongYear
<1>10. dn - (365 * yoe + (yoe \div 4) - (yoe \div 100)) = doy
  <2>1. yoe \div 4 = 25 * a + b /\ yoe \div 100 = a
    BY <1>1, <1>4, SMTT(30)
  <2> QED
    BY <1>1, <1>4, <1>5, <2>1, SMTT(30)
<1>11. n \div 146097 = e /\ n % 146097 = dn
  BY ONLY <1>1, <1>6, <1>8, n \in Int, dn \in Int, SMTT(30)
<1>12. Grid!FromDays(n) = [y |-> e * 400 + yoe + (IF (m1 + 2) % 12 < 2 THEN 1 ELSE 0),
                           m |-> (m1 + 2) % 12, d |-> doy - ((153 * m1 + 2) \div 5) + 1]
  <2>1. (5 * doy + 2) \div 153 = m1
    BY <1>3
  <2> QED
    BY ONLY <2>1, <1>9, <1>10, <1>11, SMTT(30) DEF Grid!FromDays, Grid!Date
<1>13. e * 400 + yoe + (IF (m1 + 2) % 12 < 2 THEN 1 ELSE 0) = YearOf(e, a, b, c, m1)
  BY <1>1, <1>4, SMTT(30) DEF YearOf, YearNumber
<1> QED
  BY <1>3, <1>7, <1>12, <1>13 DEF MonthOf

\* A year with a 29th of February.
Leap(y) == y % 4 = 0 /\ (y % 100 # 0 \/ y % 400 = 0)

LEMMA MonthDays ==
  ASSUME NEW y \in Int, NEW m \in 0..11
  PROVE  Grid!GetMonthDays(y, m) =
           IF m = 1 THEN (IF Leap(y) THEN 29 ELSE 28) ELSE IF m \in {3, 5, 8, 10} THEN 30 ELSE 31
<1>1. m \in {0, 1, 2, 3, 4, 5, 6, 7, 8, 9, 10, 11}
  OBVIOUS
<1>2. Grid!MD[m + 1] = IF m = 1 THEN 28 ELSE IF m \in {3, 5, 8, 10} THEN 30 ELSE 31
  BY <1>1 DEF Grid!MD
<1> QED
  BY <1>2 DEF Grid!GetMonthDays, Leap

LEMMA MonthDaysRange ==
  ASSUME NEW y \in Int, NEW m \in 0..11
  PROVE  Grid!GetMonthDays(y, m) \in 28..31 /\ Grid!GetMonthDays(y, 11) = 31
<1> QED
  BY MonthDays

LEMMA DaysOfPlace ==
  ASSUME NEW e, NEW a, NEW b, NEW c, Place(e, a, b, c), NEW m1, NEW d, InMonth(m1, d)
  PROVE  Grid!Days(YearOf(e, a, b, c, m1), MonthOf(m1), d)
           = DayNumber(e, a, b, c, DayOfYear(m1, d))
<1>1. e \in Int /\ a \in 0..3 /\ b \in 0..24 /\ c \in 0..3 /\ m1 \in 0..11 /\ d \in 1..31
  BY DEF Place, InMonth
<1>2. PICK y1 \in Int : y1 = 400 * e + 100 * a + 4 * b + c
  BY <1>1, SMTT(30)
<1>3. PICK y \in Int : y = YearOf(e, a, b, c, m1) /\ y = y1 + (IF m1 >= 10 THEN 1 ELSE 0)
  BY <1>1, <1>2, SMTT(30) DEF YearOf, YearNumber
<1>4. /\ (IF MonthOf(m1) < 2 THEN y - 1 ELSE y) = y1
      /\ (MonthOf(m1) + 10) % 12 = m1
  BY <1>1, <1>3, SMTT(30) DEF MonthOf
<1>5. y1 \div 4 = 100 * e + 25 * a + b /\ y1 \div 100 = 4 * e + a /\ y1 \div 400 = e
  BY ONLY <1>1, <1>2, SMTT(30)
<1>6. Grid!Days(y, MonthOf(m1), d)
        = 365 * y1 + (y1 \div 4) - (y1 \div 100) + (y1 \div 400) + ((153 * m1 + 2) \div 5) + d - 1
  BY <1>4, SMTT(30) DEF Grid!Days
<1>7. PICK k \in Int : k = (153 * m1 + 2) \div 5
  BY <1>1, SMTT(30)
<1> QED
  BY <1>1, <1>2, <1>3, <1>5, <1>6, <1>7, SMTT(30) DEF DayNumber, DayOfYear, Before

LEMMA MonthDaysOfPlace ==
  ASSUME NEW e, NEW a, NEW b, NEW c, Place(e, a, b, c), NEW m1 \in 0..11
  PROVE  /\ YearOf(e, a, b, c, m1) \in Int /\ MonthOf(m1) \in 0..11
         /\ Grid!GetMonthDays(YearOf(e, a, b, c, m1), MonthOf(m1)) =
              IF m1 = 11 THEN (IF LongYear(a, b, c) THEN 29 ELSE 28)
              ELSE IF m1 \in {1, 3, 6, 8} THEN 30 ELSE 31
<1>1. e \in Int /\ a \in 0..3 /\ b \in 0..24 /\ c \in 0..3
  BY DEF Place
<1>2. PICK y \in Int : y = YearOf(e, a, b, c, m1)
  BY <1>1, SMTT(30) DEF YearOf, YearNumber
<1>3. PICK m \in 0..11 : m = MonthOf(m1)
  BY SMTT(30) DEF MonthOf
<1>4. (m = 1 <=> m1 = 11) /\ (m \in {3, 5, 8, 10} <=> m1 \in {1, 3, 6, 8})
  BY <1>3, SMTT(30) DEF MonthOf
<1>5. m1 = 11 => (Leap(y) <=> LongYear(a, b, c))
  <2>1. SUFFICES ASSUME y = 400 * e + 100 * a + 4 * b + c + 1 PROVE Leap(y) <=> LongYear(a, b, c)
    BY <1>1, <1>2, SMTT(30) DEF YearOf, YearNumber
  <2>2. y % 4 = (c + 1) % 4
    BY ONLY <1>1, <2>1, y \in Int, SMTT(30)
  <2>3. y % 100 = 0 <=> b = 24 /\ c = 3
    BY ONLY <1>1, <2>1, y \in Int, SMTT(30)
  <2>4. y % 400 = 0 <=> a = 3 /\ b = 24 /\ c = 3
    BY ONLY <1>1, <2>1, y \in Int, SMTT(30)
  <2> QED
    BY ONLY <1>1, <2>2, <2>3, <2>4, y \in Int, SMTT(30) DEF Leap, LongYear
<1>6. Grid!GetMonthDays(y, m) =
        IF m = 1 THEN (IF Leap(y) THEN 29 ELSE 28) ELSE IF m \in {3, 5, 8, 10} THEN 30 ELSE 31
  BY MonthDays
<1> QED
  BY <1>2, <1>3, <1>4, <1>5, <1>6

\* Every number of days is that of a date ...
LEMMA DayIsADate ==
  ASSUME NEW n \in Int
  PROVE  Grid!IsDate(Grid!FromDays(n)) /\ Grid!DaysOf(Grid!FromDays(n)) = n
<1>1. PICK e, a, b, c, doy :
        Place(e, a, b, c) /\ InYear(a, b, c, doy) /\ n = DayNumber(e, a, b, c, doy)
  BY PlaceOfDay
<1>2. PICK m1, d : /\ InMonth(m1, d) /\ doy = DayOfYear(m1, d)
                   /\ m1 = 11 /\ d = 29 => LongYear(a, b, c)
  BY <1>1, PlaceOfMonth
<1>3. Grid!FromDays(n) = [y |-> YearOf(e, a, b, c, m1), m |-> MonthOf(m1), d |-> d]
  BY <1>1, <1>2, FromPlace
<1>4. Grid!Days(YearOf(e, a, b, c, m1), MonthOf(m1), d) = n
  BY <1>1, <1>2, DaysOfPlace
<1>5. /\ m1 \in 0..11 /\ d \in 1..31
      /\ m1 \in {1, 3, 6, 8} => d <= 30
      /\ m1 = 11 => d <= 29
  BY <1>2 DEF InMonth
<1>6. /\ YearOf(e, a, b, c, m1) \in Int /\ MonthOf(m1) \in 0..11
      /\ Grid!GetMonthDays(YearOf(e, a, b, c, m1), MonthOf(m1)) =
           IF m1 = 11 THEN (IF LongYear(a, b, c) THEN 29 ELSE 28)
           ELSE IF m1 \in {1, 3, 6, 8} THEN 30 ELSE 31
  BY <1>1, <1>5, MonthDaysOfPlace
<1>7. d \in 1..Grid!GetMonthDays(YearOf(e, a, b, c, m1), MonthOf(m1))
  BY <1>2, <1>5, <1>6
<1> QED
  BY <1>3, <1>4, <1>6, <1>7 DEF Grid!IsDate, Grid!Date, Grid!DaysOf

\* ... and of no other one.
LEMMA FromDaysOf ==
  ASSUME NEW date, Grid!IsDate(date)
  PROVE  Grid!DaysOf(date) \in Int /\ Grid!FromDays(Grid!DaysOf(date)) = date
<1>1. /\ date = [y |-> date.y, m |-> date.m, d |-> date.d] /\ date.y \in Int /\ date.m \in 0..11
      /\ date.d \in 1..Grid!GetMonthDays(date.y, date.m)
  BY DEF Grid!IsDate, Grid!Date
<1>2. PICK m1 \in 0..11 : date.m = MonthOf(m1)
  <2>1. (date.m + 10) % 12 \in 0..11 /\ date.m = MonthOf((date.m + 10) % 12)
    BY <1>1, SMTT(30) DEF MonthOf
  <2> QED
    BY <2>1
<1>3. PICK y1 \in Int : date.y = y1 + (IF m1 >= 10 THEN 1 ELSE 0)
  <2>1. date.y = (IF m1 >= 10 THEN date.y - 1 ELSE date.y) + (IF m1 >= 10 THEN 1 ELSE 0)
    BY <1>1, SMTT(30)
  <2>2. (IF m1 >= 10 THEN date.y - 1 ELSE date.y) \in Int
    BY <1>1, SMTT(30)
  <2> QED
    BY <2>1, <2>2
<1>4. PICK e, a, b, c : Place(e, a, b, c) /\ y1 = YearNumber(e, a, b, c)
  BY PlaceOfYear
<1>5. date.y = YearOf(e, a, b, c, m1)
  BY <1>3, <1>4 DEF YearOf
<1>6. Grid!GetMonthDays(date.y, date.m) =
        IF m1 = 11 THEN (IF LongYear(a, b, c) THEN 29 ELSE 28)
        ELSE IF m1 \in {1, 3, 6, 8} THEN 30 ELSE 31
  BY <1>2, <1>4, <1>5, MonthDaysOfPlace
<1>7. InMonth(m1, date.d) /\ (m1 = 11 /\ date.d = 29 => LongYear(a, b, c))
  BY <1>1, <1>6, SMTT(30) DEF InMonth
<1>8. DayNumber(e, a, b, c, DayOfYear(m1, date.d)) \in Int
  BY <1>4, <1>7, SMTT(30) DEF DayNumber, DayOfYear, Before, Place, InMonth
<1>9. Grid!DaysOf(date) = DayNumber(e, a, b, c, DayOfYear(m1, date.d))
  BY <1>2, <1>4, <1>5, <1>7, DaysOfPlace DEF Grid!DaysOf
<1>10. Grid!FromDays(DayNumber(e, a, b, c, DayOfYear(m1, date.d)))
         = [y |-> YearOf(e, a, b, c, m1), m |-> MonthOf(m1), d |-> date.d]
  BY <1>4, <1>7, FromPlace
<1> QED
  BY <1>1, <1>2, <1>5, <1>8, <1>9, <1>10

-----------------------------------------------------------------------------
(* The setters of a date *)

LEMMA DaysInMonth ==
  ASSUME NEW y \in Int, NEW m \in 0..11, NEW d \in Int
  PROVE  Grid!Days(y, m, d) \in Int /\ Grid!Days(y, m, d) = Grid!Days(y, m, 1) + d - 1
<1> DEFINE y1 == IF m < 2 THEN y - 1 ELSE y
           k == 365 * y1 + (y1 \div 4) - (y1 \div 100) + (y1 \div 400)
                  + ((153 * ((m + 10) % 12) + 2) \div 5)
<1>1. y1 \in Int
  OBVIOUS
<1>2. k \in Int
  <2> HIDE DEF y1
  <2> QED
    BY <1>1, SMTT(30)
<1>3. Grid!Days(y, m, d) = k + d - 1 /\ Grid!Days(y, m, 1) = k + 1 - 1
  BY Zenon DEF Grid!Days
<1> HIDE DEF k
<1> QED
  BY <1>2, <1>3, SMTT(30)

LEMMA DateFields ==
  ASSUME NEW y \in Int, NEW m \in 0..11, NEW k \in 1..Grid!GetMonthDays(y, m)
  PROVE  /\ Grid!IsDate(Grid!Date(y, m, k)) /\ k \in 1..31
         /\ Grid!Date(y, m, k).y = y /\ Grid!Date(y, m, k).m = m /\ Grid!Date(y, m, k).d = k
<1> QED
  BY MonthDaysRange DEF Grid!IsDate, Grid!Date

LEMMA IsDateMeans ==
  ASSUME NEW date, Grid!IsDate(date)
  PROVE  /\ date.y \in Int /\ date.m \in 0..11 /\ date.d \in 1..31
         /\ date.d <= Grid!GetMonthDays(date.y, date.m)
         /\ date = Grid!Date(date.y, date.m, date.d)
<1> QED
  BY MonthDaysRange DEF Grid!IsDate

\* Days that the month has are not moved.
LEMMA DayOfMonth ==
  ASSUME NEW y \in Int, NEW m \in 0..11, NEW k \in 1..Grid!GetMonthDays(y, m)
  PROVE  Grid!FromDays(Grid!Days(y, m, 1) + k - 1) = Grid!Date(y, m, k)
<1>1. Grid!IsDate(Grid!Date(y, m, k)) /\ k \in Int
  BY DateFields
<1>2. Grid!DaysOf(Grid!Date(y, m, k)) = Grid!Days(y, m, 1) + k - 1
  <2>1. Grid!DaysOf(Grid!Date(y, m, k)) = Grid!Days(y, m, k)
    BY DateFields DEF Grid!DaysOf
  <2> QED
    BY <1>1, <2>1, DaysInMonth
<1> QED
  BY <1>1, <1>2, FromDaysOf

LEMMA SetDateIs ==
  ASSUME NEW date, Grid!IsDate(date), NEW k \in 1..Grid!GetMonthDays(date.y, date.m)
  PROVE  Grid!SetDate(date, k) = Grid!Date(date.y, date.m, k)
<1> QED
  BY IsDateMeans, DayOfMonth DEF Grid!SetDate

LEMMA SetMonthIs ==
  ASSUME NEW date, Grid!IsDate(date), NEW m \in 0..11
  PROVE  /\ Grid!IsDate(Grid!SetMonth(date, m))
         /\ date.d <= Grid!GetMonthDays(date.y, m) =>
              Grid!SetMonth(date, m) = Grid!Date(date.y, m, date.d)
<1>1. Grid!Days(date.y, m, 1) + date.d - 1 \in Int
  <2>1. date.y \in Int /\ date.d \in 1..31
    BY IsDateMeans
  <2>2. \A y \in Int : Grid!Days(y, m, 1) \in Int
    <3>1. 1 \in Int
      OBVIOUS
    <3> QED
      BY <3>1, DaysInMonth
  <2> QED
    BY <2>1, <2>2
<1>2. Grid!IsDate(Grid!SetMonth(date, m))
  BY <1>1, DayIsADate DEF Grid!SetMonth
<1>3. date.d <= Grid!GetMonthDays(date.y, m) => date.d \in 1..Grid!GetMonthDays(date.y, m)
  BY IsDateMeans, MonthDaysRange
<1> QED
  BY <1>2, <1>3, IsDateMeans, DayOfMonth DEF Grid!SetMonth

\* A year that is not a leap year has no 29th of February.
LEMMA AfterFebruary ==
  ASSUME NEW y \in Int, ~Leap(y)
  PROVE  Grid!Days(y, 1, 1) + 29 - 1 = Grid!Days(y, 2, 1)
<1>1. /\ (0 + 10) % 12 = 10 /\ (1 + 10) % 12 = 11 /\ (2 + 10) % 12 = 0
      /\ (153 * 11 + 2) \div 5 = 337 /\ (153 * 0 + 2) \div 5 = 0
  BY SMTT(30)
<1>2. Grid!Days(y, 1, 1) = 365 * (y - 1) + ((y - 1) \div 4) - ((y - 1) \div 100) + ((y - 1) \div 400)
                             + 337 + 1 - 1
  BY <1>1, SMTT(30) DEF Grid!Days
<1>3. Grid!Days(y, 2, 1) = 365 * y + (y \div 4) - (y \div 100) + (y \div 400) + 0 + 1 - 1
  BY <1>1, SMTT(30) DEF Grid!Days
<1>4. (y \div 4) - (y \div 100) + (y \div 400)
        = ((y - 1) \div 4) - ((y - 1) \div 100) + ((y - 1) \div 400)
  <2>1. (y \div 4) - ((y - 1) \div 4) = IF y % 4 = 0 THEN 1 ELSE 0
    BY SMTT(30)
  <2>2. (y \div 100) - ((y - 1) \div 100) = IF y % 100 = 0 THEN 1 ELSE 0
    BY SMTT(30)
  <2>3. (y \div 400) - ((y - 1) \div 400) = IF y % 400 = 0 THEN 1 ELSE 0
    BY SMTT(30)
  <2>4. (y % 100 = 0 => y % 4 = 0) /\ (y % 400 = 0 => y % 100 = 0)
    BY SMTT(30)
  <2> QED
    BY <2>1, <2>2, <2>3, <2>4, SMTT(30) DEF Leap
<1> QED
  BY <1>2, <1>3, <1>4, SMTT(30)

LEMMA SetFullYearIs ==
  ASSUME NEW date, Grid!IsDate(date), NEW y \in Int
  PROVE  /\ Grid!SetFullYear(date, y) =
              Grid!Date(y, date.m, IF date.d > Grid!GetMonthDays(y, date.m) THEN 28 ELSE date.d)
         /\ Grid!IsDate(Grid!SetFullYear(date, y))
<1>1. /\ date.y \in Int /\ date.m \in 0..11 /\ date.d \in 1..31
      /\ date.d <= Grid!GetMonthDays(date.y, date.m)
      /\ 28 \in 1..Grid!GetMonthDays(date.y, date.m) /\ 28 \in 1..Grid!GetMonthDays(y, date.m)
  BY IsDateMeans, MonthDaysRange
<1>2. CASE date.d <= Grid!GetMonthDays(y, date.m)
  <2>1. date.d \in 1..Grid!GetMonthDays(y, date.m) /\ ~(date.d > Grid!GetMonthDays(y, date.m))
    BY <1>1, <1>2, MonthDaysRange
  <2>2. Grid!OldSetFullYear(date, y) = Grid!Date(y, date.m, date.d)
    BY <1>1, <2>1, DayOfMonth DEF Grid!OldSetFullYear
  <2>3. Grid!SetFullYear(date, y) = Grid!Date(y, date.m, date.d)
    BY <1>1, <2>1, <2>2, DateFields DEF Grid!SetFullYear
  <2> QED
    BY <1>1, <2>1, <2>3, DateFields
<1>3. CASE date.d > Grid!GetMonthDays(y, date.m)
  <2>1. date.m = 1 /\ date.d = 29 /\ ~Leap(y)
    BY <1>1, <1>3, MonthDays
  <2>2. Grid!OldSetFullYear(date, y) = Grid!Date(y, 2, 1)
    <3>1. Grid!OldSetFullYear(date, y) = Grid!FromDays(Grid!Days(y, 2, 1))
      BY <2>1, AfterFebruary DEF Grid!OldSetFullYear
    <3>2. Grid!Days(y, 2, 1) = Grid!Days(y, 2, 1) + 1 - 1
      BY DaysInMonth
    <3>3. 1 \in 1..Grid!GetMonthDays(y, 2)
      BY MonthDaysRange
    <3> QED
      BY <3>1, <3>2, <3>3, DayOfMonth
  <2>3. Grid!OldSetFullYear(date, y).m # date.m
    BY <2>1, <2>2 DEF Grid!Date
  <2> DEFINE d28 == Grid!SetDate(date, 28)
  <2>4. d28 = Grid!Date(date.y, date.m, 28)
    BY <1>1, SetDateIs
  <2>5. d28.m = date.m /\ d28.d = 28
    BY <2>4 DEF Grid!Date
  <2>6. Grid!SetFullYear(date, y) = Grid!OldSetFullYear(d28, y)
    BY <2>3 DEF Grid!SetFullYear
  <2> HIDE DEF d28
  <2>7. Grid!OldSetFullYear(d28, y) = Grid!Date(y, date.m, 28)
    BY <1>1, <2>5, DayOfMonth DEF Grid!OldSetFullYear
  <2> QED
    BY <1>1, <1>3, <2>6, <2>7, DateFields
<1>4. date.d <= Grid!GetMonthDays(y, date.m) \/ date.d > Grid!GetMonthDays(y, date.m)
  BY <1>1, MonthDaysRange
<1> QED
  BY <1>2, <1>3, <1>4

LEMMA SetDateOnlyIs ==
  ASSUME NEW date, Grid!IsDate(date), NEW other, Grid!IsDate(other)
  PROVE  Grid!SetDateOnly(date, other) = other
<1> DEFINE a == Grid!SetDate(date, 1)
           b == Grid!SetFullYear(a, other.y)
           c == Grid!SetMonth(b, other.m)
<1>1. /\ date.y \in Int /\ date.m \in 0..11 /\ other.y \in Int /\ other.m \in 0..11
      /\ \A y \in Int, m \in 0..11 : 1 \in 1..Grid!GetMonthDays(y, m)
  BY IsDateMeans, MonthDaysRange
<1>2. Grid!IsDate(a) /\ a.m = date.m /\ a.d = 1
  <2>1. a = Grid!Date(date.y, date.m, 1)
    BY <1>1, SetDateIs
  <2> QED
    BY <1>1, <2>1, DateFields
<1> HIDE DEF a
<1>3. Grid!IsDate(b) /\ b.y = other.y /\ b.d = 1
  <2>1. ~(a.d > Grid!GetMonthDays(other.y, a.m))
    BY <1>1, <1>2, MonthDaysRange
  <2>2. b = Grid!Date(other.y, a.m, a.d)
    BY <1>1, <1>2, <2>1, SetFullYearIs
  <2> QED
    BY <1>1, <1>2, <2>2, DateFields
<1> HIDE DEF b
<1>4. Grid!IsDate(c) /\ c.y = other.y /\ c.m = other.m
  <2>1. c = Grid!Date(other.y, other.m, 1)
    BY <1>1, <1>3, SetMonthIs, MonthDaysRange
  <2> QED
    BY <1>1, <2>1, DateFields
<1>5. Grid!SetDateOnly(date, other) = Grid!SetDate(c, other.d)
  BY DEF Grid!SetDateOnly, a, b
<1> HIDE DEF c
<1>6. other.d \in 1..Grid!GetMonthDays(c.y, c.m) /\ other = Grid!Date(other.y, other.m, other.d)
  BY <1>4 DEF Grid!IsDate
<1> QED
  BY <1>4, <1>5, <1>6, SetDateIs

LEMMA ToMonthIs ==
  ASSUME NEW date, Grid!IsDate(date), NEW m \in 0..11
  PROVE  /\ Grid!IsDate(Grid!ToMonth(date, m))
         /\ Grid!ToMonth(date, m).y = date.y /\ Grid!ToMonth(date, m).m = m
         /\ Grid!ToMonth(date, m).d \in {date.d, Grid!GetMonthDays(date.y, m)}
<1> DEFINE max == Grid!GetMonthDays(date.y, m)
           d == IF date.d > max THEN Grid!SetDate(date, max) ELSE date
<1>1. date.y \in Int /\ date.m \in 0..11 /\ date.d \in 1..31 /\ max \in 28..31
  BY IsDateMeans, MonthDaysRange
<1> HIDE DEF max
<1>2. Grid!IsDate(d) /\ d.y = date.y /\ d.d \in {date.d, max} /\ d.d <= max /\ d.d \in 1..max
  <2>1. CASE date.d > max
    <3>1. max \in 1..Grid!GetMonthDays(date.y, date.m)
      BY <1>1, <2>1, IsDateMeans, MonthDaysRange
    <3>2. d = Grid!Date(date.y, date.m, max)
      BY <2>1, <3>1, SetDateIs
    <3> HIDE DEF d
    <3> QED
      BY <1>1, <3>1, <3>2, DateFields
  <2>2. CASE ~(date.d > max)
    BY <1>1, <2>2
  <2> QED
    BY <2>1, <2>2
<1>3. Grid!ToMonth(date, m) = Grid!SetMonth(d, m)
  BY DEF Grid!ToMonth, max
<1> HIDE DEF d
<1>4. Grid!SetMonth(d, m) = Grid!Date(date.y, m, d.d)
  BY <1>2, SetMonthIs DEF max
<1> QED
  BY <1>1, <1>2, <1>3, <1>4, DateFields DEF max

-----------------------------------------------------------------------------
(* The grid of a month *)

\* A calendar, whose grid is that of a month within its years.
Calendar ==
  [date : {d \in [y : Int, m : 0..11, d : 1..31] : Grid!IsDate(d)},
   grid : {d \in [y : Int, m : 0..11, d : 1..31] : Grid!IsDate(d)},
   firstDayOfWeek : 0..6,
   el : Grid!Cells \cup {Grid!None},
   elDate : {d \in [y : Int, m : 0..11, d : 1..31] : Grid!IsDate(d)}]

Years == MinYear..MaxYear
OfMonth(c) == c.grid = Grid!Date(c.grid.y, c.grid.m, 1) /\ c.grid.y \in Years

LEMMA IsDateIn ==
  ASSUME NEW d
  PROVE  Grid!IsDate(d) <=> d \in {x \in [y : Int, m : 0..11, d : 1..31] : Grid!IsDate(x)}
<1> QED
  BY IsDateMeans DEF Grid!Date

LEMMA CalendarFields ==
  ASSUME NEW c \in Calendar
  PROVE  /\ Grid!IsDate(c.date) /\ Grid!IsDate(c.grid) /\ Grid!IsDate(c.elDate)
         /\ c.firstDayOfWeek \in 0..6 /\ c.el \in Grid!Cells \cup {Grid!None}
         /\ DOMAIN c = {"date", "grid", "firstDayOfWeek", "el", "elDate"}
<1> QED
  BY DEF Calendar

LEMMA NavNumbers ==
  /\ MinYear \in Nat /\ MaxYear \in Nat /\ MinYear <= MaxYear
  /\ Grid!IsDate(Today) /\ \A d \in Firsts : Grid!IsDate(d) /\ d.y \in Years
  /\ FirstDays \subseteq 0..6
<1> QED
  BY WidgetsAssumption DEF WidgetsAssumption, Grid!CalendarNavAssumption, Years

LEMMA InYearsIs ==
  ASSUME NEW d, Grid!IsDate(d)
  PROVE  /\ Grid!IsDate(Grid!InYears(d)) /\ Grid!InYears(d).y \in Years
         /\ d.y \in Years => Grid!InYears(d) = d
<1>1. d.y \in Int /\ d.m \in 0..11 /\ d.d \in 1..31
  BY IsDateMeans
<1>2. \A y \in {MinYear, MaxYear} :
        Grid!IsDate(Grid!SetFullYear(d, y)) /\ Grid!SetFullYear(d, y).y = y
  <2> TAKE y \in {MinYear, MaxYear}
  <2>1. y \in Int
    BY NavNumbers
  <2>2. Grid!SetFullYear(d, y) =
          Grid!Date(y, d.m, IF d.d > Grid!GetMonthDays(y, d.m) THEN 28 ELSE d.d)
        /\ Grid!IsDate(Grid!SetFullYear(d, y))
    BY <2>1, SetFullYearIs
  <2> QED
    BY <2>2 DEF Grid!Date
<1> QED
  BY <1>1, <1>2, NavNumbers DEF Grid!InYears, Years

\* The grid begins in the week of the first, on the day that weeks begin with.
LEMMA StartIs ==
  ASSUME NEW c \in Calendar
  PROVE  /\ Grid!Start(c) \in Int /\ Grid!DaysOf(c.grid) \in Int
         /\ Grid!DaysOf(c.grid) - 6 <= Grid!Start(c) /\ Grid!Start(c) <= Grid!DaysOf(c.grid)
         /\ (Grid!Start(c) + 3) % 7 = c.firstDayOfWeek
<1>1. PICK n \in Int : n = Grid!DaysOf(c.grid)
  BY CalendarFields, FromDaysOf
<1>2. PICK f \in 0..6 : f = c.firstDayOfWeek
  BY CalendarFields
<1>3. Grid!Start(c) = n - ((((n + 3) % 7) - f) % 7)
  BY <1>1, <1>2 DEF Grid!Start, Grid!WeekDay
<1>4. PICK k \in 0..6 : k = (((n + 3) % 7) - f) % 7
  BY SMTT(30)
<1>5. (n - k + 3) % 7 = f
  BY <1>4, SMTT(30)
<1>6. Grid!Start(c) = n - k
  BY <1>3, <1>4
<1>7. (Grid!Start(c) + 3) % 7 = f
  BY <1>5, <1>6, Zenon
<1>8. n - k \in Int /\ n - 6 <= n - k /\ n - k <= n
  OBVIOUS
<1> QED
  BY <1>1, <1>2, <1>6, <1>7, <1>8, Zenon

LEMMA CellsAre ==
  ASSUME NEW p \in Grid!Cells
  PROVE  p[1] \in 0..6 /\ p[2] \in 0..5 /\ p = <<p[1], p[2]>> /\ p # Grid!None
<1> QED
  BY DEF Grid!Cells, Grid!None

LEMMA CellDateIs ==
  ASSUME NEW c \in Calendar, NEW p \in Grid!Cells
  PROVE  /\ Grid!IsDate(Grid!CellDate(c, p))
         /\ Grid!DaysOf(Grid!CellDate(c, p)) = Grid!Start(c) + 7 * p[2] + p[1]
<1>1. Grid!Start(c) + 7 * p[2] + p[1] \in Int
  BY StartIs, CellsAre
<1> QED
  BY <1>1, DayIsADate DEF Grid!CellDate

\* A number of days since the start is a cell of the grid.
LEMMA CellOfNumber ==
  ASSUME NEW c \in Calendar, NEW n \in 0..41
  PROVE  /\ <<n % 7, n \div 7>> \in Grid!Cells
         /\ Grid!CellDate(c, <<n % 7, n \div 7>>) = Grid!FromDays(Grid!Start(c) + n)
<1>1. n % 7 \in 0..6 /\ n \div 7 \in 0..5
  BY SMTT(30)
<1>2. Grid!Start(c) + 7 * (n \div 7) + (n % 7) = Grid!Start(c) + n
  BY <1>1, StartIs, SMTT(30)
<1> QED
  BY <1>1, <1>2 DEF Grid!Cells, Grid!CellDate

LEMMA CellOfShows ==
  ASSUME NEW c \in Calendar, NEW d, Grid!IsDate(d), c.grid = Grid!Date(d.y, d.m, 1)
  PROVE  /\ Grid!CellOf(c, d) \in Grid!Cells
         /\ Grid!CellDate(c, Grid!CellOf(c, d)) = d
         /\ ~Grid!OtherMonth(c, Grid!CellOf(c, d))
<1>1. d.y \in Int /\ d.m \in 0..11 /\ d.d \in 1..31
  BY IsDateMeans
<1>2. Grid!DaysOf(c.grid) = Grid!Days(d.y, d.m, 1)
  BY DEF Grid!DaysOf, Grid!Date
<1>3. Grid!DaysOf(d) \in Int /\ Grid!DaysOf(d) = Grid!DaysOf(c.grid) + d.d - 1
  <2>1. Grid!Days(d.y, d.m, d.d) = Grid!Days(d.y, d.m, 1) + d.d - 1
    <3>1. d.d \in Int
      BY <1>1
    <3> QED
      BY <1>1, <3>1, DaysInMonth
  <2> QED
    BY <1>2, <2>1, FromDaysOf DEF Grid!DaysOf
<1>4. PICK n \in 0..41 : n = Grid!DaysOf(d) - Grid!Start(c)
  BY <1>1, <1>3, StartIs, SMTT(30)
<1>5. Grid!Start(c) + n = Grid!DaysOf(d)
  BY <1>3, <1>4, StartIs, SMTT(30)
<1>6. Grid!CellOf(c, d) = <<n % 7, n \div 7>>
  BY <1>4 DEF Grid!CellOf
<1>7. Grid!CellDate(c, <<n % 7, n \div 7>>) = d /\ <<n % 7, n \div 7>> \in Grid!Cells
  BY <1>5, CellOfNumber, FromDaysOf
<1>8. c.grid.m = d.m
  BY DEF Grid!Date
<1> QED
  BY <1>6, <1>7, <1>8 DEF Grid!OtherMonth

\* The same month of another year is far away.
LEMMA YearsApart ==
  ASSUME NEW y \in Int, NEW z \in Int, y < z, NEW m \in 0..11, NEW d \in 1..31
  PROVE  Grid!Days(z, m, 1) - Grid!Days(y, m, d) >= 300
<1> DEFINE y1 == IF m < 2 THEN y - 1 ELSE y
           z1 == IF m < 2 THEN z - 1 ELSE z
           k == (153 * ((m + 10) % 12) + 2) \div 5
<1>1. y1 \in Int /\ z1 \in Int /\ y1 < z1 /\ k \in Int
  BY SMTT(30)
<1>2. Grid!Days(z, m, 1) = 365 * z1 + (z1 \div 4) - (z1 \div 100) + (z1 \div 400) + k + 1 - 1
  BY Zenon DEF Grid!Days
<1>3. Grid!Days(y, m, d) = 365 * y1 + (y1 \div 4) - (y1 \div 100) + (y1 \div 400) + k + d - 1
  BY Zenon DEF Grid!Days
<1> HIDE DEF y1, z1, k
<1>4. (z1 \div 4) >= (y1 \div 4) /\ (z1 \div 400) >= (y1 \div 400)
      /\ (z1 \div 100) - (y1 \div 100) <= z1 - y1
  BY <1>1, SMTT(30)
<1> QED
  BY <1>1, <1>2, <1>3, <1>4, SMTT(30)

LEMMA SameMonth ==
  ASSUME NEW c \in Calendar, OfMonth(c), NEW p \in Grid!Cells, ~Grid!OtherMonth(c, p)
  PROVE  /\ Grid!CellDate(c, p).y = c.grid.y
         /\ c.grid = Grid!Date(Grid!CellDate(c, p).y, Grid!CellDate(c, p).m, 1)
<1> DEFINE d == Grid!CellDate(c, p)
<1>1. Grid!IsDate(d) /\ Grid!DaysOf(d) = Grid!Start(c) + 7 * p[2] + p[1]
  BY CellDateIs
<1>2. d.m = c.grid.m
  BY DEF Grid!OtherMonth
<1> HIDE DEF d
<1>3. d.y \in Int /\ d.m \in 0..11 /\ d.d \in 1..31 /\ c.grid.y \in Int
  BY <1>1, IsDateMeans, CalendarFields
<1>4. Grid!DaysOf(d) - Grid!DaysOf(c.grid) \in -6..41 /\ Grid!DaysOf(d) \in Int
  BY <1>1, StartIs, CellsAre, FromDaysOf, SMTT(30)
<1>5. Grid!DaysOf(c.grid) = Grid!Days(c.grid.y, d.m, 1) /\ Grid!DaysOf(c.grid) \in Int
  BY <1>2, StartIs DEF OfMonth, Grid!DaysOf, Grid!Date
<1>6. Grid!DaysOf(d) = Grid!Days(d.y, d.m, 1) + d.d - 1 /\ Grid!Days(d.y, d.m, 1) \in Int
      /\ Grid!DaysOf(d) = Grid!Days(d.y, d.m, d.d)
  <2>1. d.d \in Int /\ 1 \in Int
    BY <1>3
  <2>2. Grid!Days(d.y, d.m, d.d) = Grid!Days(d.y, d.m, 1) + d.d - 1 /\ Grid!Days(d.y, d.m, 1) \in Int
    BY <1>3, <2>1, DaysInMonth
  <2> QED
    BY <2>2 DEF Grid!DaysOf
<1>7. ~(d.y < c.grid.y)
  <2>1. SUFFICES ASSUME d.y < c.grid.y PROVE FALSE
    OBVIOUS
  <2>2. Grid!Days(c.grid.y, d.m, 1) - Grid!Days(d.y, d.m, d.d) >= 300
    BY <1>3, <2>1, YearsApart
  <2> QED
    BY <1>4, <1>5, <1>6, <2>2, SMTT(30)
<1>8. ~(c.grid.y < d.y)
  <2>1. SUFFICES ASSUME c.grid.y < d.y PROVE FALSE
    OBVIOUS
  <2>2. 1 \in 1..31
    OBVIOUS
  <2>3. Grid!Days(d.y, d.m, 1) - Grid!Days(c.grid.y, d.m, 1) >= 300
    BY <1>3, <2>1, <2>2, YearsApart
  <2> QED
    BY <1>3, <1>4, <1>5, <1>6, <2>3, SMTT(30)
<1>9. d.y = c.grid.y
  BY <1>3, <1>7, <1>8
<1> QED
  BY <1>2, <1>9 DEF d, OfMonth

\* The six weeks have every day of the month.
LEMMA GridHasMonth ==
  ASSUME NEW c \in Calendar, OfMonth(c)
  PROVE  /\ Grid!WeekDay(Grid!FromDays(Grid!Start(c))) = c.firstDayOfWeek
         /\ Grid!Start(c) <= Grid!DaysOf(c.grid)
         /\ Grid!DaysOf(c.grid) + Grid!GetMonthDays(c.grid.y, c.grid.m) <= Grid!Start(c) + 42
<1>1. Grid!GetMonthDays(c.grid.y, c.grid.m) \in 28..31
  BY CalendarFields, IsDateMeans, MonthDaysRange
<1>2. Grid!DaysOf(Grid!FromDays(Grid!Start(c))) = Grid!Start(c)
  BY StartIs, DayIsADate
<1> QED
  BY <1>1, <1>2, StartIs, SMTT(30) DEF Grid!WeekDay

\* The date and the selected cell keep to the years, the selected cell has the
\* date it shows unless it is disabled, and with no date disabled that is the
\* date of the calendar.
InRange(c) == Grid!KeepsYears => c.date.y \in Years /\ c.elDate.y \in Years
ElShowsItsDate(c) ==
  c.el # Grid!None /\ ~Grid!CellDisabled(c, c.el) => c.elDate = Grid!CellDate(c, c.el)
ElShowsDate(c) ==
  navParams.disabled = {} =>
    /\ c.grid = Grid!Date(c.date.y, c.date.m, 1)
    /\ c.el # Grid!None /\ Grid!CellDate(c, c.el) = c.date /\ c.elDate = c.date

CalendarInv(c) ==
  c \in Calendar /\ OfMonth(c) /\ InRange(c) /\ ElShowsItsDate(c) /\ ElShowsDate(c)

GridInv ==
  /\ navParams \in NavParams /\ dateClicked \in BOOLEAN /\ open \in BOOLEAN
  /\ commands \in 0..navParams.commands
  /\ CalendarInv(cal)
  /\ Grid!IsDate(field) /\ (Grid!KeepsYears => field.y \in Years)

\* What a cell shows depends on the grid alone.
LEMMA SameGrid ==
  ASSUME NEW c, NEW d, c.grid = d.grid, c.firstDayOfWeek = d.firstDayOfWeek, NEW p
  PROVE  /\ Grid!CellDate(c, p) = Grid!CellDate(d, p)
         /\ Grid!OtherMonth(c, p) <=> Grid!OtherMonth(d, p)
         /\ Grid!CellDisabled(c, p) <=> Grid!CellDisabled(d, p)
<1>1. Grid!Start(c) = Grid!Start(d)
  BY DEF Grid!Start
<1>2. Grid!CellDate(c, p) = Grid!CellDate(d, p)
  BY <1>1 DEF Grid!CellDate
<1> QED
  BY <1>2 DEF Grid!OtherMonth, Grid!CellDisabled

\* _init
LEMMA InitialisedIs ==
  ASSUME NEW c \in Calendar, ~navParams.showsOthers => c.elDate.y \in Years,
         NEW fdow \in 0..6, NEW newDate, Grid!IsDate(newDate)
  PROVE  /\ CalendarInv(Grid!Initialised(c, fdow, newDate))
         /\ Grid!Initialised(c, fdow, newDate).date = Grid!InYears(newDate)
         /\ c.el # Grid!None => Grid!Initialised(c, fdow, newDate).el # Grid!None
<1> DEFINE d == Grid!InYears(newDate)
           first == Grid!Date(d.y, d.m, 1)
           c1 == Grid!GridOf(c, fdow, d)
           p == Grid!CellOf(c1, d)
           q == Grid!Selectable(c1, p)
           c2 == Grid!Marked(c1, q)
<1>1. Grid!IsDate(d) /\ d.y \in Years
  BY InYearsIs
<1> HIDE DEF d
<1>2. d.y \in Int /\ d.m \in 0..11 /\ Grid!IsDate(first) /\ first.y = d.y /\ first.m = d.m
  <2>1. d.y \in Int /\ d.m \in 0..11
    BY <1>1, IsDateMeans
  <2>2. 1 \in 1..Grid!GetMonthDays(d.y, d.m)
    BY <2>1, MonthDaysRange
  <2> QED
    BY <2>1, <2>2, DateFields
<1>3. c1 = [c EXCEPT !.date = d, !.grid = first, !.firstDayOfWeek = fdow]
  BY DEF Grid!GridOf
<1> HIDE DEF first
<1>4. /\ c1 \in Calendar /\ c1.date = d /\ c1.grid = first /\ c1.firstDayOfWeek = fdow
      /\ c1.el = c.el /\ c1.elDate = c.elDate
  BY <1>1, <1>2, <1>3, IsDateIn DEF Calendar
<1> HIDE DEF c1
<1>5. OfMonth(c1)
  BY <1>1, <1>2, <1>4 DEF OfMonth, first
<1>6. p \in Grid!Cells /\ Grid!CellDate(c1, p) = d /\ ~Grid!OtherMonth(c1, p)
  BY <1>1, <1>4, CellOfShows DEF first
<1> HIDE DEF p
<1>7. q \in Grid!Cells \cup {Grid!None} /\ (navParams.disabled = {} => q = p)
      /\ (c.el # Grid!None => q # Grid!None)
  BY <1>4, <1>6, CalendarFields, CellsAre DEF Grid!Selectable, Grid!CellDisabled
<1> HIDE DEF q
<1>8. /\ c2 = [c1 EXCEPT !.el = q,
                         !.elDate = IF q = Grid!None \/ Grid!CellDisabled(c1, q) THEN c1.elDate
                                    ELSE Grid!CellDate(c1, q)]
  BY DEF Grid!Marked
<1>9. Grid!Initialised(c, fdow, newDate) = c2
  BY <1>4 DEF Grid!Initialised, Grid!WithSelected, c1, p, q, d
<1>10. (IF q = Grid!None \/ Grid!CellDisabled(c1, q) THEN c1.elDate ELSE Grid!CellDate(c1, q))
         \in {x \in [y : Int, m : 0..11, d : 1..31] : Grid!IsDate(x)}
  BY <1>4, <1>7, CalendarFields, CellDateIs, IsDateIn
<1> HIDE DEF c2
<1>11. /\ c2 \in Calendar /\ c2.date = d /\ c2.grid = first /\ c2.firstDayOfWeek = fdow
       /\ c2.el = q
       /\ c2.elDate = IF q = Grid!None \/ Grid!CellDisabled(c1, q) THEN c1.elDate
                      ELSE Grid!CellDate(c1, q)
  BY <1>4, <1>7, <1>8, <1>10 DEF Calendar
<1>12. \A x : /\ Grid!CellDate(c2, x) = Grid!CellDate(c1, x)
              /\ Grid!CellDisabled(c2, x) <=> Grid!CellDisabled(c1, x)
  BY <1>4, <1>11, SameGrid
<1>13. OfMonth(c2)
  BY <1>4, <1>5, <1>11 DEF OfMonth
<1>14. ElShowsItsDate(c2)
  BY <1>11, <1>12 DEF ElShowsItsDate
<1>15. navParams.disabled = {} =>
         q = p /\ q # Grid!None /\ ~Grid!CellDisabled(c1, q) /\ c2.elDate = d
  BY <1>6, <1>7, <1>11, CellsAre DEF Grid!CellDisabled
<1>16. ElShowsDate(c2)
  BY <1>6, <1>11, <1>12, <1>15 DEF ElShowsDate, first
<1>17. InRange(c2)
  <2>1. CASE navParams.disabled = {}
    BY <1>1, <1>11, <1>15, <2>1 DEF InRange
  <2>2. CASE ~navParams.showsOthers
    <3>1. CASE q = Grid!None \/ Grid!CellDisabled(c1, q)
      BY <1>1, <1>4, <1>11, <2>2, <3>1 DEF InRange
    <3>2. CASE ~(q = Grid!None \/ Grid!CellDisabled(c1, q))
      <4>1. q \in Grid!Cells /\ ~Grid!OtherMonth(c1, q)
        BY <1>7, <2>2, <3>2 DEF Grid!CellDisabled
      <4>2. Grid!CellDate(c1, q).y = c1.grid.y
        BY <1>4, <1>5, <4>1, SameMonth
      <4> QED
        BY <1>1, <1>5, <1>11, <3>2, <4>2 DEF InRange, OfMonth
    <3> QED
      BY <3>1, <3>2
  <2> QED
    BY <2>1, <2>2 DEF InRange, Grid!KeepsYears
<1> QED
  BY <1>7, <1>9, <1>11, <1>13, <1>14, <1>16, <1>17 DEF CalendarInv, d

LEMMA CalendarInvMeans ==
  ASSUME NEW c, CalendarInv(c)
  PROVE  /\ c \in Calendar /\ OfMonth(c)
         /\ Grid!IsDate(c.date) /\ Grid!IsDate(c.grid) /\ Grid!IsDate(c.elDate)
         /\ c.firstDayOfWeek \in 0..6 /\ c.el \in Grid!Cells \cup {Grid!None}
         /\ ~navParams.showsOthers => c.elDate.y \in Years
<1>1. c \in Calendar /\ OfMonth(c) /\ InRange(c)
  BY DEF CalendarInv
<1> QED
  BY <1>1, CalendarFields DEF InRange, Grid!KeepsYears

\* What a click may be on: a cell that is not disabled, or, by Enter, the
\* selected cell with the date it has.
MayClick(c, p, caldate) ==
  \/ p \in Grid!Cells /\ ~Grid!CellDisabled(c, p) /\ caldate = Grid!CellDate(c, p)
  \/ c.el # Grid!None /\ p = c.el /\ caldate = c.elDate

LEMMA PickedIs ==
  ASSUME NEW c, CalendarInv(c), NEW p, NEW caldate, MayClick(c, p, caldate)
  PROVE  LET u == Grid!Picked(c, p, caldate) IN
         /\ u \in Calendar /\ u.date = caldate /\ u.grid = c.grid
         /\ u.firstDayOfWeek = c.firstDayOfWeek
         /\ c.el = Grid!None => u.el = Grid!None /\ u.elDate = c.elDate
         /\ c.el # Grid!None => u.el = p /\ u.elDate = caldate
         /\ Grid!IsDate(caldate) /\ p \in Grid!Cells
<1> DEFINE u == Grid!Picked(c, p, caldate)
<1>1. Grid!IsDate(caldate) /\ p \in Grid!Cells
  BY CalendarInvMeans, CellDateIs DEF MayClick
<1>2. Grid!SetDateOnly(c.date, caldate) = caldate
  BY <1>1, CalendarInvMeans, SetDateOnlyIs
<1>3. u = [c EXCEPT !.date = caldate,
                    !.el = IF c.el = Grid!None THEN c.el ELSE p,
                    !.elDate = IF c.el = Grid!None THEN c.elDate ELSE caldate]
  BY <1>2, CalendarInvMeans DEF Grid!Picked, Calendar
<1> HIDE DEF u
<1>4. /\ u \in Calendar /\ u.date = caldate /\ u.grid = c.grid
      /\ u.firstDayOfWeek = c.firstDayOfWeek
      /\ u.el = IF c.el = Grid!None THEN c.el ELSE p
      /\ u.elDate = IF c.el = Grid!None THEN c.elDate ELSE caldate
  <2>1. c \in Calendar /\ c.el \in Grid!Cells \cup {Grid!None}
    BY CalendarInvMeans
  <2>2. \A d \in {caldate, c.elDate} :
          d \in {x \in [y : Int, m : 0..11, d : 1..31] : Grid!IsDate(x)}
    BY <1>1, CalendarInvMeans, IsDateIn
  <2>3. (IF c.el = Grid!None THEN c.el ELSE p) \in Grid!Cells \cup {Grid!None}
    BY <1>1, <2>1
  <2> QED
    BY <1>3, <2>1, <2>2, <2>3 DEF Calendar
<1> QED
  BY <1>1, <1>4 DEF u

\* A cell that is not disabled, or one that is selected, is of the month if a
\* date is clicked that keeps to the years.
LEMMA ClickedIsOfMonth ==
  ASSUME NEW c, CalendarInv(c), NEW p \in Grid!Cells, Grid!KeepsYears,
         ~Grid!CellDisabled(c, p), Grid!IsClicked(c, p)
  PROVE  /\ ~Grid!OtherMonth(c, p) /\ Grid!CellDate(c, p).y = c.grid.y
         /\ c.grid = Grid!Date(Grid!CellDate(c, p).y, Grid!CellDate(c, p).m, 1)
<1>1. ~Grid!OtherMonth(c, p)
  BY DEF Grid!CellDisabled, Grid!IsClicked
<1> QED
  BY <1>1, CalendarInvMeans, SameMonth

LEMMA PickedKeepsInv ==
  ASSUME NEW c, CalendarInv(c), NEW p, NEW caldate, MayClick(c, p, caldate), Grid!IsClicked(c, p)
  PROVE  CalendarInv(Grid!Picked(c, p, caldate))
<1>1. PICK u : u = Grid!Picked(c, p, caldate)
  OBVIOUS
<1>2. /\ u \in Calendar /\ u.date = caldate /\ u.grid = c.grid
      /\ u.firstDayOfWeek = c.firstDayOfWeek
      /\ c.el = Grid!None => u.el = Grid!None /\ u.elDate = c.elDate
      /\ c.el # Grid!None => u.el = p /\ u.elDate = caldate
      /\ Grid!IsDate(caldate) /\ p \in Grid!Cells
  BY <1>1, PickedIs
<1>3. \A x : /\ Grid!CellDate(u, x) = Grid!CellDate(c, x)
             /\ Grid!CellDisabled(u, x) <=> Grid!CellDisabled(c, x)
  BY <1>2, SameGrid
<1>4. OfMonth(u)
  BY <1>2 DEF CalendarInv, OfMonth
<1>5. CASE ~Grid!CellDisabled(c, p) /\ caldate = Grid!CellDate(c, p)
  <2>1. Grid!KeepsYears => caldate.y = c.grid.y /\ c.grid = Grid!Date(caldate.y, caldate.m, 1)
    BY <1>2, <1>5, ClickedIsOfMonth
  <2>2. InRange(u)
    BY <1>2, <2>1 DEF CalendarInv, InRange, OfMonth
  <2>3. ElShowsItsDate(u)
    BY <1>2, <1>3, <1>5 DEF ElShowsItsDate
  <2>4. ElShowsDate(u)
    <3>1. navParams.disabled = {} => Grid!KeepsYears /\ c.el # Grid!None /\ p # Grid!None
      BY <1>2, CellsAre DEF CalendarInv, ElShowsDate, Grid!KeepsYears
    <3> QED
      BY <1>2, <1>3, <1>5, <2>1, <3>1 DEF ElShowsDate
  <2> QED
    BY <1>1, <1>2, <1>4, <2>2, <2>3, <2>4 DEF CalendarInv
<1>6. CASE c.el # Grid!None /\ p = c.el /\ caldate = c.elDate
  <2>1. u.date = c.elDate /\ u.el = c.el /\ u.elDate = c.elDate
    BY <1>2, <1>6
  <2>2. InRange(u)
    BY <2>1 DEF CalendarInv, InRange
  <2>3. ElShowsItsDate(u)
    BY <1>3, <2>1 DEF CalendarInv, ElShowsItsDate
  <2>4. ElShowsDate(u)
    BY <1>2, <1>3, <2>1 DEF CalendarInv, ElShowsDate
  <2> QED
    BY <1>1, <1>2, <1>4, <2>2, <2>3, <2>4 DEF CalendarInv
<1> QED
  BY <1>5, <1>6 DEF MayClick

\* cellClick on a date
LEMMA CellClickedIs ==
  ASSUME NEW c, CalendarInv(c), NEW p, NEW caldate, MayClick(c, p, caldate)
  PROVE  /\ CalendarInv(Grid!CellClicked(c, p, caldate))
         /\ Grid!CellClicked(c, p, caldate).date =
              IF Grid!IsClicked(c, p) THEN caldate ELSE Grid!InYears(caldate)
<1>1. PICK u : u = Grid!Picked(c, p, caldate)
  OBVIOUS
<1>2. /\ u \in Calendar /\ u.date = caldate /\ u.firstDayOfWeek = c.firstDayOfWeek
      /\ Grid!IsDate(caldate)
  BY <1>1, PickedIs
<1>3. CASE Grid!IsClicked(c, p)
  BY <1>1, <1>2, <1>3, PickedKeepsInv DEF Grid!CellClicked
<1>4. CASE ~Grid!IsClicked(c, p)
  <2>1. Grid!CellClicked(c, p, caldate) = Grid!Initialised(u, u.firstDayOfWeek, u.date)
    BY <1>1, <1>4 DEF Grid!CellClicked, Grid!InitialisedAgain
  <2>2. u.firstDayOfWeek \in 0..6 /\ Grid!IsDate(u.date)
    BY <1>2, CalendarInvMeans
  <2>3. navParams.showsOthers
    BY <1>4 DEF Grid!IsClicked
  <2> QED
    BY <1>2, <1>4, <2>1, <2>2, <2>3, InitialisedIs
<1> QED
  BY <1>3, <1>4

LEMMA SetToIs ==
  ASSUME NEW c, CalendarInv(c), NEW newDate, Grid!IsDate(newDate)
  PROVE  /\ CalendarInv(Grid!SetTo(c, newDate))
         /\ Grid!SetTo(c, newDate).date =
              IF newDate = c.date THEN c.date ELSE Grid!InYears(newDate)
         /\ c.el # Grid!None => Grid!SetTo(c, newDate).el # Grid!None
<1> QED
  BY CalendarInvMeans, InitialisedIs DEF Grid!SetTo

LEMMA MovedIs ==
  ASSUME NEW c, CalendarInv(c), NEW k \in Grid!Keys
  PROVE  /\ CalendarInv(Grid!Moved(c, k))
         /\ Grid!IsDate(Grid!FromDays(Grid!DaysOf(c.date) + Grid!Step(k)))
         /\ Grid!Moved(c, k).date = Grid!InYears(Grid!FromDays(Grid!DaysOf(c.date) + Grid!Step(k)))
         /\ Grid!Step(k) \in {-7, -1, 1, 7}
         /\ c.el # Grid!None => Grid!Moved(c, k).el # Grid!None
<1>1. Grid!Step(k) \in {-7, -1, 1, 7}
  BY DEF Grid!Step, Grid!Keys
<1>2. Grid!DaysOf(c.date) \in Int
  BY CalendarInvMeans, FromDaysOf
<1>3. PICK n \in Int : n = Grid!DaysOf(c.date) + Grid!Step(k) /\ n # Grid!DaysOf(c.date)
  BY <1>1, <1>2
<1>4. Grid!IsDate(Grid!FromDays(n)) /\ Grid!DaysOf(Grid!FromDays(n)) = n
  BY DayIsADate
<1>5. Grid!FromDays(n) # c.date
  BY <1>3, <1>4
<1> QED
  BY <1>1, <1>3, <1>4, <1>5, SetToIs DEF Grid!Moved

LEMMA CreatedIs ==
  ASSUME NEW d, Grid!IsDate(d), ~navParams.showsOthers => d.y \in Years, NEW fdow \in FirstDays
  PROVE  CalendarInv(Grid!Created(d, fdow))
<1> DEFINE c == [date |-> d, grid |-> d, firstDayOfWeek |-> fdow, el |-> Grid!None, elDate |-> d]
<1>1. c \in Calendar /\ c.elDate = d /\ fdow \in 0..6
  BY NavNumbers, IsDateIn DEF Calendar
<1>2. Grid!Created(d, fdow) = Grid!Initialised(c, fdow, d)
  BY DEF Grid!Created
<1> HIDE DEF c
<1> QED
  BY <1>1, <1>2, InitialisedIs

LEMMA NavigatedIs ==
  ASSUME NEW d, Grid!IsDate(d), NEW n \in Grid!Buttons
  PROVE  Grid!IsDate(Grid!Navigated(d, n))
<1>1. d.y \in Int /\ d.m \in 0..11
  BY IsDateMeans
<1>2. \A y \in {d.y - 1, d.y + 1} : y \in Int /\ Grid!IsDate(Grid!SetFullYear(d, y))
  BY <1>1, SetFullYearIs
<1>3. CASE n \in {-2, 2}
  BY <1>2, <1>3 DEF Grid!Navigated
<1>4. CASE n = -1
  <2>1. d.m > 0 => d.m - 1 \in 0..11
    BY <1>1
  <2> QED
    BY <1>2, <1>4, <2>1, ToMonthIs DEF Grid!Navigated
<1>5. CASE n = 1
  <2>1. d.m < 11 => d.m + 1 \in 0..11
    BY <1>1
  <2> QED
    BY <1>2, <1>5, <2>1, ToMonthIs DEF Grid!Navigated
<1>6. CASE n = 0
  BY <1>6, NavNumbers, SetDateOnlyIs DEF Grid!Navigated
<1> QED
  BY <1>3, <1>4, <1>5, <1>6 DEF Grid!Buttons

\* What a command leaves: the field is kept, or is the date of the calendar.
Left ==
  /\ CalendarInv(cal') /\ field' \in {field, cal'.date}
  /\ dateClicked' \in BOOLEAN /\ open' \in BOOLEAN

LEMMA SelectIs ==
  ASSUME NEW clicked, NEW close, Grid!OnSelect(clicked, close)
  PROVE  field' \in {field, cal'.date} /\ open' \in BOOLEAN
<1> QED
  BY DEF Grid!OnSelect

LEMMA ClickedIs == \A c, p : Grid!IsClicked(c, p) \in BOOLEAN
<1> QED
  BY DEF Grid!IsClicked

LEMMA ClickLeaves ==
  ASSUME GridInv, NEW p \in Grid!Cells, Grid!ClickCell(p)
  PROVE  Left
<1>1. MayClick(cal, p, Grid!CellDate(cal, p))
  BY DEF Grid!ClickCell, MayClick
<1>2. CalendarInv(cal')
  BY <1>1, CellClickedIs DEF GridInv, Grid!ClickCell
<1>3. field' \in {field, cal'.date} /\ open' \in BOOLEAN
  BY SelectIs DEF GridInv, Grid!ClickCell
<1> QED
  BY <1>2, <1>3, ClickedIs DEF Grid!ClickCell, Left

LEMMA ButtonLeaves ==
  ASSUME GridInv, NEW n \in Grid!Buttons, NEW byMouse, Grid!Button(n, byMouse)
  PROVE  Left
<1>1. Grid!IsDate(Grid!Navigated(cal.date, n))
  BY CalendarInvMeans, NavigatedIs DEF GridInv
<1>2. dateClicked' = FALSE
  BY DEF Grid!Button
<1>3. CASE UNCHANGED <<cal, field, open>>
  BY <1>2, <1>3 DEF GridInv, Left
<1>4. CASE ~UNCHANGED <<cal, field, open>>
  <2>1. cal' = Grid!SetTo(cal, Grid!Navigated(cal.date, n))
    BY <1>4 DEF Grid!Button
  <2>2. CalendarInv(cal')
    BY <1>1, <2>1, SetToIs DEF GridInv
  <2>3. field' \in {field, cal'.date} /\ open' \in BOOLEAN
    BY SelectIs DEF GridInv, Grid!Button
  <2> QED
    BY <1>2, <2>2, <2>3 DEF Left
<1> QED
  BY <1>3, <1>4

LEMMA ComboLeaves ==
  ASSUME GridInv, NEW newDate, Grid!IsDate(newDate), Grid!Combo(newDate)
  PROVE  Left
<1>1. CalendarInv(cal')
  BY SetToIs DEF GridInv, Grid!Combo
<1> QED
  BY <1>1, SelectIs DEF Grid!Combo, Left

LEMMA FirstDayLeaves ==
  ASSUME GridInv, NEW fdow \in FirstDays, Grid!SetFirstDayOfWeek(fdow)
  PROVE  Left
<1>1. CalendarInv(cal')
  <2>1. fdow \in 0..6 /\ Grid!IsDate(cal.date) /\ cal \in Calendar
        /\ (~navParams.showsOthers => cal.elDate.y \in Years)
    BY NavNumbers, CalendarInvMeans DEF GridInv
  <2> QED
    BY <2>1, InitialisedIs DEF Grid!SetFirstDayOfWeek
<1> QED
  BY <1>1 DEF Grid!SetFirstDayOfWeek, GridInv, Left

LEMMA ArrowToLeaves ==
  ASSUME NEW k \in Grid!Keys, NEW c, CalendarInv(c), NEW p \in Grid!Cells,
         dateClicked \in BOOLEAN, Grid!ArrowTo(k, c, p)
  PROVE  CalendarInv(cal') /\ dateClicked' \in BOOLEAN
<1>1. CASE Grid!CellDisabled(c, p)
  BY <1>1, MovedIs DEF Grid!ArrowTo
<1>2. CASE ~Grid!CellDisabled(c, p)
  <2>1. MayClick(c, p, Grid!CellDate(c, p))
    BY <1>2 DEF MayClick
  <2> QED
    BY <1>2, <2>1, CellClickedIs, ClickedIs DEF Grid!ArrowTo
<1> QED
  BY <1>1, <1>2

\* The cell that an arrow leads to is a step from the selected one.
LEMMA ArrowCellIs ==
  ASSUME NEW c, CalendarInv(c), c = cal, c.el # Grid!None, NEW k \in Grid!Keys
  PROVE  /\ Grid!ArrowCell(k) \in Grid!Cells \cup {Grid!None}
         /\ Grid!ArrowCell(k) # Grid!None =>
              Grid!CellDate(c, Grid!ArrowCell(k))
                = Grid!FromDays(Grid!DaysOf(Grid!CellDate(c, c.el)) + Grid!Step(k))
<1>1. c \in Calendar /\ c.el \in Grid!Cells /\ Grid!Step(k) \in {-7, -1, 1, 7}
  BY CalendarInvMeans, MovedIs
<1>2. c.el[1] \in 0..6 /\ c.el[2] \in 0..5
  BY <1>1, CellsAre
<1>3. PICK n \in Int : n = 7 * c.el[2] + c.el[1] + Grid!Step(k)
  BY <1>1, <1>2
<1>4. Grid!ArrowCell(k) = IF n \in 0..41 THEN <<n % 7, n \div 7>> ELSE Grid!None
  BY <1>3 DEF Grid!ArrowCell
<1>5. CASE n \in 0..41
  <2>1. /\ <<n % 7, n \div 7>> \in Grid!Cells
        /\ Grid!CellDate(c, <<n % 7, n \div 7>>) = Grid!FromDays(Grid!Start(c) + n)
    BY <1>1, <1>5, CellOfNumber
  <2>2. Grid!DaysOf(Grid!CellDate(c, c.el)) = Grid!Start(c) + 7 * c.el[2] + c.el[1]
    BY <1>1, CellDateIs
  <2>3. Grid!Start(c) + n = Grid!DaysOf(Grid!CellDate(c, c.el)) + Grid!Step(k)
    BY <1>1, <1>2, <1>3, <2>2, StartIs
  <2> QED
    BY <1>4, <1>5, <2>1, <2>3
<1>6. CASE n \notin 0..41
  BY <1>4, <1>6
<1> QED
  BY <1>5, <1>6

LEMMA ArrowLeaves ==
  ASSUME GridInv, NEW k \in Grid!Keys, Grid!Arrow(k)
  PROVE  Left
<1>1. CalendarInv(cal) /\ cal.el # Grid!None /\ dateClicked \in BOOLEAN
      /\ field' = field /\ open' = open /\ open \in BOOLEAN
  BY DEF GridInv, Grid!Arrow
<1>2. CASE Grid!ArrowCell(k) = Grid!None
  <2>1. PICK c : c = Grid!Moved(cal, k)
    OBVIOUS
  <2>2. Grid!ArrowTo(k, c, c.el)
    BY <1>2, <2>1 DEF Grid!Arrow
  <2>3. CalendarInv(c) /\ c.el # Grid!None
    BY <1>1, <2>1, MovedIs
  <2>4. c.el \in Grid!Cells
    BY <2>3, CalendarInvMeans
  <2>5. CalendarInv(cal') /\ dateClicked' \in BOOLEAN
    BY <1>1, <2>2, <2>3, <2>4, ArrowToLeaves
  <2> QED
    BY <1>1, <2>5 DEF Left
<1>3. CASE Grid!ArrowCell(k) # Grid!None
  <2>1. Grid!ArrowTo(k, cal, Grid!ArrowCell(k))
    BY <1>3 DEF Grid!Arrow
  <2>2. Grid!ArrowCell(k) \in Grid!Cells
    BY <1>1, <1>3, ArrowCellIs
  <2>3. CalendarInv(cal') /\ dateClicked' \in BOOLEAN
    BY <1>1, <2>1, <2>2, ArrowToLeaves
  <2> QED
    BY <1>1, <2>3 DEF Left
<1> QED
  BY <1>2, <1>3

LEMMA EnterLeaves ==
  ASSUME GridInv, Grid!Enter
  PROVE  Left
<1>1. MayClick(cal, cal.el, cal.elDate)
  BY DEF Grid!Enter, MayClick
<1>2. CalendarInv(cal')
  BY <1>1, CellClickedIs DEF GridInv, Grid!Enter
<1>3. field' \in {field, cal'.date} /\ open' \in BOOLEAN
  BY SelectIs DEF GridInv, Grid!Enter
<1> QED
  BY <1>2, <1>3, ClickedIs DEF Grid!Enter, Left

LEMMA TriggerLeaves ==
  ASSUME GridInv, Grid!Trigger
  PROVE  Left
<1>1. Grid!IsDate(field) /\ (~navParams.showsOthers => field.y \in Years)
  BY DEF GridInv, Grid!KeepsYears
<1>2. CalendarInv(cal')
  BY <1>1, CreatedIs DEF Grid!Trigger
<1> QED
  BY <1>2 DEF Grid!Trigger, Left

LEMMA CommandLeaves ==
  ASSUME GridInv, Grid!Command
  PROVE  Left
<1>1. CASE \E m \in 0..11 : m # cal.date.m /\ Grid!Combo(Grid!SetMonth(cal.date, m))
  BY <1>1, CalendarInvMeans, SetMonthIs, ComboLeaves DEF GridInv
<1>2. CASE \E y \in MinYear..MaxYear : Grid!Combo(Grid!SetFullYear(cal.date, y))
  <2>1. \A y \in MinYear..MaxYear : y \in Int
    BY NavNumbers
  <2> QED
    BY <1>2, <2>1, CalendarInvMeans, SetFullYearIs, ComboLeaves DEF GridInv
<1>3. CASE Grid!Escape
  BY <1>3 DEF Grid!Escape, GridInv, Left
<1> QED
  BY <1>1, <1>2, <1>3, ClickLeaves, ButtonLeaves, FirstDayLeaves, ArrowLeaves, EnterLeaves
     DEF Grid!Command

LEMMA LeftIsInv ==
  ASSUME GridInv, Left, navParams' = navParams, commands' \in 0..navParams.commands
  PROVE  GridInv'
<1>1. CalendarInv(cal)'
  BY DEF Left, CalendarInv, InRange, ElShowsItsDate, ElShowsDate, Grid!KeepsYears,
         Grid!CellDisabled, Grid!OtherMonth
<1>2. Grid!IsDate(field') /\ (Grid!KeepsYears => field'.y \in Years)
  <2>1. Grid!IsDate(cal'.date) /\ (Grid!KeepsYears => cal'.date.y \in Years)
    BY CalendarInvMeans DEF Left, CalendarInv, InRange
  <2> QED
    BY <2>1 DEF Left, GridInv
<1> QED
  BY <1>1, <1>2 DEF Left, GridInv, Grid!KeepsYears

LEMMA GridNext ==
  ASSUME GridInv, Grid!Next
  PROVE  GridInv'
<1>1. navParams' = navParams
  BY DEF Grid!Next
<1>2. CASE Grid!Command /\ commands < navParams.commands /\ commands' = commands + 1
  <2>1. navParams.commands \in Nat
    BY WidgetsAssumption DEF WidgetsAssumption, Grid!CalendarNavAssumption, GridInv
  <2>2. commands' \in 0..navParams.commands
    BY <1>2, <2>1 DEF GridInv
  <2> QED
    BY <1>1, <1>2, <2>2, CommandLeaves, LeftIsInv
<1>3. CASE Grid!Trigger /\ UNCHANGED commands
  BY <1>1, <1>3, TriggerLeaves, LeftIsInv DEF GridInv
<1> QED
  BY <1>2, <1>3 DEF Grid!Next

LEMMA GridRests ==
  ASSUME GridInv, UNCHANGED gridVars
  PROVE  GridInv'
<1>1. Left /\ navParams' = navParams /\ commands' \in 0..navParams.commands
  BY DEF gridVars, GridInv, Left
<1> QED
  BY <1>1, LeftIsInv

LEMMA GridInit == Grid!Init => GridInv
<1> SUFFICES ASSUME Grid!Init PROVE GridInv
  OBVIOUS
<1>1. Grid!IsDate(field) /\ field.y \in Years
  BY NavNumbers DEF Grid!Init
<1>2. CalendarInv(cal)
  BY <1>1, CreatedIs DEF Grid!Init
<1>3. navParams.commands \in Nat /\ navParams \in NavParams
  BY WidgetsAssumption DEF WidgetsAssumption, Grid!CalendarNavAssumption, Grid!Init
<1>4. commands \in 0..navParams.commands
  BY <1>3 DEF Grid!Init
<1> QED
  BY <1>1, <1>2, <1>3, <1>4 DEF GridInv, Grid!Init

LEMMA GridInvMeans ==
  ASSUME GridInv
  PROVE  Grid!TypeOK /\ Grid!WithinYears /\ Grid!CellShowsDate /\ Grid!GridIsComplete
<1>1. cal \in Calendar /\ OfMonth(cal)
  BY CalendarInvMeans DEF GridInv
<1>2. Grid!TypeOK
  BY <1>1, CalendarFields DEF GridInv, Grid!TypeOK
<1>3. Grid!WithinYears
  BY DEF GridInv, CalendarInv, InRange, Years, Grid!WithinYears
<1>4. Grid!CellShowsDate
  BY DEF GridInv, CalendarInv, ElShowsDate, Grid!CellShowsDate
<1>5. Grid!GridIsComplete
  BY <1>1, GridHasMonth DEF Grid!GridIsComplete
<1> QED
  BY <1>2, <1>3, <1>4, <1>5

-----------------------------------------------------------------------------
(* What a command may do *)

LEMMA ArrowMoves == GridInv => Grid!ArrowMovesByStep
<1> SUFFICES ASSUME GridInv, NEW k \in Grid!Keys, navParams.disabled = {}, Grid!Arrow(k)
    PROVE  LET days == [left |-> -1, right |-> 1, up |-> -7, down |-> 7]
               to == Grid!FromDays(Grid!DaysOf(cal.date) + days[k])
           IN to.y \in MinYear..MaxYear => cal'.date = to
  BY DEF Grid!ArrowMovesByStep
<1> DEFINE to == Grid!FromDays(Grid!DaysOf(cal.date) + Grid!Step(k))
<1>1. [left |-> -1, right |-> 1, up |-> -7, down |-> 7][k] = Grid!Step(k)
  BY DEF Grid!Step, Grid!Keys
<1>2. SUFFICES ASSUME to.y \in Years PROVE cal'.date = to
  BY <1>1 DEF Years
<1>3. CalendarInv(cal) /\ cal.el # Grid!None /\ Grid!CellDate(cal, cal.el) = cal.date
      /\ Grid!KeepsYears
  BY DEF GridInv, CalendarInv, ElShowsDate, Grid!KeepsYears
<1>4. Grid!IsDate(to) /\ Grid!InYears(to) = to
  <2>1. Grid!IsDate(to)
    BY <1>3, MovedIs
  <2> HIDE DEF to
  <2> QED
    BY <1>2, <2>1, InYearsIs
<1>5. Grid!Moved(cal, k).date = to /\ CalendarInv(Grid!Moved(cal, k))
      /\ Grid!Moved(cal, k).el # Grid!None
  BY <1>3, <1>4, MovedIs
<1>6. CASE Grid!ArrowCell(k) = Grid!None
  <2>1. PICK c : c = Grid!Moved(cal, k)
    OBVIOUS
  <2>2. Grid!ArrowTo(k, c, c.el)
    BY <1>6, <2>1 DEF Grid!Arrow
  <2>3. /\ CalendarInv(c) /\ c.date = to /\ c.el # Grid!None /\ c.elDate = to
        /\ Grid!CellDate(c, c.el) = to /\ c.grid = Grid!Date(to.y, to.m, 1)
    BY <1>5, <2>1 DEF CalendarInv, ElShowsDate
  <2> HIDE DEF to
  <2>4. ~Grid!OtherMonth(c, c.el)
    BY <2>3 DEF Grid!OtherMonth, Grid!Date
  <2>5. ~Grid!CellDisabled(c, c.el) /\ Grid!IsClicked(c, c.el)
    BY <2>4 DEF Grid!CellDisabled, Grid!IsClicked
  <2>6. cal' = Grid!CellClicked(c, c.el, to)
    BY <2>2, <2>3, <2>5 DEF Grid!ArrowTo
  <2>7. MayClick(c, c.el, to)
    BY <2>3 DEF MayClick
  <2> QED
    BY <2>3, <2>5, <2>6, <2>7, CellClickedIs
<1>7. CASE Grid!ArrowCell(k) # Grid!None
  <2>1. PICK p : p = Grid!ArrowCell(k)
    OBVIOUS
  <2>2. p \in Grid!Cells /\ Grid!CellDate(cal, p) = to
    BY <1>3, <1>7, <2>1, ArrowCellIs
  <2>3. Grid!ArrowTo(k, cal, p)
    BY <1>7, <2>1 DEF Grid!Arrow
  <2> HIDE DEF to
  <2>4. CASE Grid!CellDisabled(cal, p)
    BY <1>5, <2>3, <2>4 DEF Grid!ArrowTo
  <2>5. CASE ~Grid!CellDisabled(cal, p)
    <3>1. cal' = Grid!CellClicked(cal, p, to) /\ MayClick(cal, p, to)
      BY <2>2, <2>3, <2>5 DEF Grid!ArrowTo, MayClick
    <3> QED
      BY <1>3, <1>4, <3>1, CellClickedIs
  <2> QED
    BY <2>4, <2>5
<1> QED
  BY <1>6, <1>7

\* The months before and after
LEMMA NextMonthIs ==
  ASSUME NEW d, Grid!IsDate(d), d.y \in Years, NEW n \in {-1, 1},
         NEW new, new = Grid!Navigated(d, n), new # d
  PROVE  /\ Grid!IsDate(new) /\ new.y \in Years
         /\ 12 * new.y + new.m = 12 * d.y + d.m + n
         /\ new.d \in {d.d, Grid!GetMonthDays(new.y, new.m)}
<1>1. d.y \in Int /\ d.m \in 0..11 /\ MinYear \in Int /\ MaxYear \in Int
  BY IsDateMeans, NavNumbers
<1>2. ASSUME NEW m \in 0..11, new = Grid!ToMonth(d, m)
      PROVE  /\ Grid!IsDate(new) /\ new.y = d.y /\ new.m = m
             /\ new.d \in {d.d, Grid!GetMonthDays(new.y, new.m)}
  BY <1>2, ToMonthIs
<1>3. ASSUME NEW y \in Int, NEW m \in {0, 11}, d.m \in {0, 11},
             new = Grid!ToMonth(Grid!SetFullYear(d, y), m)
      PROVE  /\ Grid!IsDate(new) /\ new.y = y /\ new.m = m
             /\ new.d \in {d.d, Grid!GetMonthDays(new.y, new.m)}
  <2>1. PICK e : e = Grid!SetFullYear(d, y)
    OBVIOUS
  <2>2. ~(d.d > Grid!GetMonthDays(y, d.m))
    <3>1. d.d \in 1..31 /\ \A l \in {0, 11} : Grid!GetMonthDays(y, l) = 31
      BY IsDateMeans, MonthDays
    <3> QED
      BY <1>3, <3>1
  <2>3. Grid!IsDate(e) /\ e = Grid!Date(y, d.m, d.d)
    BY <2>1, <2>2, SetFullYearIs
  <2>4. e.y = y /\ e.d = d.d
    BY <2>3 DEF Grid!Date
  <2>5. m \in 0..11
    OBVIOUS
  <2>6. new = Grid!ToMonth(e, m)
    BY <1>3, <2>1
  <2> QED
    BY <2>3, <2>4, <2>5, <2>6, ToMonthIs
<1>4. CASE n = -1
  <2>1. CASE d.m > 0
    <3>1. new = Grid!ToMonth(d, d.m - 1) /\ d.m - 1 \in 0..11
      BY <1>1, <1>4, <2>1 DEF Grid!Navigated
    <3> QED
      BY <1>1, <1>2, <1>4, <3>1
  <2>2. CASE ~(d.m > 0)
    <3>1. /\ d.m = 0 /\ d.y > MinYear /\ d.y - 1 \in Int
          /\ new = Grid!ToMonth(Grid!SetFullYear(d, d.y - 1), 11)
      BY <1>1, <1>4, <2>2 DEF Grid!Navigated
    <3>2. /\ Grid!IsDate(new) /\ new.y = d.y - 1 /\ new.m = 11
          /\ new.d \in {d.d, Grid!GetMonthDays(new.y, new.m)}
      BY <1>3, <3>1
    <3> QED
      BY <1>1, <1>4, <3>1, <3>2 DEF Years
  <2> QED
    BY <2>1, <2>2
<1>5. CASE n = 1
  <2>1. CASE d.m < 11
    <3>1. new = Grid!ToMonth(d, d.m + 1) /\ d.m + 1 \in 0..11
      BY <1>1, <1>5, <2>1 DEF Grid!Navigated
    <3> QED
      BY <1>1, <1>2, <1>5, <3>1
  <2>2. CASE ~(d.m < 11)
    <3>1. /\ d.m = 11 /\ d.y < MaxYear /\ d.y + 1 \in Int
          /\ new = Grid!ToMonth(Grid!SetFullYear(d, d.y + 1), 0)
      BY <1>1, <1>5, <2>2 DEF Grid!Navigated
    <3>2. /\ Grid!IsDate(new) /\ new.y = d.y + 1 /\ new.m = 0
          /\ new.d \in {d.d, Grid!GetMonthDays(new.y, new.m)}
      BY <1>3, <3>1
    <3> QED
      BY <1>1, <1>5, <3>1, <3>2 DEF Years
  <2> QED
    BY <2>1, <2>2
<1> QED
  BY <1>4, <1>5

LEMMA MonthMoves == GridInv => Grid!MonthMovesByOne
<1> SUFFICES ASSUME GridInv, NEW n \in {-1, 1}, Grid!KeepsYears, Grid!Button(n, TRUE),
                    cal'.date # cal.date
    PROVE  /\ 12 * cal'.date.y + cal'.date.m = 12 * cal.date.y + cal.date.m + n
           /\ cal'.date.d \in {cal.date.d, Grid!GetMonthDays(cal'.date.y, cal'.date.m)}
  BY DEF Grid!MonthMovesByOne
<1>1. PICK new : new = Grid!Navigated(cal.date, n)
  OBVIOUS
<1>2. CalendarInv(cal) /\ Grid!IsDate(cal.date) /\ cal.date.y \in Years
  BY CalendarInvMeans DEF GridInv, CalendarInv, InRange
<1>3. cal' = Grid!SetTo(cal, new) /\ new # cal.date
  <2>1. cal' = Grid!SetTo(cal, new)
    BY <1>1 DEF Grid!Button
  <2> QED
    BY <2>1 DEF Grid!SetTo
<1>4. /\ Grid!IsDate(new) /\ new.y \in Years
      /\ 12 * new.y + new.m = 12 * cal.date.y + cal.date.m + n
      /\ new.d \in {cal.date.d, Grid!GetMonthDays(new.y, new.m)}
  BY <1>1, <1>2, <1>3, NextMonthIs
<1>5. cal'.date = new
  BY <1>2, <1>3, <1>4, SetToIs, InYearsIs
<1> QED
  BY <1>4, <1>5

LEMMA PicksAreKept ==
  ASSUME GridInv, Grid!Next \/ UNCHANGED gridVars
  PROVE  Grid!PickIsKept
<1> SUFFICES ASSUME navParams.disabled = {}, open, ~open', dateClicked', ~Grid!Escape
    PROVE  field' = cal'.date
  BY DEF Grid!PickIsKept
<1>1. Grid!Command
  BY DEF Grid!Next, Grid!Trigger, gridVars
<1>2. ASSUME NEW p \in Grid!Cells, Grid!ClickCell(p) PROVE field' = cal'.date
  BY <1>2 DEF Grid!ClickCell, Grid!OnSelect
<1>3. CASE Grid!Enter
  <2>1. /\ cal.grid = Grid!Date(cal.date.y, cal.date.m, 1)
        /\ Grid!CellDate(cal, cal.el) = cal.date
    BY DEF GridInv, CalendarInv, ElShowsDate
  <2>2. ~Grid!OtherMonth(cal, cal.el)
    BY <2>1 DEF Grid!OtherMonth, Grid!Date
  <2>3. ~Grid!CellDisabled(cal, cal.el)
    BY <2>2 DEF Grid!CellDisabled
  <2> QED
    BY <1>3, <2>3 DEF Grid!Enter, Grid!OnSelect
<1>4. \A n \in Grid!Buttons, m \in BOOLEAN : ~Grid!Button(n, m)
  BY DEF Grid!Button
<1>5. \A d : ~Grid!Combo(d)
  BY DEF Grid!Combo
<1>6. \A f : ~Grid!SetFirstDayOfWeek(f)
  BY DEF Grid!SetFirstDayOfWeek
<1>7. \A k \in Grid!Keys : ~Grid!Arrow(k)
  BY DEF Grid!Arrow
<1> QED
  BY <1>1, <1>2, <1>3, <1>4, <1>5, <1>6, <1>7 DEF Grid!Command

LEMMA NoDisabledIsPicked ==
  ASSUME GridInv, Grid!Next \/ UNCHANGED gridVars
  PROVE  Grid!NoCellIsDisabled
<1> SUFFICES ASSUME field' \in navParams.disabled, field' # field, dateClicked' PROVE FALSE
  BY DEF Grid!NoCellIsDisabled
<1>1. navParams' = navParams /\ Grid!Command
  BY DEF Grid!Next, Grid!Trigger, gridVars
<1>2. ASSUME NEW p \in Grid!Cells, Grid!ClickCell(p) PROVE FALSE
  <2>1. MayClick(cal, p, Grid!CellDate(cal, p)) /\ CalendarInv(cal)
    BY <1>2 DEF Grid!ClickCell, MayClick, GridInv
  <2>2. Grid!IsClicked(cal, p) /\ field' = cal'.date
    BY <1>2 DEF Grid!ClickCell, Grid!OnSelect
  <2>3. cal'.date = Grid!CellDate(cal, p)
    BY <1>2, <2>1, <2>2, CellClickedIs DEF Grid!ClickCell
  <2> QED
    BY <1>1, <1>2, <2>2, <2>3 DEF Grid!ClickCell, Grid!CellDisabled
<1>3. CASE Grid!Enter
  <2>1. MayClick(cal, cal.el, cal.elDate) /\ CalendarInv(cal)
    BY <1>3 DEF Grid!Enter, MayClick, GridInv
  <2>2. Grid!IsClicked(cal, cal.el) /\ field' = cal'.date /\ ~Grid!CellDisabled(cal, cal.el)
    BY <1>3 DEF Grid!Enter, Grid!OnSelect
  <2>3. cal'.date = cal.elDate /\ cal.elDate = Grid!CellDate(cal, cal.el)
    BY <1>3, <2>1, <2>2, CellClickedIs DEF Grid!Enter, CalendarInv, ElShowsItsDate
  <2> QED
    BY <1>1, <2>2, <2>3 DEF Grid!CellDisabled
<1>4. \A n \in Grid!Buttons, m \in BOOLEAN : ~Grid!Button(n, m)
  BY DEF Grid!Button
<1>5. \A d : ~Grid!Combo(d)
  BY DEF Grid!Combo
<1>6. (\A f : ~Grid!SetFirstDayOfWeek(f)) /\ ~Grid!Escape
  BY DEF Grid!SetFirstDayOfWeek, Grid!Escape
<1>7. \A k \in Grid!Keys : ~Grid!Arrow(k)
  BY DEF Grid!Arrow
<1> QED
  BY <1>1, <1>2, <1>3, <1>4, <1>5, <1>6, <1>7 DEF Grid!Command

-----------------------------------------------------------------------------
(* The widgets of a page *)

\* Each of them keeps its own invariant; the reader of dates is not among them.
WidgetsInv == TipsInv /\ GridInv /\ PopupInv

LEMMA WidgetsStart == AllInit => WidgetsInv
<1> SUFFICES ASSUME AllInit PROVE WidgetsInv
  OBVIOUS
<1>1. Tips!Init /\ Grid!Init /\ Popup!Init
  BY DEF AllInit
<1> QED
  BY <1>1, TipsInit, GridInit, PopupInit DEF WidgetsInv

\* A step moves one of them, and the others rest.
LEMMA EachMoves ==
  ASSUME [AllNext]_allVars
  PROVE  /\ [Tips!Next]_tipVars
         /\ Grid!Next \/ UNCHANGED gridVars
         /\ Popup!Next \/ UNCHANGED popupVars
<1>1. CASE UNCHANGED allVars
  BY <1>1 DEF allVars
<1>2. CASE AllNext
  BY <1>2 DEF AllNext, Moves
<1> QED
  BY <1>1, <1>2

LEMMA WidgetsKept ==
  ASSUME WidgetsInv, [AllNext]_allVars
  PROVE  WidgetsInv'
<1>1. TipsInv'
  BY EachMoves, TipsNext DEF WidgetsInv
<1>2. GridInv'
  BY EachMoves, GridNext, GridRests DEF WidgetsInv
<1>3. PopupInv'
  BY EachMoves, PopupNext, PopupRests DEF WidgetsInv
<1> QED
  BY <1>1, <1>2, <1>3 DEF WidgetsInv

LEMMA WidgetsInvMeans == WidgetsInv => WidgetsSound
<1> SUFFICES ASSUME WidgetsInv PROVE WidgetsSound
  OBVIOUS
<1>1. TipsInv /\ GridInv /\ PopupInv
  BY DEF WidgetsInv
<1> QED
  BY <1>1, TipsInvMeans, OnPageHolds, BesideMouseHolds, GridInvMeans, PopupInvMeans DEF WidgetsSound

LEMMA CommandsAreSteady ==
  ASSUME WidgetsInv, [AllNext]_allVars
  PROVE  Grid!ArrowMovesByStep /\ Grid!MonthMovesByOne /\ Grid!PickIsKept /\ Grid!NoCellIsDisabled
<1>1. GridInv
  BY DEF WidgetsInv
<1> QED
  BY <1>1, EachMoves, ArrowMoves, MonthMoves, PicksAreKept, NoDisabledIsPicked

\* The inductive invariant of the tips, of the calendar's grid and of the
\* pop-up calendars.
THEOREM WidgetsInvariant == AllSpec => []WidgetsInv
<1>1. WidgetsInv /\ [AllNext]_allVars => WidgetsInv'
  BY WidgetsKept
<1> QED
  BY <1>1, WidgetsStart, PTL DEF AllSpec

\* domTT.js and calendar.js: timers belong to the present showing of a tip, a
\* tip is on the page and beside the mouse, the grid shows the calendar's month
\* and its date within its years, and what is pressed, highlighted and covered
\* by a calendar is let go with it.
THEOREM WidgetsAreSound == AllSpec => []WidgetsSound
<1> QED
  BY WidgetsInvariant, WidgetsInvMeans, PTL

\* calendar.js: an arrow moves the date by a day or a week over every border, a
\* button by a month, what is picked is kept, and no click picks a disabled date.
THEOREM WidgetsAreSteady == AllSpec => WidgetsMove
<1>1. WidgetsInv /\ [AllNext]_allVars
        => [/\ Grid!ArrowMovesByStep
            /\ Grid!MonthMovesByOne
            /\ Grid!PickIsKept
            /\ Grid!NoCellIsDisabled]_allVars
  BY CommandsAreSteady
<1> QED
  BY <1>1, WidgetsInvariant, PTL DEF AllSpec, WidgetsMove
=============================================================================

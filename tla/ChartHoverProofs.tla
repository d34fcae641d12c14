-------------------------- MODULE ChartHoverProofs ---------------------------
(***************************************************************************)
(* Theorems about ChartHover, for any series, any finite set of columns    *)
(* and any number of steps of a gliding tooltip.                           *)
(*                                                                         *)
(* The handlers are operators on the state of the hovering, so the proof   *)
(* has a lemma for each: it keeps the state Sound, whatever it is called   *)
(* after.  An action is then sound because the handlers it calls are.      *)
(***************************************************************************)
EXTENDS ChartHover, FiniteSetTheorems, WellFoundedInduction, TLAPS

(* The state u of the hovering agrees with itself, with the set `there` of *)
(* the points that exist and with the set `shown` of the visible series.   *)
Sound(u, there, shown) ==
  /\ u \in HoverStates
  /\ u.hoverSeries \in shown \cup {None}
  /\ u.hot = {u.hoverPoint} \ {None}
  /\ ~u.isHidden => u.label = "shown"
  /\ u.hoverPoint # None =>
       /\ u.hoverPoint \in there
       /\ SeriesOf(u.hoverPoint) = u.hoverSeries
       /\ ~u.isHidden /\ ~u.hideTimer

(* `item` is the series whose legend item the mouse is on.                 *)
LitBy(u, item) == u.lit \subseteq {u.hoverSeries, item}

-----------------------------------------------------------------------------
(* Tooltip                                                                 *)

LEMMA MoveKeeps ==
  ASSUME NEW u \in HoverStates, NEW place \in Places, NEW steps \in 0 .. Glide
  PROVE  LET m == Move(u, place, steps)
         IN /\ m \in HoverStates
            /\ m.hoverSeries = u.hoverSeries /\ m.hoverPoint = u.hoverPoint
            /\ m.hot = u.hot /\ m.lit = u.lit /\ m.following = u.following
            /\ m.isHidden = u.isHidden /\ m.hideTimer = u.hideTimer
            /\ m.label = u.label
<1> DEFINE l == IF u.isHidden THEN 0
                ELSE IF u.now = place THEN (IF u.left = 0 THEN 0 ELSE u.left - 1)
                ELSE steps
           t == IF l > 0 THEN place ELSE u.tooltipTimeout
<1>1. l \in 0 .. Glide
  BY HoverAssumption DEF HoverStates
<1>2. t \in Places
  BY DEF HoverStates
<1>3. Move(u, place, steps) =
        [u EXCEPT !.now = place, !.left = l, !.tooltipTimeout = t]
  BY DEF Move
<1> HIDE DEF l, t
<1> QED
  BY <1>1, <1>2, <1>3 DEF HoverStates

LEMMA LeavesStepIsBoolean ==
  ASSUME NEW u, NEW place PROVE LeavesStep(u, place) \in BOOLEAN
BY SMT DEF LeavesStep

LEMMA RefreshKeeps ==
  ASSUME NEW u \in HoverStates, NEW p \in Points, NEW steps \in 0 .. Glide
  PROVE  LET v == Refresh(u, p, steps)
         IN /\ v \in HoverStates
            /\ v.hoverSeries = u.hoverSeries /\ v.hoverPoint = u.hoverPoint
            /\ v.hot = u.hot /\ v.lit = u.lit /\ v.following = u.following
            /\ ~v.isHidden /\ ~v.hideTimer
            /\ v.label = IF u.isHidden THEN "shown" ELSE u.label
<1> DEFINE w == [u EXCEPT !.hideTimer = FALSE]
           m == Move(w, p, steps)
<1>1. w \in HoverStates /\ p \in Places
  BY DEF HoverStates, Places
<1> HIDE DEF w
<1>2. m \in HoverStates
  BY <1>1, MoveKeeps
<1>3. Refresh(u, p, steps) =
        [m EXCEPT !.isHidden = FALSE,
                  !.label = IF u.isHidden THEN "shown" ELSE @,
                  !.leftover = LeavesStep(m, p)]
  BY DEF Refresh, w
<1>6. /\ m.hoverSeries = u.hoverSeries /\ m.hoverPoint = u.hoverPoint
      /\ m.hot = u.hot /\ m.lit = u.lit /\ m.following = u.following
      /\ ~m.hideTimer /\ m.label = u.label
  <2>1. /\ m.hoverSeries = w.hoverSeries /\ m.hoverPoint = w.hoverPoint
        /\ m.hot = w.hot /\ m.lit = w.lit /\ m.following = w.following
        /\ m.hideTimer = w.hideTimer /\ m.label = w.label
    BY <1>1, MoveKeeps
  <2> QED
    BY <2>1 DEF HoverStates, w
<1> HIDE DEF m
<1> DEFINE leaves == LeavesStep(m, p)
<1>7. leaves \in BOOLEAN
  BY LeavesStepIsBoolean
<1> HIDE DEF leaves
<1>8. Refresh(u, p, steps) =
        [m EXCEPT !.isHidden = FALSE,
                  !.label = IF u.isHidden THEN "shown" ELSE @,
                  !.leftover = leaves]
  BY <1>3 DEF leaves
<1>9. Refresh(u, p, steps) \in HoverStates
  BY <1>2, <1>7, <1>8 DEF HoverStates
<1> QED
  BY <1>2, <1>6, <1>8, <1>9 DEF HoverStates

-----------------------------------------------------------------------------
(* Hovered point and series                                                *)

LEMMA HideSound ==
  ASSUME NEW there, NEW shown, NEW u, Sound(u, there, shown),
         u.hoverPoint = None
  PROVE  Sound(Hide(u), there, shown) /\ Hide(u).hoverPoint = None
BY DEF Hide, Sound, HoverStates

LEMMA PointOutSound ==
  ASSUME NEW there, NEW shown, NEW u, Sound(u, there, shown)
  PROVE  /\ Sound(PointOut(u), there \ {u.hoverPoint}, shown)
         /\ Sound(PointOut(u), there, shown)
         /\ PointOut(u).hoverPoint = None
         /\ PointOut(u).hoverSeries = u.hoverSeries
         /\ PointOut(u).lit = u.lit
<1>1. PointOut(u) \in HoverStates
  BY DEF PointOut, Sound, HoverStates
<1> QED
  BY <1>1 DEF PointOut, Sound, HoverStates

LEMMA PointOverSound ==
  ASSUME NEW there \in SUBSET Points, NEW shown,
         NEW u, Sound(u, there, shown),
         NEW p \in there, SeriesOf(p) = u.hoverSeries, NEW steps \in 0 .. Glide
  PROVE  LET v == PointOver(u, p, steps)
         IN /\ Sound(v, there, shown)
            /\ v.hoverSeries = u.hoverSeries /\ v.lit = u.lit
            /\ v.hoverPoint = p
<1> DEFINE left == IF u.hoverPoint \notin {None, p} THEN PointOut(u) ELSE u
           r == Refresh(left, p, steps)
<1>0. p \in Points /\ p # None
  BY HoverAssumption DEF Points
<1>1. /\ Sound(left, there, shown) /\ left.hoverPoint \in {None, p}
      /\ left.hoverSeries = u.hoverSeries /\ left.lit = u.lit
  BY PointOutSound
<1> HIDE DEF left
<1>2. /\ r \in HoverStates
      /\ r.hoverSeries = left.hoverSeries /\ r.hoverPoint = left.hoverPoint
      /\ r.hot = left.hot /\ r.lit = left.lit
      /\ ~r.isHidden /\ ~r.hideTimer
      /\ r.label = IF left.isHidden THEN "shown" ELSE left.label
  BY <1>0, <1>1, RefreshKeeps DEF Sound
<1>3. PointOver(u, p, steps) = [r EXCEPT !.hot = @ \cup {p}, !.hoverPoint = p]
  BY DEF PointOver, left
<1> HIDE DEF r
<1>4. PointOver(u, p, steps) \in HoverStates
  <2>1. r.hot \cup {p} \in SUBSET Points
    BY <1>0, <1>2 DEF HoverStates
  <2> QED
    BY <1>0, <1>2, <1>3, <2>1 DEF HoverStates
<1> QED
  BY <1>0, <1>1, <1>2, <1>3, <1>4 DEF Sound, HoverStates

LEMMA SeriesOutSound ==
  ASSUME NEW there, NEW shown, NEW u, Sound(u, there, shown)
  PROVE  LET v == SeriesOut(u)
         IN /\ Sound(v, there, shown)
            /\ v.hoverSeries = None /\ v.hoverPoint = None
            /\ v.lit = u.lit \ {u.hoverSeries}
<1> DEFINE out == IF u.hoverPoint # None THEN PointOut(u) ELSE u
           hiding == IF u.hoverSeries \in Sticky THEN out ELSE Hide(out)
<1>1. /\ Sound(out, there, shown) /\ out.hoverPoint = None
      /\ out.hoverSeries = u.hoverSeries /\ out.lit = u.lit
  BY PointOutSound
<1> HIDE DEF out
<1>2. Hide(out).hoverSeries = out.hoverSeries /\ Hide(out).lit = out.lit
  BY <1>1 DEF Hide, Sound, HoverStates
<1>3. /\ Sound(hiding, there, shown) /\ hiding.hoverPoint = None
      /\ hiding.hoverSeries = u.hoverSeries /\ hiding.lit = u.lit
  BY <1>1, <1>2, HideSound
<1>4. SeriesOut(u) =
        [hiding EXCEPT !.lit = @ \ {u.hoverSeries}, !.hoverSeries = None]
  BY DEF SeriesOut, hiding, out
<1> HIDE DEF hiding
<1> DEFINE v == SeriesOut(u)
<1>5. hiding \in HoverStates /\ hiding.lit \ {u.hoverSeries} \in SUBSET Series
  BY <1>3 DEF Sound, HoverStates
<1>6. /\ v \in HoverStates
      /\ v.lit = hiding.lit \ {u.hoverSeries} /\ v.hoverSeries = None
      /\ v.hoverPoint = hiding.hoverPoint /\ v.hot = hiding.hot
      /\ v.isHidden = hiding.isHidden /\ v.label = hiding.label
  BY <1>4, <1>5 DEF HoverStates
<1> HIDE DEF v
<1>7. Sound(v, there, shown)
  BY <1>3, <1>6 DEF Sound
<1> QED
  BY <1>3, <1>6, <1>7 DEF v

LEMMA SeriesOverSound ==
  ASSUME NEW there, NEW shown \in SUBSET Series, NEW u, Sound(u, there, shown),
         NEW s \in shown
  PROVE  LET v == SeriesOver(u, s)
         IN /\ Sound(v, there, shown)
            /\ \A item : LitBy(u, item) => LitBy(v, item)
<1> DEFINE left == IF u.hoverSeries \notin {None, s} THEN SeriesOut(u) ELSE u
<1>1. /\ Sound(left, there, shown)
      /\ left.hoverSeries \in {None, s}
      /\ left.hoverSeries = None => left.hoverPoint = None
      /\ left.lit \subseteq u.lit
      /\ left.lit \subseteq (u.lit \ {u.hoverSeries}) \cup {s}
  <2>1. CASE u.hoverSeries \notin {None, s}
    <3>1. left = SeriesOut(u)
      BY <2>1
    <3> HIDE DEF left
    <3> QED
      BY <3>1, SeriesOutSound
  <2>2. CASE u.hoverSeries = s
    BY <2>2, HoverAssumption DEF Sound
  <2>3. CASE u.hoverSeries = None
    <3>1. None \notin u.lit
      BY HoverAssumption DEF Sound, HoverStates
    <3>2. u.hoverPoint = None
      BY <2>3, HoverAssumption DEF Sound, HoverStates, SeriesOf, Points
    <3> QED
      BY <2>3, <3>1, <3>2
  <2> QED
    BY <2>1, <2>2, <2>3
<1>2. SeriesOver(u, s) = [left EXCEPT !.lit = @ \cup {s}, !.hoverSeries = s]
  BY DEF SeriesOver
<1> HIDE DEF left
<1>3. Sound(SeriesOver(u, s), there, shown)
  <2>1. left.lit \cup {s} \in SUBSET Series /\ s \in Series /\ left \in HoverStates
    BY <1>1 DEF Sound, HoverStates
  <2>2. SeriesOver(u, s) \in HoverStates
    BY <1>2, <2>1 DEF HoverStates
  <2>3. left.hoverPoint # None => left.hoverSeries = s
    BY <1>1
  <2> QED
    BY <1>1, <1>2, <2>1, <2>2, <2>3 DEF Sound, HoverStates
<1>4. SeriesOver(u, s).lit = left.lit \cup {s} /\ SeriesOver(u, s).hoverSeries = s
  BY <1>1, <1>2 DEF Sound, HoverStates
<1> QED
  BY <1>1, <1>3, <1>4 DEF LitBy

-----------------------------------------------------------------------------
(* Pointer                                                                 *)

LEMMA ResetSound ==
  ASSUME NEW there, NEW shown, NEW u, Sound(u, there, shown)
  PROVE  LET v == Reset(u)
         IN /\ Sound(v, there, shown)
            /\ \A item : LitBy(u, item) => LitBy(v, item)
<1> DEFINE out == IF u.hoverPoint # None THEN PointOut(u) ELSE u
           off == IF out.hoverSeries # None THEN SeriesOut(out) ELSE out
<1>1. /\ Sound(out, there, shown) /\ out.hoverPoint = None
      /\ out.hoverSeries = u.hoverSeries /\ out.lit = u.lit
  BY PointOutSound
<1> HIDE DEF out
<1>2. /\ Sound(off, there, shown) /\ off.hoverPoint = None
      /\ off.hoverSeries = None /\ off.lit = u.lit \ {u.hoverSeries}
  <2>1. CASE out.hoverSeries # None
    BY <1>1, <2>1, SeriesOutSound
  <2>2. CASE out.hoverSeries = None
    <3>1. None \notin u.lit
      BY <1>1, HoverAssumption DEF Sound, HoverStates
    <3> QED
      BY <1>1, <2>2, <3>1
  <2> QED
    BY <2>1, <2>2
<1> HIDE DEF off
<1>3. Reset(u) = [Hide(off) EXCEPT !.following = FALSE]
  BY DEF Reset, off, out
<1>4. /\ Sound(Hide(off), there, shown) /\ Hide(off).hoverPoint = None
      /\ Hide(off).hoverSeries = None /\ Hide(off).lit = off.lit
  BY <1>2, HideSound DEF Hide, Sound, HoverStates
<1> DEFINE h == Hide(off)
<1> HIDE DEF h
<1>5. /\ Sound(Reset(u), there, shown)
      /\ Reset(u).lit = u.lit \ {u.hoverSeries}
      /\ Reset(u).hoverSeries = None
  BY <1>2, <1>3, <1>4 DEF Sound, HoverStates, h
<1> QED
  BY <1>5 DEF LitBy

LEMMA ResetKeepingSound ==
  ASSUME NEW there \in SUBSET Points, NEW shown, NEW u, Sound(u, there, shown),
         NEW steps \in 0 .. Glide
  PROVE  LET v == ResetKeeping(u, steps)
         IN /\ Sound(v, there, shown)
            /\ \A item : LitBy(u, item) => LitBy(v, item)
<1>1. CASE u.hoverPoint # None
  <2>1. ResetKeeping(u, steps) = Refresh(u, u.hoverPoint, steps)
    BY <1>1 DEF ResetKeeping
  <2>2. u \in HoverStates /\ u.hoverPoint \in Points
    BY <1>1 DEF Sound
  <2> DEFINE v == Refresh(u, u.hoverPoint, steps)
  <2>3. /\ v \in HoverStates
        /\ v.hoverSeries = u.hoverSeries /\ v.hoverPoint = u.hoverPoint
        /\ v.hot = u.hot /\ v.lit = u.lit
        /\ ~v.isHidden /\ ~v.hideTimer
        /\ v.label = IF u.isHidden THEN "shown" ELSE u.label
    BY <2>2, RefreshKeeps
  <2> HIDE DEF v
  <2> QED
    BY <1>1, <2>1, <2>3 DEF Sound, LitBy, v
<1>2. CASE u.hoverPoint = None
  BY <1>2, ResetSound DEF ResetKeeping
<1> QED
  BY <1>1, <1>2

LEMMA LeastNatural ==
  ASSUME NEW T \in SUBSET Nat, T # {}
  PROVE  \E x \in T : \A y \in T : x <= y
<1> DEFINE Upto(n) == T \cap (0 .. n)
           F == {Upto(n) : n \in T}
<1>1. F \subseteq FiniteSubsetsOf(T) /\ F # {}
  <2>1. ASSUME NEW n \in T PROVE IsFiniteSet(Upto(n))
    <3>1. IsFiniteSet(0 .. n)
      BY FS_Interval
    <3> QED
      BY <3>1, FS_Subset
  <2> QED
    BY <2>1 DEF FiniteSubsetsOf
<1>2. PICK A \in F : \A B \in F : <<B, A>> \notin StrictSubsetOrdering(T)
  <2> HIDE DEF F
  <2> QED
    BY <1>1, FS_StrictSubsetOrderingWellFounded, WFMin
<1>3. PICK x \in T : A = Upto(x)
  OBVIOUS
<1>4. ASSUME NEW y \in T, y < x PROVE FALSE
  <2>1. Upto(y) \subseteq Upto(x) /\ x \in Upto(x) /\ x \notin Upto(y)
    BY <1>4
  <2>2. Upto(y) \in F /\ Upto(y) \in SUBSET T /\ A \in SUBSET T
    BY <1>3
  <2> HIDE DEF Upto, F
  <2>3. <<Upto(y), A>> \in StrictSubsetOrdering(T)
    BY <1>3, <2>1, <2>2 DEF StrictSubsetOrdering
  <2> QED
    BY <1>2, <2>2, <2>3
<1> QED
  BY <1>4

(* An array tooltipPoints holds points of its own series only.             *)
LEMMA TooltipPointOfSeries ==
  ASSUME NEW s, NEW x \in Columns, tracked \subseteq Points,
         TooltipPoint(s, x) # None
  PROVE  /\ TooltipPoint(s, x) \in tracked
         /\ SeriesOf(TooltipPoint(s, x)) = s
<1> DEFINE all == tracked \cap PointsOf(s)
           nearest == {p \in all : \A q \in all : Distance(p, x) <= Distance(q, x)}
<1>1. \A p \in all : ColumnOf(p) \in Nat /\ Distance(p, x) \in Nat
  <2>1. x \in Nat /\ \A p \in Points : ColumnOf(p) \in Nat
    BY HoverAssumption DEF Points, ColumnOf
  <2> QED
    BY <2>1 DEF Distance
<1>2. all # {}
  BY DEF TooltipPoint
<1> HIDE DEF all
<1>3. \E p \in all : \A q \in all : Distance(p, x) <= Distance(q, x)
  <2> DEFINE D == {Distance(p, x) : p \in all}
  <2>1. D \in SUBSET Nat /\ D # {}
    BY <1>1, <1>2
  <2> HIDE DEF D
  <2>2. PICK d \in D : \A e \in D : d <= e
    BY <2>1, LeastNatural
  <2> QED
    BY <2>2 DEF D
<1>4. \E p \in nearest : \A q \in nearest : ColumnOf(p) <= ColumnOf(q)
  <2> DEFINE C == {ColumnOf(p) : p \in nearest}
  <2>1. C \in SUBSET Nat /\ C # {}
    BY <1>1, <1>3
  <2> HIDE DEF C
  <2>2. PICK d \in C : \A e \in C : d <= e
    BY <2>1, LeastNatural
  <2> QED
    BY <2>2 DEF C
<1>5. TooltipPoint(s, x) \in nearest
  BY <1>2, <1>4 DEF TooltipPoint, all
<1> QED
  BY <1>5 DEF all, PointsOf, SeriesOf

LEMMA TrackerOutSound ==
  ASSUME NEW there, NEW shown, NEW u, Sound(u, there, shown)
  PROVE  LET v == TrackerOut(u)
         IN /\ Sound(v, there, shown)
            /\ \A item : LitBy(u, item) => LitBy(v, item)
<1>1. CASE TrackerOut(u) = u
  BY <1>1
<1>2. CASE TrackerOut(u) = SeriesOut(u)
  <2>1. /\ Sound(SeriesOut(u), there, shown)
        /\ SeriesOut(u).lit = u.lit \ {u.hoverSeries}
    BY SeriesOutSound
  <2> QED
    BY <1>2, <2>1 DEF LitBy
<1> QED
  BY <1>1, <1>2 DEF TrackerOut

LEMMA FollowingSound ==
  ASSUME NEW there, NEW shown, NEW u, Sound(u, there, shown)
  PROVE  LET v == [u EXCEPT !.following = TRUE]
         IN /\ Sound(v, there, shown)
            /\ v.lit = u.lit /\ v.hoverSeries = u.hoverSeries
BY DEF Sound, HoverStates

LEMMA RunPointActionsSound ==
  ASSUME TypeOK, NEW u, Sound(u, points, visible),
         NEW x \in Columns, NEW steps \in 0 .. Glide
  PROVE  LET v == RunPointActions(u, x, steps)
         IN /\ Sound(v, points, visible)
            /\ \A item : LitBy(u, item) => LitBy(v, item)
<1> DEFINE p == IF u.hoverSeries = None THEN None ELSE TooltipPoint(u.hoverSeries, x)
<1>0. None \notin points
  BY HoverAssumption DEF TypeOK, Points
<1>1. CASE p \in {None, u.hoverPoint}
  <2>1. RunPointActions(u, x, steps) = [u EXCEPT !.following = TRUE]
    BY <1>0, <1>1 DEF RunPointActions
  <2> QED
    BY <2>1, FollowingSound DEF LitBy
<1>2. CASE p \notin {None, u.hoverPoint} /\ p \in points
  <2>1. u.hoverSeries # None /\ p = TooltipPoint(u.hoverSeries, x)
    BY <1>2
  <2>2. SeriesOf(p) = u.hoverSeries
    BY <1>2, <2>1, TooltipPointOfSeries DEF TypeOK
  <2>3. RunPointActions(u, x, steps) =
          [PointOver(u, p, steps) EXCEPT !.following = TRUE]
    BY <1>2 DEF RunPointActions
  <2>4. points \in SUBSET Points
    BY DEF TypeOK
  <2> HIDE DEF p
  <2>5. /\ Sound(PointOver(u, p, steps), points, visible)
        /\ PointOver(u, p, steps).hoverSeries = u.hoverSeries
        /\ PointOver(u, p, steps).lit = u.lit
    BY <1>2, <2>2, <2>4, PointOverSound
  <2> QED
    BY <2>3, <2>5, FollowingSound DEF LitBy
<1>3. CASE p \notin {None, u.hoverPoint} /\ p \notin points
  <2>1. RunPointActions(u, x, steps) = u
    BY <1>3 DEF RunPointActions
  <2> QED
    BY <2>1
<1> QED
  BY <1>1, <1>2, <1>3

LEMMA DocumentMoveSound ==
  ASSUME NEW there, NEW shown, NEW u, Sound(u, there, shown), NEW to
  PROVE  LET v == DocumentMove(u, to)
         IN /\ Sound(v, there, shown)
            /\ \A item : LitBy(u, item) => LitBy(v, item)
<1>1. DocumentMove(u, to) \in {u, Reset(u)}
  BY DEF DocumentMove
<1> QED
  BY <1>1, ResetSound

LEMMA ContainerLeaveSound ==
  ASSUME NEW there, NEW shown, NEW u, Sound(u, there, shown), NEW from, NEW to
  PROVE  LET v == ContainerLeave(u, from, to)
         IN /\ Sound(v, there, shown)
            /\ \A item : LitBy(u, item) => LitBy(v, item)
<1>1. ContainerLeave(u, from, to) \in {u, Reset(u)}
  BY DEF ContainerLeave
<1> QED
  BY <1>1, ResetSound

(* Leaving an element, only an item on which the mouse still is can stay   *)
(* highlighted besides the hovered series.                                 *)
LEMMA LeavingSound ==
  ASSUME NEW there, NEW shown, NEW u, Sound(u, there, shown),
         NEW from, NEW to, LitBy(u, Item(from))
  PROVE  LET v == Leaving(u, from, to)
         IN Sound(v, there, shown) /\ LitBy(v, Item(to))
<1> DEFINE off == IF Tracker(from) \notin {None, Tracker(to)}
                    THEN TrackerOut(u) ELSE u
<1>1. Sound(off, there, shown) /\ LitBy(off, Item(from))
  BY TrackerOutSound
<1>2. Leaving(u, from, to) =
        IF Item(from) \notin {None, Item(to)} THEN LegendOut(off, Item(from))
        ELSE off
  BY DEF Leaving
<1> HIDE DEF off
<1>3. CASE Item(from) \in {None, Item(to)}
  <2>1. None \notin off.lit
    BY <1>1, HoverAssumption DEF Sound, HoverStates
  <2> QED
    BY <1>1, <1>2, <1>3, <2>1 DEF LitBy
<1>4. CASE Item(from) \notin {None, Item(to)}
  <2>1. Sound(LegendOut(off, Item(from)), there, shown)
    BY <1>1 DEF LegendOut, Sound, HoverStates
  <2>2. LitBy(LegendOut(off, Item(from)), Item(to))
    BY <1>1 DEF LegendOut, LitBy, Sound, HoverStates
  <2> QED
    BY <1>2, <1>4, <2>1, <2>2
<1> QED
  BY <1>3, <1>4

LEMMA EnteringSound ==
  ASSUME NEW there, NEW shown \in SUBSET Series, NEW u, Sound(u, there, shown),
         NEW from, NEW to \in MousePlaces, Tracker(to) \in shown \cup {None},
         LitBy(u, Item(to))
  PROVE  LET v == Entering(u, from, to)
         IN Sound(v, there, shown) /\ LitBy(v, Item(to))
<1> DEFINE on == IF Tracker(to) \notin {None, Tracker(from), u.hoverSeries}
                   THEN SeriesOver(u, Tracker(to)) ELSE u
<1>1. Sound(on, there, shown) /\ LitBy(on, Item(to))
  BY SeriesOverSound
<1>2. Entering(u, from, to) =
        IF Item(to) \notin {None, Item(from)} THEN LegendOver(on, Item(to)) ELSE on
  BY DEF Entering
<1> HIDE DEF on
<1>3. Item(to) \in Series \cup {None}
  BY DEF MousePlaces, Item
<1>4. CASE Item(to) \in {None, Item(from)}
  BY <1>1, <1>2, <1>4
<1>5. CASE Item(to) \notin {None, Item(from)}
  <2>1. Item(to) \in Series
    BY <1>3, <1>5
  <2>2. Sound(LegendOver(on, Item(to)), there, shown)
    <3>1. on.lit \cup {Item(to)} \in SUBSET Series /\ on \in HoverStates
      BY <1>1, <2>1 DEF Sound, HoverStates
    <3>2. LegendOver(on, Item(to)) \in HoverStates
      BY <3>1 DEF LegendOver, HoverStates
    <3> QED
      BY <1>1, <3>1, <3>2 DEF LegendOver, Sound, HoverStates
  <2>3. LitBy(LegendOver(on, Item(to)), Item(to))
    BY <1>1 DEF LegendOver, LitBy, Sound, HoverStates
  <2> QED
    BY <1>2, <1>5, <2>2, <2>3
<1> QED
  BY <1>4, <1>5

LEMMA MovingSound ==
  ASSUME TypeOK, NEW u, Sound(u, points, visible),
         NEW to \in MousePlaces, NEW steps \in 0 .. Glide, LitBy(u, Item(to))
  PROVE  LET v == Moving(u, to, steps)
         IN Sound(v, points, visible) /\ LitBy(v, Item(to))
<1> DEFINE w == IF to.at = "plot" THEN RunPointActions(u, to.x, steps) ELSE u
<1>1. to.at = "plot" => to.x \in Columns
  BY DEF MousePlaces
<1>2. Sound(w, points, visible) /\ LitBy(w, Item(to))
  BY <1>1, RunPointActionsSound
<1>3. Moving(u, to, steps) = DocumentMove(w, to)
  BY DEF Moving
<1> HIDE DEF w
<1> QED
  BY <1>2, <1>3, DocumentMoveSound

-----------------------------------------------------------------------------
(* The inductive invariant                                                 *)

(* While the chart lives its hovering is sound; the conjuncts that are     *)
(* added to HoverIsShown and HighlightsMatch say that the hovered series   *)
(* is visible even without a hovered point, and that a tooltip which is    *)
(* not hidden is not fading: refresh() shows it only if it was hidden.     *)
HoverInv ==
  /\ TypeOK
  /\ Sound(ui, points, visible) \/ ~alive
  /\ LitBy(ui, Item(mouse))
  /\ ~alive => /\ ui.hoverPoint = None /\ ui.hot = {}
               /\ QuietAfterDestroy

LEMMA InitHoverInv == Init => HoverInv
<1> SUFFICES ASSUME Init PROVE HoverInv
  OBVIOUS
<1>1. TypeOK
  <2>1. ui \in HoverStates
    BY HoverAssumption DEF Init, HoverStates, Places
  <2>2. mouse \in MousePlaces
    BY DEF Init, MousePlaces
  <2> QED
    BY <2>1, <2>2 DEF Init, TypeOK
<1> QED
  BY <1>1 DEF Init, HoverInv, Sound, LitBy, TypeOK

LEMMA MouseMovesKeeps ==
  ASSUME HoverInv, NEW to \in MousePlaces, MouseMoves(to)
  PROVE  HoverInv'
<1>1. PICK steps \in 0 .. Glide :
        ui' = Moving(Entering(ContainerLeave(Leaving(ui, mouse, to), mouse, to),
                              mouse, to), to, steps)
  BY DEF MouseMoves
<1> DEFINE a == Leaving(ui, mouse, to)
           b == ContainerLeave(a, mouse, to)
           d == Entering(b, mouse, to)
<1>2. Sound(a, points, visible) /\ LitBy(a, Item(to))
  BY LeavingSound DEF HoverInv, MouseMoves
<1> HIDE DEF a
<1>3. Sound(b, points, visible) /\ LitBy(b, Item(to))
  BY <1>2, ContainerLeaveSound
<1> HIDE DEF b
<1>4. Sound(d, points, visible) /\ LitBy(d, Item(to))
  BY <1>3, EnteringSound DEF HoverInv, TypeOK, MouseMoves
<1> HIDE DEF d
<1>5. Sound(Moving(d, to, steps), points, visible)
      /\ LitBy(Moving(d, to, steps), Item(to))
  BY <1>4, MovingSound DEF HoverInv
<1>6. ui' = Moving(d, to, steps)
  BY <1>1 DEF a, b, d
<1>7. /\ alive /\ UNCHANGED <<alive, visible, points, refill, tracked, owed>>
      /\ mouse' = to
  BY DEF MouseMoves
<1>8. Sound(ui', points', visible') /\ LitBy(ui', Item(to))
  BY <1>5, <1>6, <1>7
<1>9. TypeOK'
  BY <1>7, <1>8 DEF HoverInv, TypeOK, Sound
<1> QED
  BY <1>7, <1>8, <1>9 DEF HoverInv

(* The actions of the program are proved by what they do before Finish.    *)
LEMMA RedrawnSound ==
  ASSUME NEW there \in SUBSET Points, NEW shown, NEW u, Sound(u, there, shown),
         NEW axes, NEW moved, NEW steps \in 0 .. Glide
  PROVE  LET v == Redrawn(u, axes, moved, steps)
         IN /\ Sound(v, there, shown)
            /\ \A item : LitBy(u, item) => LitBy(v, item)
<1> DEFINE first == IF axes THEN ResetKeeping(u, steps) ELSE u
           laid  == IF axes /\ moved
                      THEN [first EXCEPT !.now = Replaced(@),
                                         !.tooltipTimeout = Replaced(@)]
                      ELSE first
<1>1. /\ Sound(first, there, shown)
      /\ \A item : LitBy(u, item) => LitBy(first, item)
  BY ResetKeepingSound
<1>2. Redrawn(u, axes, moved, steps) = ResetKeeping(laid, steps)
  BY DEF Redrawn
<1> HIDE DEF first
<1>3. Sound(laid, there, shown) /\ laid.lit = first.lit
      /\ laid.hoverSeries = first.hoverSeries
  <2>1. \A place : Replaced(place) \in Places
    BY DEF Replaced, Places
  <2> QED
    BY <1>1, <2>1 DEF Sound, HoverStates
<1> HIDE DEF laid
<1>4. /\ Sound(ResetKeeping(laid, steps), there, shown)
      /\ \A item : LitBy(laid, item) => LitBy(ResetKeeping(laid, steps), item)
  BY <1>3, ResetKeepingSound
<1> QED
  BY <1>1, <1>2, <1>3, <1>4 DEF LitBy

LEMMA FinishKeeps ==
  ASSUME TypeOK, alive,
         NEW shown \in SUBSET Series, NEW kept \in SUBSET Points,
         NEW unfilled \in SUBSET Series, NEW arrays \in SUBSET Points,
         NEW u, Sound(u, kept, shown), LitBy(u, Item(mouse)),
         NEW box, NEW redraw \in BOOLEAN,
         Finish(shown, kept, unfilled, arrays, u, box, redraw)
  PROVE  HoverInv'
<1>1. /\ visible' = shown /\ owed' = ~redraw
      /\ alive' = alive /\ mouse' = mouse
  BY DEF Finish
<1>2. CASE ~redraw
  <2>1. points' = kept /\ refill' = unfilled /\ tracked' = arrays /\ ui' = u
    BY <1>2 DEF Finish
  <2> QED
    BY <1>1, <2>1 DEF HoverInv, TypeOK, Sound, LitBy
<1>3. CASE redraw
  <2> DEFINE drawn == kept \cup UNION {PointsOf(s) : s \in unfilled \cap shown}
  <2>1. /\ points' = drawn
        /\ refill' = unfilled \ shown
        /\ tracked' = {p \in drawn : SeriesOf(p) \in shown}
                        \cup {p \in arrays : SeriesOf(p) \notin shown}
    BY <1>3 DEF Finish
  <2>2. PICK axes \in {TRUE, box}, moved \in BOOLEAN, steps \in 0 .. Glide :
          ui' = Redrawn(u, axes, moved, steps)
    BY <1>3 DEF Finish
  <2>3. drawn \in SUBSET Points /\ kept \subseteq drawn
    BY DEF Points, PointsOf
  <2> HIDE DEF drawn
  <2>4. Sound(u, drawn, shown)
    BY <2>3 DEF Sound
  <2>5. Sound(ui', drawn, shown) /\ LitBy(ui', Item(mouse))
    BY <2>2, <2>3, <2>4, RedrawnSound
  <2>6. tracked' \subseteq Points /\ refill' \subseteq Series
    BY <2>1, <2>3
  <2>7. TypeOK'
    BY <1>1, <2>1, <2>3, <2>5, <2>6 DEF TypeOK, Sound
  <2> QED
    BY <1>1, <2>1, <2>5, <2>7 DEF HoverInv
<1> QED
  BY <1>2, <1>3

LEMMA WithoutPointsSound ==
  ASSUME NEW there, NEW shown, NEW u, Sound(u, there, shown), NEW gone
  PROVE  LET v == WithoutPoints(u, gone)
         IN /\ Sound(v, there \ gone, shown)
            /\ \A item : LitBy(u, item) => LitBy(v, item)
<1>1. CASE u.hoverPoint \in gone
  <2>1. WithoutPoints(u, gone) = PointOut(u)
    BY <1>1 DEF WithoutPoints
  <2>2. /\ Sound(PointOut(u), there, shown) /\ PointOut(u).hoverPoint = None
        /\ PointOut(u).lit = u.lit /\ PointOut(u).hoverSeries = u.hoverSeries
    BY PointOutSound
  <2> QED
    BY <2>1, <2>2 DEF Sound, LitBy
<1>2. CASE u.hoverPoint \notin gone
  BY <1>2 DEF WithoutPoints, Sound
<1> QED
  BY <1>1, <1>2

LEMMA UpdateKeeps == HoverInv /\ Update => HoverInv'
<1> SUFFICES ASSUME HoverInv, Update PROVE HoverInv'
  OBVIOUS
<1>0. alive => TypeOK /\ Sound(ui, points, visible) /\ LitBy(ui, Item(mouse))
  BY DEF HoverInv
<1>1. CASE Redraw
  BY <1>0, <1>1, FinishKeeps DEF Redraw, TypeOK
<1>2. ASSUME NEW s \in Series, NEW show \in BOOLEAN, NEW redraw \in BOOLEAN,
             SetVisible(s, show, redraw)
      PROVE  HoverInv'
  <2> DEFINE u == IF ui.hoverSeries = s THEN SeriesOut(ui) ELSE ui
  <2>1. alive /\ Finish(Shown(s, show), points, refill, tracked, u, TRUE, redraw)
    BY <1>2 DEF SetVisible
  <2>2. Sound(u, points, Shown(s, show)) /\ LitBy(u, Item(mouse))
    <3>1. CASE ui.hoverSeries = s
      <4>1. /\ Sound(SeriesOut(ui), points, visible)
            /\ SeriesOut(ui).hoverSeries = None /\ SeriesOut(ui).hoverPoint = None
            /\ SeriesOut(ui).lit = ui.lit \ {ui.hoverSeries}
        BY <1>0, <2>1, SeriesOutSound
      <4> QED
        BY <1>0, <2>1, <3>1, <4>1 DEF Sound, LitBy
    <3>2. CASE ui.hoverSeries # s
      BY <1>0, <2>1, <3>2 DEF Sound, Shown
    <3> QED
      BY <3>1, <3>2
  <2>3. Shown(s, show) \in SUBSET Series
    BY <1>0, <2>1 DEF Shown, TypeOK
  <2> HIDE DEF u
  <2> QED
    BY <1>0, <2>1, <2>2, <2>3, FinishKeeps DEF TypeOK
<1>3. ASSUME NEW p \in Changing \X Columns, NEW redraw \in BOOLEAN,
             RemovePoint(p, redraw)
      PROVE  HoverInv'
  <2> DEFINE u == WithoutPoints(ui, {p})
  <2>1. alive /\ Finish(visible, points \ {p}, refill, tracked, u, FALSE, redraw)
    BY <1>3 DEF RemovePoint
  <2>2. Sound(u, points \ {p}, visible) /\ LitBy(u, Item(mouse))
    BY <1>0, <2>1, WithoutPointsSound
  <2> HIDE DEF u
  <2> QED
    BY <1>0, <2>1, <2>2, FinishKeeps DEF TypeOK
<1>4. ASSUME NEW s \in Changing, NEW redraw \in BOOLEAN, SetData(s, redraw)
      PROVE  HoverInv'
  <2> DEFINE u == WithoutPoints(ui, PointsOf(s))
  <2>1. alive /\ Finish(visible, points \ PointsOf(s), refill \cup {s},
                        tracked \ PointsOf(s), u, TRUE, redraw)
    BY <1>4 DEF SetData
  <2>2. Sound(u, points \ PointsOf(s), visible) /\ LitBy(u, Item(mouse))
    BY <1>0, <2>1, WithoutPointsSound
  <2>3. s \in Series
    BY HoverAssumption
  <2> HIDE DEF u
  <2> QED
    BY <1>0, <2>1, <2>2, <2>3, FinishKeeps DEF TypeOK
<1>5. CASE Destroy
  <2> DEFINE u == WithoutPoints(ui, Points)
  <2>1. Sound(u, points \ Points, visible)
    BY <1>0, <1>5, WithoutPointsSound DEF Destroy
  <2>2. points \ Points = {}
    BY <1>0, <1>5 DEF Destroy, TypeOK
  <2>3. /\ ~alive' /\ points' = {} /\ tracked' = {} /\ refill' = {}
        /\ ui' = [u EXCEPT
                    !.hoverSeries = None, !.lit = {}, !.label = "destroyed",
                    !.hideTimer = FALSE, !.tooltipTimeout = None]
        /\ UNCHANGED <<mouse, visible, owed>>
    BY <1>5 DEF Destroy
  <2> HIDE DEF u
  <2>4. /\ ui' \in HoverStates /\ ui'.hoverPoint = None /\ ui'.hot = {}
        /\ ui'.lit = {} /\ ~ui'.hideTimer /\ ui'.tooltipTimeout = None
        /\ ui'.label = "destroyed"
    BY <2>1, <2>2, <2>3 DEF Sound, HoverStates, Places
  <2>5. TypeOK'
    BY <1>0, <1>5, <2>3, <2>4 DEF TypeOK, Destroy
  <2> QED
    BY <2>3, <2>4, <2>5 DEF HoverInv, LitBy, QuietAfterDestroy
<1> QED
  BY <1>1, <1>2, <1>3, <1>4, <1>5 DEF Update

LEMMA TimersKeep == HoverInv /\ (HideTimer \/ FadeEnds \/ MoveTimer) => HoverInv'
<1> SUFFICES ASSUME HoverInv, HideTimer \/ FadeEnds \/ MoveTimer
             PROVE  HoverInv'
  OBVIOUS
<1>1. UNCHANGED <<alive, mouse, visible, points, refill, tracked, owed>>
  BY DEF HideTimer, FadeEnds, MoveTimer
<1>2. ui \in HoverStates
  BY DEF HoverInv, TypeOK
<1>3. CASE HideTimer
  <2>1. ui' = [ui EXCEPT !.hideTimer = FALSE, !.isHidden = TRUE, !.label = "fading"]
        /\ ui.hideTimer /\ alive
    BY <1>3 DEF HideTimer, HoverInv, QuietAfterDestroy
  <2>2. ui' \in HoverStates
    BY <1>2, <2>1 DEF HoverStates
  <2>3. Sound(ui', points, visible) /\ ui'.lit = ui.lit
        /\ ui'.hoverSeries = ui.hoverSeries
    BY <1>2, <2>1, <2>2 DEF HoverInv, Sound, HoverStates
  <2> QED
    BY <1>1, <2>1, <2>2, <2>3 DEF HoverInv, TypeOK, LitBy
<1>4. CASE FadeEnds
  <2>1. ui' = [ui EXCEPT !.label = "hidden"] /\ ui.label = "fading" /\ alive
    BY <1>4 DEF FadeEnds, HoverInv, QuietAfterDestroy
  <2>2. ui' \in HoverStates
    BY <1>2, <2>1 DEF HoverStates
  <2>3. Sound(ui', points, visible) /\ ui'.lit = ui.lit
        /\ ui'.hoverSeries = ui.hoverSeries
    BY <1>2, <2>1, <2>2 DEF HoverInv, Sound, HoverStates
  <2> QED
    BY <1>1, <2>1, <2>2, <2>3 DEF HoverInv, TypeOK, LitBy
<1>5. CASE MoveTimer
  <2> DEFINE w == [ui EXCEPT !.tooltipTimeout = None]
  <2>1. PICK steps \in 0 .. Glide : ui' = Move(w, ui.tooltipTimeout, steps)
    BY <1>5 DEF MoveTimer
  <2>2. alive /\ w \in HoverStates /\ ui.tooltipTimeout \in Places
    BY <1>2, <1>5 DEF MoveTimer, HoverInv, QuietAfterDestroy, HoverStates, Places
  <2> HIDE DEF w
  <2>3. /\ ui' \in HoverStates
        /\ ui'.hoverSeries = w.hoverSeries /\ ui'.hoverPoint = w.hoverPoint
        /\ ui'.hot = w.hot /\ ui'.lit = w.lit
        /\ ui'.isHidden = w.isHidden /\ ui'.hideTimer = w.hideTimer
        /\ ui'.label = w.label
    BY <2>1, <2>2, MoveKeeps
  <2>4. /\ w.hoverSeries = ui.hoverSeries /\ w.hoverPoint = ui.hoverPoint
        /\ w.hot = ui.hot /\ w.lit = ui.lit
        /\ w.isHidden = ui.isHidden /\ w.hideTimer = ui.hideTimer
        /\ w.label = ui.label
    BY <1>2 DEF HoverStates, w
  <2>5. Sound(ui', points, visible) /\ LitBy(ui', Item(mouse))
    BY <2>2, <2>3, <2>4 DEF HoverInv, Sound, LitBy
  <2> QED
    BY <1>1, <2>2, <2>3, <2>5 DEF HoverInv, TypeOK
<1> QED
  BY <1>3, <1>4, <1>5

LEMMA StepHoverInv == HoverInv /\ [Next]_vars => HoverInv'
<1> SUFFICES ASSUME HoverInv, [Next]_vars PROVE HoverInv'
  OBVIOUS
<1>1. CASE UNCHANGED vars
  BY <1>1 DEF vars, HoverInv, TypeOK, Sound, LitBy, QuietAfterDestroy
<1> QED
  BY <1>1, MouseMovesKeeps, UpdateKeeps, TimersKeep DEF Next

(* Every handler, timer and call of the program leaves the hovering sound  *)
(* and a highlighted series under the mouse or its legend item.            *)
THEOREM HoverInvariant == Spec => []HoverInv
BY InitHoverInv, StepHoverInv, PTL DEF Spec

(* The variables and every field of the state of the hovering have their   *)
(* types; with it, no handler stores a point or series that is none.       *)
THEOREM HoverTypeCorrect == Spec => []TypeOK
<1>1. HoverInv => TypeOK
  BY DEF HoverInv
<1> QED
  BY <1>1, HoverInvariant, PTL

(* However handlers, timers and the program's calls interleave, a hovered  *)
(* point exists, belongs to the visible hovered series, is the only one    *)
(* highlighted and has a readable tooltip.                                 *)
THEOREM HoveredPointIsShown == Spec => []HoverIsShown
<1>1. HoverInv => HoverIsShown
  <2> SUFFICES ASSUME HoverInv PROVE HoverIsShown
    OBVIOUS
  <2>1. CASE alive
    <3>1. TypeOK /\ Sound(ui, points, visible)
      BY <2>1 DEF HoverInv
    <3>2. ui.hoverPoint # None => SeriesOf(ui.hoverPoint) \in Series
      BY <3>1 DEF TypeOK, Sound, Points, SeriesOf
    <3> QED
      BY <3>1, <3>2, HoverAssumption DEF Sound, HoverIsShown
  <2>2. CASE ~alive
    BY <2>2 DEF HoverInv, HoverIsShown
  <2> QED
    BY <2>1, <2>2
<1> QED
  BY <1>1, HoverInvariant, PTL

(* No series keeps its highlight after the mouse has left its line and its *)
(* legend item.                                                            *)
THEOREM HighlightsAreOwned == Spec => []HighlightsMatch
<1>1. HoverInv => HighlightsMatch
  BY DEF HoverInv, LitBy, HighlightsMatch
<1> QED
  BY <1>1, HoverInvariant, PTL

(* A destroyed chart has neither timer nor animation.                      *)
THEOREM DestroyedIsQuiet == Spec => []QuietAfterDestroy
<1>1. HoverInv => QuietAfterDestroy
  BY DEF HoverInv, QuietAfterDestroy
<1> QED
  BY <1>1, HoverInvariant, PTL

-----------------------------------------------------------------------------
(* Whose tooltip it is                                                     *)

(* The tooltip is hidden or about to hide.                                 *)
Quiet(u) == u.isHidden \/ u.hideTimer

(* A tooltip that stays belongs to a hovered series, and the document's    *)
(* handler is bound, so it goes when the mouse leaves the plot.            *)
Held(u) == Quiet(u) \/ (u.hoverSeries # None /\ u.following)

LEMMA SeriesOutHides ==
  ASSUME NEW u \in HoverStates
  PROVE  LET v == SeriesOut(u)
         IN /\ v \in HoverStates
            /\ v.hoverSeries = None /\ v.hoverPoint = None
            /\ v.following = u.following
            /\ Quiet(u) => Quiet(v)
            /\ u.hoverSeries \notin Sticky => Quiet(v)
<1> DEFINE out == IF u.hoverPoint # None THEN PointOut(u) ELSE u
           hiding == IF u.hoverSeries \in Sticky THEN out ELSE Hide(out)
<1>1. /\ out \in HoverStates /\ out.hoverPoint = None
      /\ out.following = u.following
      /\ out.isHidden = u.isHidden /\ out.hideTimer = u.hideTimer
  BY DEF PointOut, HoverStates
<1> HIDE DEF out
<1>2. /\ hiding \in HoverStates /\ hiding.hoverPoint = None
      /\ hiding.following = u.following
      /\ Quiet(u) => Quiet(hiding)
      /\ u.hoverSeries \notin Sticky => Quiet(hiding)
  <2>1. /\ Hide(out) \in HoverStates /\ Hide(out).hoverPoint = None
        /\ Hide(out).following = u.following
        /\ Quiet(Hide(out))
    BY <1>1, ZenonT(60) DEF Hide, Quiet, HoverStates
  <2>2. Quiet(u) => Quiet(out)
    BY <1>1 DEF Quiet
  <2> QED
    BY <1>1, <2>1, <2>2
<1>3. SeriesOut(u) =
        [hiding EXCEPT !.lit = @ \ {u.hoverSeries}, !.hoverSeries = None]
  BY DEF SeriesOut, hiding, out
<1> HIDE DEF hiding
<1>4. hiding.lit \ {u.hoverSeries} \in SUBSET Series
  BY <1>2 DEF HoverStates
<1> QED
  BY <1>2, <1>3, <1>4 DEF Quiet, HoverStates

(* reset() leaves neither a hovered point nor a tooltip that stays.        *)
LEMMA ResetHides ==
  ASSUME NEW u \in HoverStates
  PROVE  LET v == Reset(u)
         IN /\ v \in HoverStates /\ Quiet(v)
            /\ v.hoverPoint = None /\ v.hoverSeries = None
<1> DEFINE out == IF u.hoverPoint # None THEN PointOut(u) ELSE u
           off == IF out.hoverSeries # None THEN SeriesOut(out) ELSE out
<1>1. out \in HoverStates /\ out.hoverPoint = None
  BY DEF PointOut, HoverStates
<1> HIDE DEF out
<1>2. off \in HoverStates /\ off.hoverPoint = None /\ off.hoverSeries = None
  BY <1>1, SeriesOutHides
<1>3. Reset(u) = [Hide(off) EXCEPT !.following = FALSE]
  BY DEF Reset, off, out
<1> HIDE DEF off
<1> QED
  BY <1>2, <1>3 DEF Hide, Quiet, HoverStates

LEMMA PointOverHolds ==
  ASSUME NEW u \in HoverStates, NEW p \in Points, NEW steps \in 0 .. Glide
  PROVE  LET v == PointOver(u, p, steps)
         IN /\ v \in HoverStates
            /\ v.hoverSeries = u.hoverSeries /\ v.hoverPoint = p
<1> DEFINE left == IF u.hoverPoint \notin {None, p} THEN PointOut(u) ELSE u
           r == Refresh(left, p, steps)
<1>1. left \in HoverStates /\ left.hoverSeries = u.hoverSeries
  BY DEF PointOut, HoverStates
<1> HIDE DEF left
<1>2. r \in HoverStates /\ r.hoverSeries = u.hoverSeries
  BY <1>1, RefreshKeeps
<1>3. PointOver(u, p, steps) = [r EXCEPT !.hot = @ \cup {p}, !.hoverPoint = p]
  BY DEF PointOver, left
<1> HIDE DEF r
<1>4. r.hot \cup {p} \in SUBSET Points
  BY <1>2 DEF HoverStates
<1> QED
  BY <1>2, <1>3, <1>4 DEF HoverStates

LEMMA SeriesOverHolds ==
  ASSUME NEW u \in HoverStates, NEW s \in Series
  PROVE  LET v == SeriesOver(u, s)
         IN /\ v \in HoverStates
            /\ v.hoverSeries = s
            /\ v.hoverPoint \in {None, u.hoverPoint}
            /\ v.following = u.following
            /\ Quiet(u) => Quiet(v)
            /\ Held(u) => Held(v)
<1> DEFINE left == IF u.hoverSeries \notin {None, s} THEN SeriesOut(u) ELSE u
<1>1. /\ left \in HoverStates /\ left.hoverPoint \in {None, u.hoverPoint}
      /\ left.following = u.following
      /\ Quiet(u) => Quiet(left)
  BY SeriesOutHides
<1>2. SeriesOver(u, s) = [left EXCEPT !.lit = @ \cup {s}, !.hoverSeries = s]
  BY DEF SeriesOver
<1> HIDE DEF left
<1>3. left.lit \cup {s} \in SUBSET Series /\ s # None
  BY <1>1, HoverAssumption DEF HoverStates
<1>4. /\ SeriesOver(u, s) \in HoverStates
      /\ SeriesOver(u, s).hoverSeries = s
      /\ SeriesOver(u, s).hoverPoint = left.hoverPoint
      /\ SeriesOver(u, s).following = left.following
      /\ SeriesOver(u, s).isHidden = left.isHidden
      /\ SeriesOver(u, s).hideTimer = left.hideTimer
  BY <1>1, <1>2, <1>3 DEF HoverStates
<1> QED
  BY <1>1, <1>3, <1>4 DEF Quiet, Held

(* Leaving a line, a tooltip either stays held or, without stickyTracking, *)
(* is about to hide.                                                       *)
LEMMA LeavingHolds ==
  ASSUME NEW u \in HoverStates, NEW from, NEW to
  PROVE  LET v == Leaving(u, from, to)
         IN /\ v \in HoverStates
            /\ v.hoverPoint \in {None, u.hoverPoint}
            /\ v.following = u.following
            /\ Quiet(u) => Quiet(v)
            /\ Held(u) => Held(v)
<1> DEFINE off == IF Tracker(from) \notin {None, Tracker(to)}
                    THEN TrackerOut(u) ELSE u
<1>1. /\ off \in HoverStates /\ off.hoverPoint \in {None, u.hoverPoint}
      /\ off.following = u.following
      /\ Quiet(u) => Quiet(off)
      /\ Held(u) => Held(off)
  <2>1. CASE off = u
    BY <2>1
  <2>2. CASE off = SeriesOut(u) /\ u.hoverSeries \notin Sticky
    <3>1. /\ SeriesOut(u) \in HoverStates /\ SeriesOut(u).hoverPoint = None
          /\ SeriesOut(u).following = u.following
          /\ Quiet(SeriesOut(u))
      BY <2>2, SeriesOutHides
    <3> QED
      BY <2>2, <3>1 DEF Held
  <2> QED
    BY <2>1, <2>2 DEF TrackerOut
<1>2. Leaving(u, from, to) =
        IF Item(from) \notin {None, Item(to)} THEN LegendOut(off, Item(from))
        ELSE off
  BY DEF Leaving
<1> HIDE DEF off
<1>3. /\ LegendOut(off, Item(from)) \in HoverStates
      /\ LegendOut(off, Item(from)).hoverPoint = off.hoverPoint
      /\ LegendOut(off, Item(from)).hoverSeries = off.hoverSeries
      /\ LegendOut(off, Item(from)).following = off.following
      /\ LegendOut(off, Item(from)).isHidden = off.isHidden
      /\ LegendOut(off, Item(from)).hideTimer = off.hideTimer
  BY <1>1 DEF LegendOut, HoverStates
<1> QED
  BY <1>1, <1>2, <1>3 DEF Quiet, Held

(* Entering an element never starts to show a tooltip; it is the movement  *)
(* that does.  On a line, the series of this line is hovered afterwards.   *)
LEMMA EnteringHolds ==
  ASSUME NEW u \in HoverStates, NEW from, NEW to \in MousePlaces
  PROVE  LET v == Entering(u, from, to)
         IN /\ v \in HoverStates
            /\ v.hoverPoint \in {None, u.hoverPoint}
            /\ v.following = u.following
            /\ Quiet(u) => Quiet(v)
            /\ Held(u) => Held(v)
            /\ Tracker(to) \notin {None, Tracker(from)} =>
                 v.hoverSeries = Tracker(to)
<1> DEFINE on == IF Tracker(to) \notin {None, Tracker(from), u.hoverSeries}
                   THEN SeriesOver(u, Tracker(to)) ELSE u
<1>0. Tracker(to) \in Series \cup {None} /\ Item(to) \in Series \cup {None}
  BY DEF Tracker, Item, MousePlaces
<1>1. /\ on \in HoverStates /\ on.hoverPoint \in {None, u.hoverPoint}
      /\ on.following = u.following
      /\ Quiet(u) => Quiet(on)
      /\ Held(u) => Held(on)
      /\ Tracker(to) \notin {None, Tracker(from)} => on.hoverSeries = Tracker(to)
  BY <1>0, SeriesOverHolds
<1>2. Entering(u, from, to) =
        IF Item(to) \notin {None, Item(from)} THEN LegendOver(on, Item(to)) ELSE on
  BY DEF Entering
<1> HIDE DEF on
<1>3. CASE Item(to) \in {None, Item(from)}
  BY <1>1, <1>2, <1>3
<1>4. CASE Item(to) \notin {None, Item(from)}
  <2>1. on.lit \cup {Item(to)} \in SUBSET Series
    BY <1>0, <1>1, <1>4 DEF HoverStates
  <2>2. /\ LegendOver(on, Item(to)) \in HoverStates
        /\ LegendOver(on, Item(to)).hoverPoint = on.hoverPoint
        /\ LegendOver(on, Item(to)).hoverSeries = on.hoverSeries
        /\ LegendOver(on, Item(to)).following = on.following
        /\ LegendOver(on, Item(to)).isHidden = on.isHidden
        /\ LegendOver(on, Item(to)).hideTimer = on.hideTimer
    BY <1>1, <2>1 DEF LegendOver, HoverStates
  <2> QED
    BY <1>1, <1>2, <1>4, <2>2 DEF Quiet, Held
<1> QED
  BY <1>3, <1>4

LEMMA RunPointActionsHolds ==
  ASSUME TypeOK, NEW u \in HoverStates,
         u.hoverPoint # None => u.following,
         NEW x \in Columns, NEW steps \in 0 .. Glide
  PROVE  LET v == RunPointActions(u, x, steps)
         IN /\ Held(u) => Held(v)
            /\ v.hoverPoint # None => v.following
<1> DEFINE p == IF u.hoverSeries = None THEN None ELSE TooltipPoint(u.hoverSeries, x)
           w == PointOver(u, p, steps)
<1>1. CASE p \in {None, u.hoverPoint}
  <2>1. RunPointActions(u, x, steps) = [u EXCEPT !.following = TRUE]
    BY <1>1, HoverAssumption DEF RunPointActions, TypeOK, Points
  <2> QED
    BY <2>1 DEF Held, Quiet, HoverStates
<1>2. CASE p \notin {None, u.hoverPoint} /\ p \in points
  <2>1. RunPointActions(u, x, steps) = [w EXCEPT !.following = TRUE]
    BY <1>2 DEF RunPointActions
  <2>2. u.hoverSeries # None /\ p \in Points
    BY <1>2 DEF TypeOK
  <2> HIDE DEF p
  <2>3. w \in HoverStates /\ w.hoverSeries = u.hoverSeries
    BY <2>2, PointOverHolds
  <2> HIDE DEF w
  <2> QED
    BY <2>1, <2>2, <2>3 DEF Held, HoverStates
<1>3. CASE p \notin {None, u.hoverPoint} /\ p \notin points
  <2>1. RunPointActions(u, x, steps) = u
    BY <1>3 DEF RunPointActions
  <2> QED
    BY <2>1
<1> QED
  BY <1>1, <1>2, <1>3

(* A redraw keeps a hovered point, or lets the tooltip hide.               *)
LEMMA RedrawnHolds ==
  ASSUME NEW u \in HoverStates,
         NEW axes, NEW moved, NEW steps \in 0 .. Glide
  PROVE  LET v == Redrawn(u, axes, moved, steps)
         IN \/ Quiet(v) /\ v.hoverPoint = None
            \/ /\ u.hoverPoint # None /\ v.hoverPoint = u.hoverPoint
               /\ v.hoverSeries = u.hoverSeries /\ v.following = u.following
<1> DEFINE first == IF axes THEN ResetKeeping(u, steps) ELSE u
           laid  == IF axes /\ moved
                      THEN [first EXCEPT !.now = Replaced(@),
                                         !.tooltipTimeout = Replaced(@)]
                      ELSE first
<1>1. CASE u.hoverPoint # None
  <2>1. \A w \in HoverStates :
          w.hoverPoint # None =>
            LET v == ResetKeeping(w, steps)
            IN /\ v \in HoverStates
               /\ v.hoverPoint = w.hoverPoint /\ v.hoverSeries = w.hoverSeries
               /\ v.following = w.following
    <3> SUFFICES ASSUME NEW w \in HoverStates, w.hoverPoint # None
                 PROVE  LET v == ResetKeeping(w, steps)
                        IN /\ v \in HoverStates
                           /\ v.hoverPoint = w.hoverPoint
                           /\ v.hoverSeries = w.hoverSeries
                           /\ v.following = w.following
      OBVIOUS
    <3>1. ResetKeeping(w, steps) = Refresh(w, w.hoverPoint, steps)
      BY DEF ResetKeeping
    <3>2. w.hoverPoint \in Points
      BY DEF HoverStates
    <3> QED
      BY <3>1, <3>2, RefreshKeeps
  <2>2. /\ first \in HoverStates
        /\ first.hoverPoint = u.hoverPoint /\ first.hoverSeries = u.hoverSeries
        /\ first.following = u.following
    BY <1>1, <2>1
  <2> HIDE DEF first
  <2>3. /\ laid \in HoverStates
        /\ laid.hoverPoint = u.hoverPoint /\ laid.hoverSeries = u.hoverSeries
        /\ laid.following = u.following
    <3>1. \A place : Replaced(place) \in Places
      BY DEF Replaced, Places
    <3> QED
      BY <2>2, <3>1 DEF HoverStates
  <2>4. Redrawn(u, axes, moved, steps) = ResetKeeping(laid, steps)
    BY DEF Redrawn, first
  <2> HIDE DEF laid
  <2> QED
    BY <1>1, <2>1, <2>3, <2>4
<1>2. CASE u.hoverPoint = None
  <2>1. first \in HoverStates /\ first.hoverPoint = None
    <3>1. Reset(u) \in HoverStates /\ Reset(u).hoverPoint = None
      BY ResetHides
    <3> QED
      BY <1>2, <3>1 DEF ResetKeeping
  <2> HIDE DEF first
  <2>2. laid \in HoverStates /\ laid.hoverPoint = None
    <3>1. \A place : Replaced(place) \in Places
      BY DEF Replaced, Places
    <3> QED
      BY <2>1, <3>1 DEF HoverStates
  <2>3. Redrawn(u, axes, moved, steps) = ResetKeeping(laid, steps)
    BY DEF Redrawn, first
  <2> HIDE DEF laid
  <2> QED
    BY <2>2, <2>3, ResetHides DEF ResetKeeping
<1> QED
  BY <1>1, <1>2

(* A point is hovered only with the mouse in the plot, and a tooltip that  *)
(* stays is held there, unless a redraw is owed: a sticky series hidden    *)
(* without a redraw is left without its tooltip being hidden.              *)
OwnInv ==
  /\ ui.hoverPoint # None => ui.following /\ mouse.at = "plot"
  /\ alive => \/ Quiet(ui)
              \/ Held(ui) /\ mouse.at = "plot"
              \/ owed /\ mouse.at # "out"

LEMMA MouseMovesOwn ==
  ASSUME HoverInv, OwnInv, NEW to \in MousePlaces, MouseMoves(to)
  PROVE  OwnInv'
<1>1. PICK steps \in 0 .. Glide :
        ui' = Moving(Entering(ContainerLeave(Leaving(ui, mouse, to), mouse, to),
                              mouse, to), to, steps)
  BY DEF MouseMoves
<1> DEFINE a == Leaving(ui, mouse, to)
           b == ContainerLeave(a, mouse, to)
           d == Entering(b, mouse, to)
<1>2. /\ alive /\ alive' = alive /\ owed' = owed /\ mouse' = to
      /\ TypeOK /\ ui \in HoverStates
  BY DEF MouseMoves, HoverInv, TypeOK
<1>3. /\ Sound(a, points, visible) /\ LitBy(a, Item(to))
      /\ a \in HoverStates
      /\ a.hoverPoint \in {None, ui.hoverPoint}
      /\ a.following = ui.following
      /\ Quiet(ui) => Quiet(a)
      /\ Held(ui) => Held(a)
  BY <1>2, LeavingSound, LeavingHolds DEF HoverInv
<1> HIDE DEF a
<1>4. /\ Sound(b, points, visible) /\ LitBy(b, Item(to))
      /\ b \in HoverStates
      /\ to.at # "out" => b = a
      /\ to.at = "out" => Quiet(b) /\ b.hoverPoint = None
  <2>1. Sound(b, points, visible) /\ LitBy(b, Item(to))
    BY <1>3, ContainerLeaveSound
  <2>2. CASE to.at = "out" /\ mouse.at # "out"
    BY <1>3, <2>1, <2>2, ResetHides DEF ContainerLeave
  <2>3. CASE to.at = "out" /\ mouse.at = "out"
    BY <1>2, <1>3, <2>1, <2>3 DEF ContainerLeave, OwnInv
  <2>4. CASE to.at # "out"
    BY <1>3, <2>1, <2>4 DEF ContainerLeave
  <2> QED
    BY <2>2, <2>3, <2>4
<1> HIDE DEF b
<1>5. /\ Sound(d, points, visible)
      /\ d \in HoverStates
      /\ d.hoverPoint \in {None, b.hoverPoint}
      /\ d.following = b.following
      /\ Quiet(b) => Quiet(d)
      /\ Held(b) => Held(d)
  BY <1>2, <1>4, EnteringSound, EnteringHolds DEF TypeOK, MouseMoves
<1> HIDE DEF d
<1>6. ui' = Moving(d, to, steps)
  BY <1>1 DEF a, b, d
<1>7. CASE to.at = "out"
  <2>1. ui' \in {d, Reset(d)}
    BY <1>6, <1>7 DEF Moving, DocumentMove
  <2>2. Quiet(ui') /\ ui'.hoverPoint = None
    BY <1>4, <1>5, <1>7, <2>1, ResetHides
  <2> QED
    BY <2>2 DEF OwnInv, Quiet
<1>8. CASE to.at = "plot"
  <2>1. ui' = RunPointActions(d, to.x, steps) /\ to.x \in Columns
    BY <1>6, <1>8 DEF Moving, DocumentMove, MousePlaces
  <2>2. d.hoverPoint # None => d.following
    BY <1>3, <1>4, <1>5, <1>8 DEF OwnInv
  <2>3. /\ Held(d) => Held(ui')
        /\ ui'.hoverPoint # None => ui'.following
    BY <1>2, <1>5, <2>1, <2>2, RunPointActionsHolds
  <2>4. Held(ui) => Held(d)
    BY <1>3, <1>4, <1>5, <1>8
  <2>5. Held(ui) \/ owed
    BY <1>2 DEF OwnInv, Held
  <2> QED
    BY <1>2, <1>8, <2>3, <2>4, <2>5 DEF OwnInv, Held, Quiet
<1>9. CASE to.at \notin {"out", "plot"}
  <2>1. ui' = IF d.following /\ d.hoverSeries # None THEN Reset(d) ELSE d
    BY <1>6, <1>9 DEF Moving, DocumentMove
  <2>2. d.hoverPoint # None => d.following /\ d.hoverSeries # None
    <3>1. d.hoverPoint # None => d.following
      BY <1>3, <1>4, <1>5, <1>9 DEF OwnInv
    <3>2. d.hoverPoint # None => SeriesOf(d.hoverPoint) # None
      BY <1>5, HoverAssumption DEF HoverStates, Points, SeriesOf
    <3> QED
      BY <1>5, <3>1, <3>2 DEF Sound
  <2>3. CASE d.following /\ d.hoverSeries # None
    BY <1>5, <2>1, <2>3, ResetHides DEF OwnInv, Quiet
  <2>4. CASE ~(d.following /\ d.hoverSeries # None)
    <3>1. ui' = d /\ d.hoverPoint = None
      BY <2>1, <2>2, <2>4
    <3>2. Quiet(d) \/ ~Held(ui)
      BY <1>3, <1>4, <1>5, <1>9, <2>4 DEF Held
    <3>3. Held(ui) \/ owed
      BY <1>2 DEF OwnInv, Held
    <3> QED
      BY <1>2, <1>9, <3>1, <3>2, <3>3 DEF OwnInv, Held, Quiet
  <2> QED
    BY <2>3, <2>4
<1> QED
  BY <1>7, <1>8, <1>9

(* What a change does before it finishes may leave the tooltip without its *)
(* series, but starts no tooltip.                                          *)
LEMMA FinishOwns ==
  ASSUME OwnInv, ui \in HoverStates, alive, NEW shown, NEW kept,
         NEW unfilled, NEW arrays, NEW box, NEW redraw \in BOOLEAN,
         NEW u \in HoverStates, Sound(u, kept, shown), kept \subseteq Points,
         u.hoverPoint \in {None, ui.hoverPoint}, u.following = ui.following,
         Quiet(ui) => Quiet(u),
         Finish(shown, kept, unfilled, arrays, u, box, redraw)
  PROVE  OwnInv'
<1>1. owed' = ~redraw /\ alive' = alive /\ mouse' = mouse
  BY DEF Finish
<1>2. CASE ~redraw
  <2>1. ui' = u
    BY <1>2 DEF Finish
  <2> QED
    BY <1>1, <1>2, <2>1 DEF OwnInv, Quiet, Held
<1>3. CASE redraw
  <2>1. PICK axes \in {TRUE, box}, moved \in BOOLEAN, steps \in 0 .. Glide :
          ui' = Redrawn(u, axes, moved, steps)
    BY <1>3 DEF Finish
  <2>2. \/ Quiet(ui') /\ ui'.hoverPoint = None
        \/ /\ u.hoverPoint # None /\ ui'.hoverPoint = u.hoverPoint
           /\ ui'.hoverSeries = u.hoverSeries /\ ui'.following = u.following
    BY <2>1, RedrawnHolds
  <2>3. u.hoverPoint # None => u.hoverSeries # None
    BY HoverAssumption DEF Sound, Points, SeriesOf
  <2> QED
    BY <1>1, <2>2, <2>3 DEF OwnInv, Quiet, Held
<1> QED
  BY <1>2, <1>3

LEMMA WithoutPointsHolds ==
  ASSUME NEW u \in HoverStates, NEW gone
  PROVE  LET v == WithoutPoints(u, gone)
         IN /\ v \in HoverStates
            /\ v.hoverPoint \in {None, u.hoverPoint}
            /\ v.following = u.following
            /\ Quiet(u) => Quiet(v)
BY DEF WithoutPoints, PointOut, Quiet, HoverStates

LEMMA UpdateOwns == HoverInv /\ OwnInv /\ Update => OwnInv'
<1> SUFFICES ASSUME HoverInv, OwnInv, Update PROVE OwnInv'
  OBVIOUS
<1>0. /\ ui \in HoverStates /\ points \in SUBSET Points
      /\ alive => Sound(ui, points, visible)
  BY DEF HoverInv, TypeOK
<1>1. CASE Redraw
  BY <1>0, <1>1, FinishOwns DEF Redraw
<1>2. ASSUME NEW s \in Series, NEW show \in BOOLEAN, NEW redraw \in BOOLEAN,
             SetVisible(s, show, redraw)
      PROVE  OwnInv'
  <2> DEFINE u == IF ui.hoverSeries = s THEN SeriesOut(ui) ELSE ui
  <2>1. alive /\ Finish(Shown(s, show), points, refill, tracked, u, TRUE, redraw)
    BY <1>2 DEF SetVisible
  <2>2. Sound(u, points, Shown(s, show))
    <3>1. CASE ui.hoverSeries = s
      <4>1. /\ Sound(SeriesOut(ui), points, visible)
            /\ SeriesOut(ui).hoverSeries = None /\ SeriesOut(ui).hoverPoint = None
        BY <1>0, <2>1, SeriesOutSound
      <4> QED
        BY <3>1, <4>1 DEF Sound
    <3>2. CASE ui.hoverSeries # s
      BY <1>0, <2>1, <3>2 DEF Sound, Shown
    <3> QED
      BY <3>1, <3>2
  <2>3. /\ u \in HoverStates
        /\ u.hoverPoint \in {None, ui.hoverPoint} /\ u.following = ui.following
        /\ Quiet(ui) => Quiet(u)
    BY <1>0, SeriesOutHides
  <2> HIDE DEF u
  <2> QED
    BY <1>0, <2>1, <2>2, <2>3, FinishOwns
<1>3. ASSUME NEW p \in Changing \X Columns, NEW redraw \in BOOLEAN,
             RemovePoint(p, redraw)
      PROVE  OwnInv'
  <2> DEFINE u == WithoutPoints(ui, {p})
             kept == points \ {p}
  <2>1. alive /\ Finish(visible, kept, refill, tracked, u, FALSE, redraw)
    BY <1>3 DEF RemovePoint
  <2>2. Sound(u, kept, visible) /\ kept \subseteq Points
    BY <1>0, <2>1, WithoutPointsSound
  <2>3. /\ u \in HoverStates
        /\ u.hoverPoint \in {None, ui.hoverPoint} /\ u.following = ui.following
        /\ Quiet(ui) => Quiet(u)
    BY <1>0, WithoutPointsHolds
  <2> HIDE DEF u, kept
  <2> QED
    BY <1>0, <2>1, <2>2, <2>3, FinishOwns
<1>4. ASSUME NEW s \in Changing, NEW redraw \in BOOLEAN, SetData(s, redraw)
      PROVE  OwnInv'
  <2> DEFINE u == WithoutPoints(ui, PointsOf(s))
  <2>1. alive /\ Finish(visible, points \ PointsOf(s), refill \cup {s},
                        tracked \ PointsOf(s), u, TRUE, redraw)
    BY <1>4 DEF SetData
  <2>2. /\ Sound(u, points \ PointsOf(s), visible)
        /\ points \ PointsOf(s) \subseteq Points
    BY <1>0, <2>1, WithoutPointsSound
  <2>3. /\ u \in HoverStates
        /\ u.hoverPoint \in {None, ui.hoverPoint} /\ u.following = ui.following
        /\ Quiet(ui) => Quiet(u)
    BY <1>0, WithoutPointsHolds
  <2> HIDE DEF u
  <2> QED
    BY <1>0, <2>1, <2>2, <2>3, FinishOwns
<1>5. CASE Destroy
  <2>1. Update /\ HoverInv'
    BY <1>5, UpdateKeeps
  <2>2. ~alive'
    BY <1>5 DEF Destroy
  <2> QED
    BY <2>1, <2>2 DEF HoverInv, OwnInv
<1> QED
  BY <1>1, <1>2, <1>3, <1>4, <1>5 DEF Update

LEMMA TimersOwn ==
  HoverInv /\ OwnInv /\ (HideTimer \/ FadeEnds \/ MoveTimer) => OwnInv'
<1> SUFFICES ASSUME HoverInv, OwnInv, HideTimer \/ FadeEnds \/ MoveTimer
             PROVE  OwnInv'
  OBVIOUS
<1>1. UNCHANGED <<alive, mouse, owed>> /\ ui \in HoverStates
  BY DEF HideTimer, FadeEnds, MoveTimer, HoverInv, TypeOK
<1>2. /\ ui'.hoverPoint = ui.hoverPoint /\ ui'.hoverSeries = ui.hoverSeries
      /\ ui'.following = ui.following
      /\ Quiet(ui) => Quiet(ui')
  <2>1. CASE HideTimer
    BY <1>1, <2>1 DEF HideTimer, Quiet, HoverStates
  <2>2. CASE FadeEnds
    BY <1>1, <2>2 DEF FadeEnds, Quiet, HoverStates
  <2>3. CASE MoveTimer
    <3> DEFINE w == [ui EXCEPT !.tooltipTimeout = None]
    <3>1. PICK steps \in 0 .. Glide : ui' = Move(w, ui.tooltipTimeout, steps)
      BY <2>3 DEF MoveTimer
    <3>2. /\ w \in HoverStates /\ ui.tooltipTimeout \in Places
          /\ w.hoverPoint = ui.hoverPoint /\ w.hoverSeries = ui.hoverSeries
          /\ w.following = ui.following
          /\ w.isHidden = ui.isHidden /\ w.hideTimer = ui.hideTimer
      BY <1>1 DEF HoverStates, Places
    <3> HIDE DEF w
    <3> QED
      BY <3>1, <3>2, MoveKeeps DEF Quiet
  <2> QED
    BY <2>1, <2>2, <2>3
<1> QED
  BY <1>1, <1>2 DEF OwnInv, Held

(* However the mouse, the timers and the program's calls interleave, a     *)
(* tooltip that stays is under the mouse or about to be redrawn.           *)
THEOREM TooltipIsOwned == Spec => []TooltipOwned
<1>1. Init => OwnInv
  BY DEF Init, OwnInv, Quiet
<1>2. HoverInv /\ OwnInv /\ [Next]_vars => OwnInv'
  <2> SUFFICES ASSUME HoverInv, OwnInv, [Next]_vars PROVE OwnInv'
    OBVIOUS
  <2>1. CASE UNCHANGED vars
    BY <2>1 DEF vars, OwnInv, Quiet, Held
  <2> QED
    BY <2>1, MouseMovesOwn, UpdateOwns, TimersOwn DEF Next
<1>3. OwnInv => TooltipOwned
  BY DEF OwnInv, TooltipOwned, Quiet
<1> QED
  BY <1>1, <1>2, <1>3, HoverInvariant, PTL DEF Spec

-----------------------------------------------------------------------------
(* Where the tooltip rests                                                 *)

(* The tooltip of a hovered point is at its place or on the way there, and *)
(* a pending step leads there, unless the last refresh left another one.   *)
Rests(u) ==
  (u.hoverPoint # None /\ ~u.leftover) =>
    /\ u.now = u.hoverPoint
    /\ u.tooltipTimeout \in {None, u.hoverPoint}
    /\ u.left > 0 => u.tooltipTimeout = u.hoverPoint

LEMMA MoveLeads ==
  ASSUME NEW u \in HoverStates, NEW place \in Places, NEW steps \in 0 .. Glide
  PROVE  LET m == Move(u, place, steps)
         IN /\ m.now = place /\ m.leftover = u.leftover
            /\ m.tooltipTimeout \in {u.tooltipTimeout, place}
            /\ m.left > 0 => m.tooltipTimeout = place
<1> DEFINE l == IF u.isHidden THEN 0
                ELSE IF u.now = place THEN (IF u.left = 0 THEN 0 ELSE u.left - 1)
                ELSE steps
           t == IF l > 0 THEN place ELSE u.tooltipTimeout
<1>1. t \in {u.tooltipTimeout, place} /\ (l > 0 => t = place)
  OBVIOUS
<1>2. Move(u, place, steps) =
        [u EXCEPT !.now = place, !.left = l, !.tooltipTimeout = t]
  BY DEF Move
<1> HIDE DEF l, t
<1> QED
  BY <1>1, <1>2 DEF HoverStates

LEMMA RefreshRests ==
  ASSUME NEW u \in HoverStates, NEW p \in Points, NEW steps \in 0 .. Glide
  PROVE  LET v == Refresh(u, p, steps)
         IN ~v.leftover => /\ v.now = p
                           /\ v.tooltipTimeout \in {None, p}
                           /\ v.left > 0 => v.tooltipTimeout = p
<1> DEFINE w == [u EXCEPT !.hideTimer = FALSE]
           m == Move(w, p, steps)
<1>1. w \in HoverStates /\ p \in Places
  BY DEF HoverStates, Places
<1> HIDE DEF w
<1>2. /\ m \in HoverStates /\ m.now = p
      /\ m.left > 0 => m.tooltipTimeout = p
  BY <1>1, MoveKeeps, MoveLeads
<1>3. Refresh(u, p, steps) =
        [m EXCEPT !.isHidden = FALSE,
                  !.label = IF u.isHidden THEN "shown" ELSE @,
                  !.leftover = LeavesStep(m, p)]
  BY DEF Refresh, w
<1> HIDE DEF m
<1> DEFINE leaves == LeavesStep(m, p)
<1>4. ~leaves => m.tooltipTimeout \in {None, p}
  <2>1. m.left = 0 \/ m.left > 0
    BY <1>2, HoverAssumption DEF HoverStates
  <2> QED
    BY <1>2, <2>1 DEF LeavesStep
<1>5. Refresh(u, p, steps) =
        [m EXCEPT !.isHidden = FALSE,
                  !.label = IF u.isHidden THEN "shown" ELSE @,
                  !.leftover = leaves]
  BY <1>3
<1> HIDE DEF leaves
<1> DEFINE v == Refresh(u, p, steps)
<1>6. /\ v.leftover = leaves /\ v.now = m.now /\ v.left = m.left
      /\ v.tooltipTimeout = m.tooltipTimeout
  BY <1>2, <1>5 DEF HoverStates
<1> HIDE DEF v
<1> QED
  BY <1>2, <1>4, <1>6 DEF v

LEMMA PointOverRests ==
  ASSUME NEW u \in HoverStates, NEW p \in Points, NEW steps \in 0 .. Glide
  PROVE  PointOver(u, p, steps) \in HoverStates /\ Rests(PointOver(u, p, steps))
<1> DEFINE left == IF u.hoverPoint \notin {None, p} THEN PointOut(u) ELSE u
           r == Refresh(left, p, steps)
<1>1. left \in HoverStates
  BY DEF PointOut, HoverStates
<1> HIDE DEF left
<1>2. /\ r \in HoverStates
      /\ ~r.leftover => /\ r.now = p
                        /\ r.tooltipTimeout \in {None, p}
                        /\ r.left > 0 => r.tooltipTimeout = p
  BY <1>1, RefreshKeeps, RefreshRests
<1>3. PointOver(u, p, steps) = [r EXCEPT !.hot = @ \cup {p}, !.hoverPoint = p]
  BY DEF PointOver, left
<1> HIDE DEF r
<1> DEFINE v == PointOver(u, p, steps)
<1>4. /\ v.hoverPoint = p /\ v.leftover = r.leftover /\ v.now = r.now
      /\ v.left = r.left /\ v.tooltipTimeout = r.tooltipTimeout
  BY <1>2, <1>3 DEF HoverStates
<1> HIDE DEF v
<1>5. v \in HoverStates
  BY PointOverHolds DEF v
<1> QED
  BY <1>2, <1>4, <1>5 DEF Rests, v

LEMMA LeavingRests ==
  ASSUME NEW u \in HoverStates, Rests(u), NEW from, NEW to
  PROVE  Rests(Leaving(u, from, to))
<1> DEFINE off == IF Tracker(from) \notin {None, Tracker(to)}
                    THEN TrackerOut(u) ELSE u
<1>1. off \in HoverStates /\ Rests(off)
  <2>1. off \in {u, SeriesOut(u)}
    BY DEF TrackerOut
  <2> QED
    BY <2>1, SeriesOutHides DEF Rests
<1>2. Leaving(u, from, to) \in {off, LegendOut(off, Item(from))}
  BY DEF Leaving
<1> HIDE DEF off
<1> QED
  BY <1>1, <1>2 DEF LegendOut, Rests, HoverStates

LEMMA EnteringRests ==
  ASSUME NEW u \in HoverStates, Rests(u), NEW from, NEW to \in MousePlaces
  PROVE  Rests(Entering(u, from, to))
<1> DEFINE on == IF Tracker(to) \notin {None, Tracker(from), u.hoverSeries}
                   THEN SeriesOver(u, Tracker(to)) ELSE u
<1>1. on \in HoverStates /\ Rests(on)
  <2>1. CASE on = u
    BY <2>1
  <2>2. CASE on = SeriesOver(u, Tracker(to)) /\ Tracker(to) # None
    <3> DEFINE s == Tracker(to)
               left == IF u.hoverSeries \notin {None, s} THEN SeriesOut(u) ELSE u
    <3>1. left \in HoverStates /\ Rests(left)
      BY SeriesOutHides DEF Rests
    <3>2. on = [left EXCEPT !.lit = @ \cup {s}, !.hoverSeries = s]
      BY <2>2 DEF SeriesOver
    <3>3. s \in Series
      BY <2>2 DEF Tracker, MousePlaces
    <3> HIDE DEF left
    <3>4. left.lit \cup {s} \in SUBSET Series
      BY <3>1, <3>3 DEF HoverStates
    <3> HIDE DEF on, s
    <3> QED
      BY <3>1, <3>2, <3>3, <3>4 DEF Rests, HoverStates
  <2> QED
    BY <2>1, <2>2
<1>2. Entering(u, from, to) \in {on, LegendOver(on, Item(to))}
  BY DEF Entering
<1> HIDE DEF on
<1> QED
  BY <1>1, <1>2 DEF LegendOver, Rests, HoverStates

LEMMA RunPointActionsRests ==
  ASSUME TypeOK, NEW u \in HoverStates, Rests(u),
         NEW x \in Columns, NEW steps \in 0 .. Glide
  PROVE  /\ RunPointActions(u, x, steps) \in HoverStates
         /\ Rests(RunPointActions(u, x, steps))
<1> DEFINE p == IF u.hoverSeries = None THEN None ELSE TooltipPoint(u.hoverSeries, x)
           w == PointOver(u, p, steps)
           v == RunPointActions(u, x, steps)
<1>1. CASE v \in {u, [u EXCEPT !.following = TRUE]}
  BY <1>1 DEF Rests, HoverStates
<1>2. CASE v = [w EXCEPT !.following = TRUE] /\ p \in points
  <2>1. p \in Points
    BY <1>2 DEF TypeOK
  <2> HIDE DEF p
  <2>2. w \in HoverStates /\ Rests(w)
    BY <2>1, PointOverRests
  <2> HIDE DEF w
  <2> QED
    BY <1>2, <2>2 DEF Rests, HoverStates
<1>3. v \in {u, [u EXCEPT !.following = TRUE]}
        \/ (v = [w EXCEPT !.following = TRUE] /\ p \in points)
  BY DEF RunPointActions
<1> QED
  BY <1>1, <1>2, <1>3

(* Whatever was hovered, a redraw moves the tooltip to its place anew.     *)
LEMMA RedrawnRests ==
  ASSUME NEW u \in HoverStates, NEW axes, NEW moved, NEW steps \in 0 .. Glide
  PROVE  Rests(Redrawn(u, axes, moved, steps))
<1> DEFINE first == IF axes THEN ResetKeeping(u, steps) ELSE u
           laid  == IF axes /\ moved
                      THEN [first EXCEPT !.now = Replaced(@),
                                         !.tooltipTimeout = Replaced(@)]
                      ELSE first
<1>1. \A w \in HoverStates :
        ResetKeeping(w, steps) \in HoverStates /\ Rests(ResetKeeping(w, steps))
  <2> SUFFICES ASSUME NEW w \in HoverStates
               PROVE  /\ ResetKeeping(w, steps) \in HoverStates
                      /\ Rests(ResetKeeping(w, steps))
    OBVIOUS
  <2>1. CASE w.hoverPoint # None
    <3>1. ResetKeeping(w, steps) = Refresh(w, w.hoverPoint, steps)
      BY <2>1 DEF ResetKeeping
    <3>2. w.hoverPoint \in Points
      BY <2>1 DEF HoverStates
    <3> QED
      BY <3>1, <3>2, RefreshKeeps, RefreshRests DEF Rests
  <2>2. CASE w.hoverPoint = None
    BY <2>2, ResetHides DEF ResetKeeping, Rests
  <2> QED
    BY <2>1, <2>2
<1>2. first \in HoverStates
  BY <1>1
<1>3. Redrawn(u, axes, moved, steps) = ResetKeeping(laid, steps)
  BY DEF Redrawn
<1> HIDE DEF first
<1>4. laid \in HoverStates
  <2>1. \A place : Replaced(place) \in Places
    BY DEF Replaced, Places
  <2> QED
    BY <1>2, <2>1 DEF HoverStates
<1> HIDE DEF laid
<1> QED
  BY <1>1, <1>3, <1>4

RestInv == Rests(ui)

LEMMA MouseMovesRests ==
  ASSUME HoverInv, Rests(ui), NEW to \in MousePlaces, MouseMoves(to)
  PROVE  Rests(ui')
<1>1. PICK steps \in 0 .. Glide :
        ui' = Moving(Entering(ContainerLeave(Leaving(ui, mouse, to), mouse, to),
                              mouse, to), to, steps)
  BY DEF MouseMoves
<1> DEFINE a == Leaving(ui, mouse, to)
           b == ContainerLeave(a, mouse, to)
           d == Entering(b, mouse, to)
           w == IF to.at = "plot" THEN RunPointActions(d, to.x, steps) ELSE d
<1>2. a \in HoverStates /\ Rests(a)
  BY LeavingHolds, LeavingRests DEF HoverInv, TypeOK
<1> HIDE DEF a
<1>3. b \in HoverStates /\ Rests(b)
  <2>1. b \in {a, Reset(a)}
    BY DEF ContainerLeave
  <2> QED
    BY <1>2, <2>1, ResetHides DEF Rests
<1> HIDE DEF b
<1>4. d \in HoverStates /\ Rests(d)
  BY <1>3, EnteringHolds, EnteringRests
<1>5. ui' = DocumentMove(w, to)
  BY <1>1 DEF Moving, a, b
<1> HIDE DEF d
<1>6. w \in HoverStates /\ Rests(w)
  <2>1. to.at = "plot" => to.x \in Columns
    BY DEF MousePlaces
  <2> QED
    BY <1>4, <2>1, RunPointActionsRests DEF HoverInv
<1> HIDE DEF w
<1>7. ui' \in {w, Reset(w)}
  BY <1>5 DEF DocumentMove
<1> QED
  BY <1>6, <1>7, ResetHides DEF Rests

LEMMA FinishRests ==
  ASSUME NEW shown, NEW kept, NEW unfilled, NEW arrays, NEW box,
         NEW redraw \in BOOLEAN, NEW u \in HoverStates, Rests(u),
         Finish(shown, kept, unfilled, arrays, u, box, redraw)
  PROVE  Rests(ui')
<1>1. CASE ~redraw
  BY <1>1 DEF Finish
<1>2. CASE redraw
  <2>1. PICK axes \in {TRUE, box}, moved \in BOOLEAN, steps \in 0 .. Glide :
          ui' = Redrawn(u, axes, moved, steps)
    BY <1>2 DEF Finish
  <2> QED
    BY <2>1, RedrawnRests
<1> QED
  BY <1>1, <1>2

LEMMA UpdateRests == HoverInv /\ Rests(ui) /\ Update => Rests(ui')
<1> SUFFICES ASSUME HoverInv, Rests(ui), Update PROVE Rests(ui')
  OBVIOUS
<1>0. ui \in HoverStates
  BY DEF HoverInv, TypeOK
<1>1. CASE Redraw
  BY <1>0, <1>1, FinishRests DEF Redraw
<1>2. ASSUME NEW s \in Series, NEW show \in BOOLEAN, NEW redraw \in BOOLEAN,
             SetVisible(s, show, redraw)
      PROVE  Rests(ui')
  <2> DEFINE u == IF ui.hoverSeries = s THEN SeriesOut(ui) ELSE ui
  <2>1. Finish(Shown(s, show), points, refill, tracked, u, TRUE, redraw)
    BY <1>2 DEF SetVisible
  <2>2. u \in HoverStates /\ Rests(u)
    BY <1>0, SeriesOutHides DEF Rests
  <2> HIDE DEF u
  <2> QED
    BY <2>1, <2>2, FinishRests
<1>3. \A gone : /\ WithoutPoints(ui, gone) \in HoverStates
                /\ Rests(WithoutPoints(ui, gone))
  BY <1>0 DEF WithoutPoints, PointOut, Rests, HoverStates
<1>4. ASSUME NEW p \in Changing \X Columns, NEW redraw \in BOOLEAN,
             RemovePoint(p, redraw)
      PROVE  Rests(ui')
  BY <1>3, <1>4, FinishRests DEF RemovePoint
<1>5. ASSUME NEW s \in Changing, NEW redraw \in BOOLEAN, SetData(s, redraw)
      PROVE  Rests(ui')
  BY <1>3, <1>5, FinishRests DEF SetData
<1>6. CASE Destroy
  <2>1. ~alive' /\ HoverInv'
    BY <1>6, UpdateKeeps DEF Destroy, Update
  <2> QED
    BY <2>1 DEF HoverInv, Rests
<1> QED
  BY <1>1, <1>2, <1>4, <1>5, <1>6 DEF Update

LEMMA TimersRest ==
  HoverInv /\ Rests(ui) /\ (HideTimer \/ FadeEnds \/ MoveTimer) => Rests(ui')
<1> SUFFICES ASSUME HoverInv, Rests(ui), HideTimer \/ FadeEnds \/ MoveTimer
             PROVE  Rests(ui')
  OBVIOUS
<1>0. ui \in HoverStates
  BY DEF HoverInv, TypeOK
<1>1. CASE HideTimer \/ FadeEnds
  BY <1>0, <1>1 DEF HideTimer, FadeEnds, Rests, HoverStates
<1>2. CASE MoveTimer
  <2> DEFINE w == [ui EXCEPT !.tooltipTimeout = None]
  <2>1. PICK steps \in 0 .. Glide : ui' = Move(w, ui.tooltipTimeout, steps)
    BY <1>2 DEF MoveTimer
  <2>2. /\ w \in HoverStates /\ ui.tooltipTimeout \in Places
        /\ ui.tooltipTimeout # None
        /\ w.hoverPoint = ui.hoverPoint /\ w.leftover = ui.leftover
        /\ w.tooltipTimeout = None
    BY <1>0, <1>2 DEF MoveTimer, HoverStates, Places
  <2> HIDE DEF w
  <2>3. /\ ui'.hoverPoint = ui.hoverPoint /\ ui'.leftover = ui.leftover
        /\ ui'.now = ui.tooltipTimeout
        /\ ui'.tooltipTimeout \in {None, ui.tooltipTimeout}
        /\ ui'.left > 0 => ui'.tooltipTimeout = ui.tooltipTimeout
    BY <2>1, <2>2, MoveKeeps, MoveLeads
  <2> QED
    BY <2>2, <2>3 DEF Rests
<1> QED
  BY <1>1, <1>2

(* A tooltip that no timer moves any more rests at the hovered point, if   *)
(* the last refresh did not leave a step running for another place.        *)
THEOREM TooltipRests == Spec => []RestsWhereAsked
<1>1. Init => RestInv
  BY DEF Init, RestInv, Rests
<1>2. HoverInv /\ RestInv /\ [Next]_vars => RestInv'
  BY MouseMovesRests, UpdateRests, TimersRest DEF Next, vars, RestInv
<1>3. HoverInv /\ RestInv => RestsWhereAsked
  <2> SUFFICES ASSUME HoverInv, Rests(ui) PROVE RestsWhereAsked
    BY DEF RestInv
  <2>1. ui.left \in 0 .. Glide
    BY DEF HoverInv, TypeOK, HoverStates
  <2> QED
    BY <2>1, HoverAssumption DEF Rests, RestsWhereAsked
<1> QED
  BY <1>1, <1>2, <1>3, HoverInvariant, PTL DEF Spec

-----------------------------------------------------------------------------
(* Entering a line                                                         *)

LEMMA EnteringLineShows ==
  ASSUME HoverInv, NEW to \in MousePlaces, MouseMoves(to),
         Tracker(to) \notin {None, Tracker(mouse)},
         TooltipPoint(Tracker(to), to.x) \in points
  PROVE  /\ ui'.hoverPoint = TooltipPoint(Tracker(to), to.x)
         /\ ui'.label = "shown"
<1>1. PICK steps \in 0 .. Glide :
        ui' = Moving(Entering(ContainerLeave(Leaving(ui, mouse, to), mouse, to),
                              mouse, to), to, steps)
  BY DEF MouseMoves
<1> DEFINE a == Leaving(ui, mouse, to)
           b == ContainerLeave(a, mouse, to)
           d == Entering(b, mouse, to)
           p == TooltipPoint(Tracker(to), to.x)
<1>2. /\ TypeOK /\ to.at = "plot" /\ to.x \in Columns
      /\ p # None
  BY HoverAssumption DEF HoverInv, TypeOK, Tracker, MousePlaces, Points
<1>3. Sound(a, points, visible) /\ LitBy(a, Item(to))
  BY LeavingSound DEF HoverInv, MouseMoves
<1> HIDE DEF a
<1>4. Sound(b, points, visible) /\ LitBy(b, Item(to))
  BY <1>3, ContainerLeaveSound
<1> HIDE DEF b
<1>5. Sound(d, points, visible)
  BY <1>2, <1>4, EnteringSound DEF TypeOK, MouseMoves
<1>6. d.hoverSeries = Tracker(to)
  BY <1>4, EnteringHolds DEF Sound
<1>7. ui' = RunPointActions(d, to.x, steps)
  BY <1>1, <1>2 DEF Moving, DocumentMove, a, b
<1> HIDE DEF d
<1>8. CASE p = d.hoverPoint
  <2>1. ui' = [d EXCEPT !.following = TRUE]
    BY <1>6, <1>7, <1>8 DEF RunPointActions
  <2> QED
    BY <1>2, <1>5, <1>8, <2>1 DEF Sound, HoverStates
<1>9. CASE p # d.hoverPoint
  <2>1. ui' = [PointOver(d, p, steps) EXCEPT !.following = TRUE]
    BY <1>2, <1>6, <1>7, <1>9 DEF RunPointActions
  <2>2. SeriesOf(p) = d.hoverSeries /\ points \in SUBSET Points
    BY <1>2, <1>6, TooltipPointOfSeries DEF TypeOK
  <2> HIDE DEF p
  <2>3. /\ Sound(PointOver(d, p, steps), points, visible)
        /\ PointOver(d, p, steps).hoverPoint = p
    BY <1>5, <2>2, PointOverSound DEF p
  <2> QED
    BY <1>2, <2>1, <2>3 DEF Sound, HoverStates, p
<1> QED
  BY <1>8, <1>9

(* The mouse that enters the line of a series sees the tooltip of its      *)
(* nearest point, whatever timer or fade was about to take the last away.  *)
THEOREM EnteringShows == Spec => EnterShows
<1>1. HoverInv /\ [Next]_vars =>
        [\A to \in MousePlaces :
           LET s == Tracker(to)
           IN (MouseMoves(to) /\ s \notin {None, Tracker(mouse)}
                 /\ TooltipPoint(s, to.x) \in points) =>
                (ui'.hoverPoint = TooltipPoint(s, to.x) /\ ui'.label = "shown")]_vars
  BY EnteringLineShows
<1> QED
  BY <1>1, HoverInvariant, PTL DEF Spec, EnterShows

=============================================================================

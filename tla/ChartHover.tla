---------------------------- MODULE ChartHover -----------------------------
(***************************************************************************)
(* What a chart of web/js/highcharts.js does while the mouse is over it:   *)
(* the Pointer's handlers, the hovered series and point, their highlight,  *)
(* and the Tooltip with its three delayed parts, the timer that hides it,  *)
(* the fade this timer starts, and the timer that lets it glide to its     *)
(* place.  The program that owns the chart shows and hides series, removes *)
(* points, sets new data, redraws and destroys the chart at any moment.    *)
(*                                                                         *)
(* The chart is the line chart of web/highcharts.html: several series over *)
(* categories, a tooltip for one point (not shared), a legend, no zoom, no *)
(* point selection.  Only the columns of the categories are x positions.   *)
(*                                                                         *)
(* One movement of the mouse makes the browser call several handlers one   *)
(* after the other with no timer in between.  The handlers are operators   *)
(* from the state of the hovering, the record ui, to the next one, and a   *)
(* movement is one action that composes them in the browser's order.       *)
(***************************************************************************)
EXTENDS Integers, FiniteSets

CONSTANTS Series,    \* the series of the chart
          Columns,   \* the x positions, by number
          Sticky,    \* the series with stickyTracking, the library's default
          Changing,  \* the series whose points change, a bound
          Glide,     \* bound on the steps a gliding tooltip needs
          None

ASSUME HoverAssumption ==
  /\ Columns \subseteq Nat /\ IsFiniteSet(Columns)
  /\ Sticky \subseteq Series /\ Changing \subseteq Series
  /\ Glide \in Nat
  /\ None \notin Series /\ None \notin Series \X Columns

Points == Series \X Columns

SeriesOf(p) == p[1]

ColumnOf(p) == p[2]

PointsOf(s) == {s} \X Columns

(* A place of the tooltip is named by the point it belongs to; a place     *)
(* computed under a layout that a redraw has replaced is Elsewhere.        *)
Elsewhere == <<None, None>>

Places == Points \cup {Elsewhere, None}

VARIABLES
  alive,      \* whether the chart exists
  mouse,      \* where the mouse is
  visible,    \* the visible series
  points,     \* the Point objects that have not been destroyed
  refill,     \* series with new data whose points are created when drawn
  tracked,    \* the points in the arrays tooltipPoints
  owed,       \* whether something has changed since the last redraw
  ui          \* the state of the hovering

vars == <<alive, mouse, visible, points, refill, tracked, owed, ui>>

(* The mouse outside of the container, inside it but outside of the plot,  *)
(* on the legend's item of a series, or in the plot, perhaps on a tracker. *)
MousePlaces ==
  [at : {"out", "margin"}, over : {None}, x : {None}]
    \cup [at : {"legend"}, over : Series, x : {None}]
    \cup [at : {"plot"}, over : Series \cup {None}, x : Columns]

Tracker(m) == IF m.at = "plot" THEN m.over ELSE None

Item(m) == IF m.at = "legend" THEN m.over ELSE None

HoverStates ==
  [hoverSeries : Series \cup {None},
   hoverPoint : Points \cup {None},
   hot : SUBSET Points,            \* points whose state is "hover"
   lit : SUBSET Series,            \* series whose state is "hover"
   following : BOOLEAN,            \* _onDocumentMouseMove is bound
   isHidden : BOOLEAN,
   hideTimer : BOOLEAN,
   label : {"hidden", "shown", "fading", "destroyed"},
   now : Places,                   \* the place the last move() was for
   left : 0 .. Glide,              \* steps to it, 0 within a pixel of it
   tooltipTimeout : Places,        \* the place of the pending step, if any
   leftover : BOOLEAN]             \* the last refresh left a step pending
                                   \* that is for another place (history)

TypeOK ==
  /\ alive \in BOOLEAN
  /\ mouse \in MousePlaces
  /\ visible \subseteq Series
  /\ points \subseteq Points
  /\ refill \subseteq Series
  /\ tracked \subseteq Points
  /\ owed \in BOOLEAN
  /\ ui \in HoverStates

Init ==
  /\ alive = TRUE
  /\ mouse = [at |-> "out", over |-> None, x |-> None]
  /\ visible = Series
  /\ points = Points
  /\ refill = {}
  /\ tracked = Points
  /\ owed = FALSE
  /\ ui = [hoverSeries |-> None, hoverPoint |-> None, hot |-> {}, lit |-> {},
           following |-> FALSE, isHidden |-> TRUE, hideTimer |-> FALSE,
           label |-> "hidden", now |-> None, left |-> 0,
           tooltipTimeout |-> None, leftover |-> FALSE]

-----------------------------------------------------------------------------
(* Tooltip                                                                 *)

(* move(): jumps when the tooltip is hidden, else does one step of the     *)
(* way, of which `steps` are left if this is a new place.  Only a move     *)
(* that still has to go on clears the pending step, to schedule its own.   *)
Move(u, place, steps) ==
  LET left == IF u.isHidden THEN 0
              ELSE IF u.now = place THEN (IF u.left = 0 THEN 0 ELSE u.left - 1)
              ELSE steps
  IN [u EXCEPT !.now = place,
               !.left = left,
               !.tooltipTimeout = IF left > 0 THEN place ELSE @]

LeavesStep(u, place) ==
  u.left = 0 /\ u.tooltipTimeout \notin {None, place}

(* Faulty variant: a fade that has begun is not stopped.                   *)
RefreshKeepingFade(u, p, steps) ==
  LET moved == Move([u EXCEPT !.hideTimer = FALSE], p, steps)
  IN [moved EXCEPT !.isHidden = FALSE,
                   !.label = IF u.isHidden /\ @ = "hidden" THEN "shown" ELSE @,
                   !.leftover = LeavesStep(moved, p)]

(* refresh(): the place is computed while isHidden still has its old value.*)
Refresh(u, p, steps) ==
  LET moved == Move([u EXCEPT !.hideTimer = FALSE], p, steps)
  IN [moved EXCEPT !.isHidden = FALSE,
                   !.label = IF u.isHidden THEN "shown" ELSE @,
                   !.leftover = LeavesStep(moved, p)]

(* Faulty variant: hiding twice cancels the timer.                         *)
HideOnce(u) == [u EXCEPT !.hideTimer = ~u.isHidden /\ ~u.hideTimer]

(* hide(): the pending timer is replaced by a new one.                     *)
Hide(u) == [u EXCEPT !.hideTimer = ~u.isHidden]

-----------------------------------------------------------------------------
(* Hovered point and series                                                *)

PointOut(u) == [u EXCEPT !.hot = @ \ {u.hoverPoint}, !.hoverPoint = None]

PointOver(u, p, steps) ==
  LET left == IF u.hoverPoint \notin {None, p} THEN PointOut(u) ELSE u
  IN [Refresh(left, p, steps) EXCEPT !.hot = @ \cup {p}, !.hoverPoint = p]

(* onMouseOut of the hovered series; without stickyTracking it hides the   *)
(* tooltip.                                                                *)
SeriesOut(u) ==
  LET out    == IF u.hoverPoint # None THEN PointOut(u) ELSE u
      hiding == IF u.hoverSeries \in Sticky THEN out ELSE Hide(out)
  IN [hiding EXCEPT !.lit = @ \ {u.hoverSeries}, !.hoverSeries = None]

(* Faulty variant: the series hovered before is only replaced.             *)
SeriesOverOnly(u, s) == [u EXCEPT !.lit = @ \cup {s}, !.hoverSeries = s]

SeriesOver(u, s) ==
  LET left == IF u.hoverSeries \notin {None, s} THEN SeriesOut(u) ELSE u
  IN [left EXCEPT !.lit = @ \cup {s}, !.hoverSeries = s]

LegendOver(u, s) == [u EXCEPT !.lit = @ \cup {s}]

LegendOut(u, s) == [u EXCEPT !.lit = @ \ {s}]

-----------------------------------------------------------------------------
(* Pointer                                                                 *)

(* reset()                                                                 *)
Reset(u) ==
  LET out == IF u.hoverPoint # None THEN PointOut(u) ELSE u
      off == IF out.hoverSeries # None THEN SeriesOut(out) ELSE out
  IN [Hide(off) EXCEPT !.following = FALSE]

(* Faulty variant: a redraw leaves the tooltip of a hovered point alone.   *)
ResetInPlace(u, steps) == IF u.hoverPoint # None THEN u ELSE Reset(u)

(* reset(true), which a redraw calls.  Nothing is cropped or zoomed, so    *)
(* that the hovered point has always a place.                              *)
ResetKeeping(u, steps) ==
  IF u.hoverPoint # None THEN Refresh(u, u.hoverPoint, steps) ELSE Reset(u)

(* onTrackerMouseOut(); the element the mouse goes to names no point in a  *)
(* line chart.  A movement onto the tooltip, which would keep a series     *)
(* without stickyTracking hovered, is left out.                            *)
TrackerOut(u) ==
  IF u.hoverSeries # None /\ u.hoverSeries \notin Sticky
    THEN SeriesOut(u) ELSE u

Distance(p, x) == IF ColumnOf(p) < x THEN x - ColumnOf(p) ELSE ColumnOf(p) - x

(* tooltipPoints[x] of a series, filled by setTooltipPoints(): the nearest *)
(* point, the left one of two.                                             *)
TooltipPoint(s, x) ==
  LET all     == tracked \cap PointsOf(s)
      nearest == {p \in all : \A q \in all : Distance(p, x) <= Distance(q, x)}
  IN IF all = {} THEN None
     ELSE CHOOSE p \in nearest : \A q \in nearest : ColumnOf(p) <= ColumnOf(q)

(* runPointActions(): the array may still hold a destroyed point, whose    *)
(* methods are gone, and the handler ends with an exception.               *)
RunPointActions(u, x, steps) ==
  LET p == IF u.hoverSeries = None THEN None ELSE TooltipPoint(u.hoverSeries, x)
  IN CASE p \in {None, u.hoverPoint} -> [u EXCEPT !.following = TRUE]
       [] p \in points /\ p # u.hoverPoint ->
            [PointOver(u, p, steps) EXCEPT !.following = TRUE]
       [] OTHER -> u

(* onDocumentMouseMove(), as long as it is bound                           *)
DocumentMove(u, to) ==
  IF u.following /\ u.hoverSeries # None /\ to.at # "plot" THEN Reset(u) ELSE u

(* What the browser calls: the element left, the container left, the       *)
(* element entered, then mousemove at the container and at the document.   *)
Leaving(u, from, to) ==
  LET off == IF Tracker(from) \notin {None, Tracker(to)} THEN TrackerOut(u)
             ELSE u
  IN IF Item(from) \notin {None, Item(to)} THEN LegendOut(off, Item(from))
     ELSE off

(* Faulty variant: nobody notices that the mouse has left the container.   *)
ContainerLeaveUnseen(u, from, to) == u

ContainerLeave(u, from, to) ==
  IF from.at # "out" /\ to.at = "out" THEN Reset(u) ELSE u

Entering(u, from, to) ==
  LET on == IF Tracker(to) \notin {None, Tracker(from), u.hoverSeries}
              THEN SeriesOver(u, Tracker(to)) ELSE u
  IN IF Item(to) \notin {None, Item(from)} THEN LegendOver(on, Item(to)) ELSE on

Moving(u, to, steps) ==
  DocumentMove(IF to.at = "plot" THEN RunPointActions(u, to.x, steps) ELSE u, to)

MouseMoves(to) ==
  /\ alive
  /\ Tracker(to) \in visible \cup {None}
  /\ mouse' = to
  /\ \E steps \in 0 .. Glide :
       ui' = Moving(Entering(ContainerLeave(Leaving(ui, mouse, to), mouse, to),
                             mouse, to), to, steps)
  /\ UNCHANGED <<alive, visible, points, refill, tracked, owed>>

-----------------------------------------------------------------------------
(* The program that owns the chart                                         *)

(* redraw(): the axes, when they are drawn again, and then the chart reset *)
(* the pointer; in between the visible series are placed anew, perhaps at  *)
(* other places than before.                                               *)
Replaced(place) == IF place = None THEN None ELSE Elsewhere

Redrawn(u, axes, moved, steps) ==
  LET first == IF axes THEN ResetKeeping(u, steps) ELSE u
      laid  == IF axes /\ moved
                 THEN [first EXCEPT !.now = Replaced(@),
                                    !.tooltipTimeout = Replaced(@)]
                 ELSE first
  IN ResetKeeping(laid, steps)

(* What every change ends with: a redraw, of the axes too if the change    *)
(* marks the box, or none when it was called with redraw = false.          *)
Finish(shown, kept, unfilled, arrays, u, box, redraw) ==
  /\ visible' = shown
  /\ IF redraw
       THEN LET drawn == kept \cup UNION {PointsOf(s) : s \in unfilled \cap shown}
            IN /\ points' = drawn
               /\ refill' = unfilled \ shown
               /\ tracked' = {p \in drawn : SeriesOf(p) \in shown}
                               \cup {p \in arrays : SeriesOf(p) \notin shown}
               /\ \E axes \in {TRUE, box}, moved \in BOOLEAN, steps \in 0 .. Glide :
                    ui' = Redrawn(u, axes, moved, steps)
       ELSE points' = kept /\ refill' = unfilled /\ tracked' = arrays /\ ui' = u
  /\ owed' = ~redraw
  /\ UNCHANGED <<alive, mouse>>

Redraw ==
  /\ alive
  /\ Finish(visible, points, refill, tracked, ui, FALSE, TRUE)

Shown(s, show) == IF show THEN visible \cup {s} ELSE visible \ {s}

SetVisible(s, show, redraw) ==
  /\ alive
  /\ Finish(Shown(s, show), points, refill, tracked,
            IF ui.hoverSeries = s THEN SeriesOut(ui) ELSE ui, TRUE, redraw)

(* Faulty variant: a destroyed point stays hovered.                        *)
WithoutPointsHovered(u, gone) == u

(* Point.destroy() of each of these points                                 *)
WithoutPoints(u, gone) == IF u.hoverPoint \in gone THEN PointOut(u) ELSE u

RemovePoint(p, redraw) ==
  /\ alive
  /\ p \in points
  /\ Finish(visible, points \ {p}, refill, tracked,
            WithoutPoints(ui, {p}), FALSE, redraw)

(* setData() with another number of points                                 *)
SetData(s, redraw) ==
  /\ alive
  /\ Finish(visible, points \ PointsOf(s), refill \cup {s},
            tracked \ PointsOf(s), WithoutPoints(ui, PointsOf(s)), TRUE, redraw)

(* Faulty variant: the tooltip is destroyed and its timers are not.        *)
DestroyKeepingTimers ==
  /\ alive
  /\ alive' = FALSE
  /\ points' = {} /\ tracked' = {} /\ refill' = {}
  /\ ui' = [WithoutPoints(ui, Points) EXCEPT
              !.hoverSeries = None, !.lit = {}, !.label = "destroyed"]
  /\ UNCHANGED <<mouse, visible, owed>>

(* destroy(): the series with their points, then the label and the timers. *)
(* The document keeps its handler if it is bound; this finds no chart.     *)
Destroy ==
  /\ alive
  /\ alive' = FALSE
  /\ points' = {} /\ tracked' = {} /\ refill' = {}
  /\ ui' = [WithoutPoints(ui, Points) EXCEPT
              !.hoverSeries = None, !.lit = {}, !.label = "destroyed",
              !.hideTimer = FALSE, !.tooltipTimeout = None]
  /\ UNCHANGED <<mouse, visible, owed>>

-----------------------------------------------------------------------------
(* Timers                                                                  *)

HideTimer ==
  /\ ui.hideTimer
  /\ ui' = [ui EXCEPT !.hideTimer = FALSE, !.isHidden = TRUE, !.label = "fading"]
  /\ UNCHANGED <<alive, mouse, visible, points, refill, tracked, owed>>

FadeEnds ==
  /\ ui.label = "fading"
  /\ ui' = [ui EXCEPT !.label = "hidden"]
  /\ UNCHANGED <<alive, mouse, visible, points, refill, tracked, owed>>

MoveTimer ==
  /\ ui.tooltipTimeout # None
  /\ \E steps \in 0 .. Glide :
       ui' = Move([ui EXCEPT !.tooltipTimeout = None], ui.tooltipTimeout, steps)
  /\ UNCHANGED <<alive, mouse, visible, points, refill, tracked, owed>>

Update ==
  \/ Redraw
  \/ \E s \in Series, show, redraw \in BOOLEAN : SetVisible(s, show, redraw)
  \/ \E p \in Changing \X Columns, redraw \in BOOLEAN : RemovePoint(p, redraw)
  \/ \E s \in Changing, redraw \in BOOLEAN : SetData(s, redraw)
  \/ Destroy

Next ==
  \/ \E to \in MousePlaces : MouseMoves(to)
  \/ Update
  \/ HideTimer
  \/ FadeEnds
  \/ MoveTimer

(* Timers fire and animations end.                                         *)
Fairness == WF_vars(HideTimer) /\ WF_vars(FadeEnds) /\ WF_vars(MoveTimer)

Spec == Init /\ [][Next]_vars /\ Fairness

-----------------------------------------------------------------------------
(* Properties                                                              *)

(* A hovered point exists, belongs to the hovered series, which is         *)
(* visible, is the only highlighted point, and its tooltip is readable: no *)
(* timer, fade or redraw of an earlier hover takes it away.  (setVisible,  *)
(* Point.destroy, setData and redraw against refresh and hide)             *)
HoverIsShown ==
  /\ ui.hot = {ui.hoverPoint} \ {None}
  /\ ui.hoverPoint # None =>
       /\ ui.hoverPoint \in points
       /\ SeriesOf(ui.hoverPoint) = ui.hoverSeries
       /\ ui.hoverSeries \in visible
       /\ ui.label = "shown" /\ ~ui.isHidden /\ ~ui.hideTimer

(* A tooltip that is not about to hide belongs to a mouse in the plot; the *)
(* exception is a change whose redraw is still owed, and then the mouse is *)
(* in the chart.  So the handlers of the container, of the document and of *)
(* the redraw together let no tooltip behind.                              *)
TooltipOwned ==
  (alive /\ ~ui.isHidden /\ ~ui.hideTimer) =>
    (mouse.at = "plot" \/ (owed /\ mouse.at # "out"))

(* When no step is pending, the tooltip rests at the hovered point in its  *)
(* present place, unless the last refresh found the tooltip in place and   *)
(* left a step running that was for another place: move() clears the       *)
(* pending step only to schedule the next.                                 *)
RestsWhereAsked ==
  (ui.hoverPoint # None /\ ui.tooltipTimeout = None /\ ~ui.leftover) =>
    (ui.now = ui.hoverPoint /\ ui.left = 0)

(* Only the hovered series and the series whose legend item the mouse is   *)
(* on are highlighted, in whatever order the browser calls the handlers.   *)
HighlightsMatch == ui.lit \subseteq {ui.hoverSeries, Item(mouse)}

(* Entering the line of a series shows the tooltip of its nearest point,   *)
(* whatever was hovered, hiding or fading before; not if that point was    *)
(* destroyed and the redraw is owed.                                       *)
EnterShows ==
  [][\A to \in MousePlaces :
       LET s == Tracker(to)
       IN (MouseMoves(to) /\ s \notin {None, Tracker(mouse)}
             /\ TooltipPoint(s, to.x) \in points) =>
            (ui'.hoverPoint = TooltipPoint(s, to.x) /\ ui'.label = "shown")]_vars

(* A destroyed chart has no timer and no animation left that would touch   *)
(* its label.                                                              *)
QuietAfterDestroy ==
  ~alive => (~ui.hideTimer /\ ui.tooltipTimeout = None /\ ui.label = "destroyed")

(* Once the mouse has left the chart for good and the program leaves the   *)
(* chart alone, the tooltip disappears.  (Every redraw starts the hide     *)
(* timer anew, so a chart that is redrawn faster than hideDelay keeps its  *)
(* tooltip.)                                                               *)
LeavingHides ==
  (<>[](mouse.at = "out") /\ <>[][~Update]_vars) =>
    <>[](ui.label \in {"hidden", "destroyed"})

=============================================================================

---------------------------- MODULE ChartRedraw ----------------------------
(***************************************************************************)
(* How a chart of web/js/highcharts.js keeps what it has drawn up to date. *)
(* Every change of the chart marks what it makes stale: a series, an axis, *)
(* the box around the plot, the legend.  redraw() does from these marks    *)
(* only what is needed: it scales the axes, renders the legend, computes   *)
(* the margins and draws axes and series.  Changes may be called with      *)
(* redraw = false and are then drawn by a later redraw.                    *)
(*                                                                         *)
(* The second part is the size.  The chart follows its container: resize   *)
(* events of the window start a timer that sets the size 100 ms later, the *)
(* program may set a size of its own, and while a size is being animated   *)
(* isResizing keeps redraws from scaling the axes.                         *)
(*                                                                         *)
(* The chart is the line chart of web/highcharts.html with ignoreHidden-   *)
(* Series, the default: a category axis x, one axis y, a legend at the     *)
(* side.  The data of a series are its y values at the categories 1, 2 and *)
(* so on; minima, ticks and padding are left out.  What is drawn is the    *)
(* record of the values it was drawn from.                                 *)
(*                                                                         *)
(* Methods that redraw call each other, so they are operators from the     *)
(* state c of the chart to the next one.                                   *)
(***************************************************************************)
EXTENDS Integers, Sequences, FiniteSets, FiniteSetsExt

CONSTANTS Series,      \* the series there may be
          Data,        \* the data a series may have, a bound
          Windows,     \* the values setExtremes() may give the maximum of x
          Sizes,       \* the sizes of the container and of the chart
          MaxResizing, \* bound on the animated resizes at one time
          Changing,    \* the series added, removed and given data, a bound
          MaxOwed,     \* bound on the changes without a redraw in a row
          None

(* Six points or more span the five intervals of minRange, below which the *)
(* x axis would be widened.  A line of up to 300 points is not cropped.    *)
ASSUME RedrawAssumption ==
  /\ IsFiniteSet(Series)
  /\ \A d \in Data : d \in Seq(Nat) /\ Len(d) \in 6 .. 300
  /\ Windows \subseteq Nat /\ \A w \in Windows : w > 5
  /\ Changing \subseteq Series
  /\ MaxResizing \in Nat /\ MaxOwed \in Nat
  /\ None \notin Nat /\ None \notin Sizes /\ None \notin Data

Axes == {"x", "y"}

VARIABLES
  c,       \* the chart
  reflow   \* what the chart knows of the size of its container

vars == <<c, reflow>>

Extremes == [Axes -> Nat \cup {None}]

(* The plot area: its size and what takes space beside it.                 *)
Plots == [size : Sizes, legend : SUBSET Series, labels : Nat \cup {None}]

Charts ==
  [series : SUBSET Series,
   visible : SUBSET Series,
   data : [Series -> Data \cup {None}],
   points : [Series -> Nat],      \* length of the array points
   gone : SUBSET Series,          \* series whose points are destroyed
   undrawn : SUBSET Series,       \* series added values or given a new array
                                  \* since they were drawn last (history)
   ext : Extremes,                \* max of the axes
   user : Extremes,               \* userMax
   oldUser : Extremes,            \* oldUserMax
   dirty : SUBSET Series,         \* series with isDirty
   axisDirty : SUBSET Axes,       \* axes with isDirty
   force : SUBSET Axes,           \* axes with forceRedraw
   stretch : SUBSET Axes,         \* axes whose len the next setAxisSize()
                                  \* will change
   isDirtyBox : BOOLEAN,
   isDirtyLegend : BOOLEAN,
   isResizing : 0 .. MaxResizing + 1,
   size : Sizes,
   plot : Plots,
   legend : SUBSET Series,        \* the items rendered last
   picture : [Series -> [data : Data, ext : Extremes, plot : Plots] \cup {None}],
   axisPicture : [Axes -> [max : Nat \cup {None}, plot : Plots] \cup {None}],
   owed : 0 .. MaxOwed,           \* changes not drawn yet (history)
   missed : SUBSET Axes]          \* axes a redraw should have scaled and
                                  \* did not because of isResizing (history)

Reflows ==
  [container : Sizes,
   recorded : Sizes,              \* containerWidth and containerHeight
   reflowTimeout : Sizes \cup {None},   \* the size a pending timer will set
   hasUserSize : BOOLEAN,
   overtaken : BOOLEAN]           \* the container was resized while a timer
                                  \* with its old size was pending and the
                                  \* event was ignored (history)

TypeOK == c \in Charts /\ reflow \in Reflows

-----------------------------------------------------------------------------
(* Axes                                                                    *)

MaxOf(S) == IF S = {} THEN None ELSE Max(S)

Drawn(k) == k.series \cap k.visible

(* The points getExtremes() of a series looks at when the maximum of x is  *)
(* max: up to the first one beyond it.  The x of the first point is 0, for *)
(* which the code reads the second one's; and null counts as 0.            *)
InReach(d, max) ==
  IF max = None THEN {1} ELSE {i \in DOMAIN d : i <= max \/ (i > 2 /\ i - 1 <= max)}

(* getSeriesExtremes() and setTickPositions(): the user's maximum or that  *)
(* of the visible series.                                                  *)
ExtremeOf(k, axis) ==
  IF k.user[axis] # None THEN k.user[axis]
  ELSE IF axis = "x" THEN MaxOf({Len(k.data[s]) : s \in Drawn(k)})
  ELSE MaxOf(UNION {{k.data[s][i] : i \in InReach(k.data[s], k.ext["x"])}
                      : s \in Drawn(k)})

(* Faulty variant: y is not scaled when only the range of x has changed.   *)
NeedsScaleAlone(k, axis) ==
  \/ axis \in k.stretch
  \/ k.series \cap k.dirty # {}
  \/ axis \in k.force
  \/ k.user[axis] # k.oldUser[axis]

(* The reasons setScale() has to do something                              *)
NeedsScale(k, axis) ==
  \/ axis \in k.stretch
  \/ k.series \cap k.dirty # {}
  \/ k.series # {} /\ "x" \in k.axisDirty
  \/ axis \in k.force
  \/ k.user[axis] # k.oldUser[axis]

SetScale(k, axis) ==
  LET max     == ExtremeOf(k, axis)
      changed == max # k.ext[axis] \/ axis \in k.stretch
  IN IF NeedsScale(k, axis)
       THEN [k EXCEPT !.force = @ \ {axis},
                      !.ext[axis] = max,
                      !.oldUser[axis] = k.user[axis],
                      !.stretch = @ \ {axis},
                      !.axisDirty = IF changed THEN @ \cup {axis} ELSE @,
                      !.missed = @ \ {axis}]
       ELSE k

-----------------------------------------------------------------------------
(* Redraw                                                                  *)

RenderLegend(k) ==
  IF k.isDirtyLegend THEN [k EXCEPT !.legend = k.series, !.isDirtyLegend = FALSE]
  ELSE k

Scaled(k) ==
  IF k.isResizing = 0 THEN SetScale(SetScale(k, "x"), "y") ELSE k

(* The room getOffset() finds for the labels of y depends on the maximum.  *)
LabelRoom(k) == k.ext["y"]

(* getMargins(), which gives the axes their lengths                        *)
GetMargins(k) ==
  [k EXCEPT !.plot = [size |-> k.size, legend |-> k.legend, labels |-> LabelRoom(k)],
            !.stretch = {}]

(* Axis.redraw() of both axes                                              *)
DrawAxes(k) ==
  [k EXCEPT !.axisPicture = [a \in Axes |-> [max |-> k.ext[a], plot |-> k.plot]],
            !.axisDirty = {},
            !.dirty = @ \cup k.series]

DrawChartBox(k) == [k EXCEPT !.isDirtyBox = FALSE]

DrawFrame(k) ==
  IF k.isDirtyBox \/ k.axisDirty # {} THEN DrawChartBox(DrawAxes(k)) ELSE k

GeneratePoints(k, drawing) ==
  [k EXCEPT !.points = [s \in Series |-> IF s \in drawing THEN Len(k.data[s]) ELSE @[s]],
            !.gone = @ \ drawing,
            !.undrawn = @ \ drawing]

(* Series.redraw() of the dirty series that are visible                    *)
DrawSeries(k) ==
  LET drawing == k.dirty \cap Drawn(k)
  IN [GeneratePoints(k, drawing) EXCEPT
       !.picture = [s \in Series |->
          IF s \in drawing THEN [data |-> k.data[s], ext |-> k.ext, plot |-> k.plot]
          ELSE @[s]],
       !.dirty = @ \ drawing]

Redrawn(k) == DrawSeries(DrawFrame(GetMargins(Scaled(RenderLegend(k)))))

(* What a change ends with: a redraw, or none with redraw = false.  During *)
(* an animated resize the redraw scales no axis.                           *)
Finish(k, redraw) ==
  /\ redraw \/ k.owed < MaxOwed
  /\ c' = IF ~redraw THEN [k EXCEPT !.owed = @ + 1]
          ELSE [Redrawn(k) EXCEPT
                 !.owed = 0,
                 !.missed = IF k.isResizing > 0 /\ \E a \in Axes : NeedsScale(k, a)
                              THEN Axes ELSE @]

Redraw == Finish(c, TRUE)

(* A chart whose axes and series have been created, before it is drawn     *)
Undrawn(d, size) ==
  [series |-> Series, visible |-> Series, data |-> d,
   points |-> [s \in Series |-> 0], gone |-> {}, undrawn |-> Series,
   ext |-> [a \in Axes |-> None], user |-> [a \in Axes |-> None],
   oldUser |-> [a \in Axes |-> None],
   dirty |-> Series, axisDirty |-> Axes, force |-> {}, stretch |-> Axes,
   isDirtyBox |-> TRUE, isDirtyLegend |-> TRUE, isResizing |-> 0, size |-> size,
   plot |-> [size |-> size, legend |-> {}, labels |-> None], legend |-> {},
   picture |-> [s \in Series |-> None], axisPicture |-> [a \in Axes |-> None],
   owed |-> 0, missed |-> {}]

Init ==
  \E d \in [Series -> Data], size \in Sizes :
    /\ c = Redrawn(Undrawn(d, size))
    /\ reflow = [container |-> size, recorded |-> size, reflowTimeout |-> None,
                 hasUserSize |-> FALSE, overtaken |-> FALSE]

-----------------------------------------------------------------------------
(* Changes of the chart                                                    *)

(* Faulty variant: a series that is hidden leaves the axes as they were.   *)
SetVisibleQuietly(s, show, redraw) ==
  /\ s \in c.series
  /\ Finish([c EXCEPT !.visible = IF show THEN @ \cup {s} ELSE @ \ {s},
                      !.picture[s] = IF show THEN @ ELSE None,
                      !.dirty = IF show THEN @ \cup {s} ELSE @,
                      !.isDirtyBox = TRUE], redraw)
  /\ UNCHANGED reflow

SetVisible(s, show, redraw) ==
  /\ s \in c.series
  /\ Finish([c EXCEPT !.visible = IF show THEN @ \cup {s} ELSE @ \ {s},
                      !.picture[s] = IF show THEN @ ELSE None,
                      !.dirty = @ \cup {s},
                      !.isDirtyBox = TRUE], redraw)
  /\ UNCHANGED reflow

(* setData() with as many values as the series has points updates these    *)
(* points; values that were added since they were made stay.  If they have *)
(* been destroyed, the first update throws.                                *)
UpdatedData(s, d) == d \o SubSeq(c.data[s], Len(d) + 1, Len(c.data[s]))

UpdatePoints(s, d, redraw) ==
  /\ s \in c.series
  /\ Len(d) = c.points[s] /\ s \notin c.gone
  /\ UpdatedData(s, d) \in Data
  /\ Finish([c EXCEPT !.data[s] = UpdatedData(s, d),
                      !.dirty = @ \cup {s}], redraw)
  /\ UNCHANGED reflow

(* setData() with another number of values destroys the points and leaves  *)
(* them in the array points until the series is drawn.                     *)
SetData(s, d, redraw) ==
  /\ s \in c.series
  /\ Len(d) # c.points[s]
  /\ Finish([c EXCEPT !.data[s] = d,
                      !.gone = IF c.points[s] > 0 THEN @ \cup {s} ELSE @,
                      !.undrawn = @ \cup {s},
                      !.dirty = @ \cup {s},
                      !.isDirtyBox = TRUE], redraw)
  /\ UNCHANGED reflow

(* addPoint() at the next category                                         *)
AddPoint(s, y, redraw) ==
  /\ s \in c.series
  /\ Append(c.data[s], y) \in Data
  /\ Finish([c EXCEPT !.data[s] = Append(@, y),
                      !.undrawn = @ \cup {s},
                      !.dirty = @ \cup {s}], redraw)
  /\ UNCHANGED reflow

(* Faulty variant: the Point object stays in the array points.             *)
RemovePointKept(s, redraw) ==
  LET left == SubSeq(c.data[s], 1, Len(c.data[s]) - 1)
  IN /\ s \in c.series \ c.gone
     /\ c.points[s] = Len(c.data[s])
     /\ left \in Data
     /\ Finish([c EXCEPT !.data[s] = left, !.dirty = @ \cup {s}], redraw)
     /\ UNCHANGED reflow

(* Point.remove() of the last point, if there is a Point object for it     *)
RemovePoint(s, redraw) ==
  LET left == SubSeq(c.data[s], 1, Len(c.data[s]) - 1)
  IN /\ s \in c.series \ c.gone
     /\ c.points[s] = Len(c.data[s])
     /\ left \in Data
     /\ Finish([c EXCEPT !.data[s] = left,
                         !.points[s] = @ - 1,
                         !.dirty = @ \cup {s}], redraw)
     /\ UNCHANGED reflow

(* Series.init() of a series that is created: bindAxes() and setData()     *)
Created(k, s, d) ==
  [k EXCEPT !.series = @ \cup {s},
            !.data[s] = d,
            !.points[s] = 0,
            !.undrawn = @ \cup {s},
            !.picture[s] = None,
            !.dirty = @ \cup {s},
            !.axisDirty = Axes,
            !.isDirtyBox = TRUE]

(* Series.destroy() with the marks of Series.remove()                      *)
Removed(k, s) ==
  [k EXCEPT !.series = @ \ {s},
            !.data[s] = None,
            !.points[s] = 0,
            !.gone = @ \ {s},
            !.undrawn = @ \ {s},
            !.picture[s] = None,
            !.dirty = @ \ {s},
            !.axisDirty = Axes,
            !.force = Axes,
            !.isDirtyLegend = TRUE,
            !.isDirtyBox = TRUE]

AddSeries(s, d, redraw) ==
  /\ s \notin c.series
  /\ Finish([Created(c, s, d) EXCEPT !.visible = @ \cup {s},
                                     !.isDirtyLegend = TRUE], redraw)
  /\ UNCHANGED reflow

RemoveSeries(s, redraw) ==
  /\ s \in c.series
  /\ Finish([Removed(c, s) EXCEPT !.visible = @ \ {s}], redraw)
  /\ UNCHANGED reflow

(* Series.update(): the series is created again from its options, with the *)
(* visibility and the data they have got.                                  *)
UpdateSeries(s, redraw) ==
  /\ s \in c.series
  /\ Finish(Created(Removed(c, s), s, c.data[s]), redraw)
  /\ UNCHANGED reflow

SetExtremes(w, redraw) ==
  /\ Finish([c EXCEPT !.user["x"] = w], redraw)
  /\ UNCHANGED reflow

(* Axis.init(): an axis that is created again has no extremes and no       *)
(* length until it is scaled.                                              *)
AxisCreated(k, a) == [k EXCEPT !.ext[a] = None, !.stretch = @ \cup {a}]

(* Axis.update()                                                           *)
UpdateAxis(a, redraw) ==
  /\ Finish([AxisCreated(c, a) EXCEPT !.isDirtyBox = TRUE], redraw)
  /\ UNCHANGED reflow

-----------------------------------------------------------------------------
(* Size                                                                    *)

(* setAxisSize() will find other lengths than before.                      *)
Stretched(k, size) == IF size # k.size THEN Axes ELSE k.stretch

(* setSize(): the axes are scaled one after the other, each marked before, *)
(* then everything is marked and drawn without scaling again.              *)
Resized(k, size) ==
  LET begun  == [k EXCEPT !.isResizing = @ + 1,
                          !.size = size,
                          !.stretch = Stretched(k, size)]
      scaled(j, axis) == SetScale([j EXCEPT !.axisDirty = @ \cup {axis}], axis)
      both   == scaled(scaled(begun, "x"), "y")
  IN [Redrawn(GetMargins([both EXCEPT !.dirty = k.series,
                                      !.isDirtyLegend = TRUE,
                                      !.isDirtyBox = TRUE]))
        EXCEPT !.owed = 0]

(* The resize of setSize(size, animation) is over at once if it is not     *)
(* animated, else when its timer fires.                                    *)
ResizedAtOnce(k, size) == [Resized(k, size) EXCEPT !.isResizing = @ - 1]

SetSize(size, animated) ==
  /\ animated => c.isResizing < MaxResizing
  /\ c' = IF animated THEN Resized(c, size) ELSE ResizedAtOnce(c, size)
  /\ reflow' = [reflow EXCEPT !.hasUserSize = TRUE]

EndResize ==
  /\ c.isResizing > 0
  /\ c' = [c EXCEPT !.isResizing = @ - 1]
  /\ UNCHANGED reflow

(* reflow() when a size of the program's own or a size known already keeps *)
(* it from doing anything, and when it records a new size                  *)
Ignored(r) ==
  [r EXCEPT !.overtaken = r.hasUserSize /\ r.reflowTimeout \notin {None, r.container}]

Recorded(r) == [r EXCEPT !.recorded = r.container, !.overtaken = FALSE]

HasWork(r) == ~r.hasUserSize /\ r.container # r.recorded

Laid(size) == [reflow EXCEPT !.container = size]

(* Faulty variant: a second event lets the timer of the first go on.       *)
ResizeWindowPending(size) ==
  /\ size # reflow.container
  /\ reflow' = IF HasWork(Laid(size))
                 THEN [Recorded(Laid(size)) EXCEPT
                         !.reflowTimeout = IF @ = None THEN size ELSE @]
                 ELSE Ignored(Laid(size))
  /\ UNCHANGED c

(* The window gets another size, and with it the container; the handler of *)
(* the resize event replaces the pending timer.                            *)
ResizeWindow(size) ==
  /\ size # reflow.container
  /\ reflow' = IF HasWork(Laid(size))
                 THEN [Recorded(Laid(size)) EXCEPT !.reflowTimeout = size]
                 ELSE Ignored(Laid(size))
  /\ UNCHANGED c

(* reflow() called by the program: the size is set at once.                *)
Reflow ==
  IF HasWork(reflow)
    THEN /\ c' = ResizedAtOnce(c, reflow.container)
         /\ reflow' = [Recorded(reflow) EXCEPT !.reflowTimeout = None]
    ELSE c' = c /\ reflow' = Ignored(reflow)

ReflowTimer ==
  /\ reflow.reflowTimeout # None
  /\ c' = ResizedAtOnce(c, reflow.reflowTimeout)
  /\ reflow' = [reflow EXCEPT !.reflowTimeout = None, !.hasUserSize = FALSE]

Change ==
  \E s \in Changing, redraw \in BOOLEAN :
    \/ \E d \in Data : UpdatePoints(s, d, redraw) \/ SetData(s, d, redraw)
    \/ \E d \in Data : AddPoint(s, d[Len(d)], redraw)
    \/ RemovePoint(s, redraw)
    \/ \E d \in Data : AddSeries(s, d, redraw)
    \/ RemoveSeries(s, redraw)
    \/ UpdateSeries(s, redraw)

ChangeOfAxes ==
  \E redraw \in BOOLEAN :
    \/ \E w \in Windows \cup {None} : SetExtremes(w, redraw)
    \/ \E a \in Axes : UpdateAxis(a, redraw)

Next ==
  \/ Redraw /\ UNCHANGED reflow
  \/ \E s \in Series, show, redraw \in BOOLEAN : SetVisible(s, show, redraw)
  \/ Change
  \/ ChangeOfAxes
  \/ \E size \in Sizes, animated \in BOOLEAN : SetSize(size, animated)
  \/ EndResize
  \/ \E size \in Sizes : ResizeWindow(size)
  \/ Reflow
  \/ ReflowTimer

Spec == Init /\ [][Next]_vars

-----------------------------------------------------------------------------
(* Properties                                                              *)

(* What a chart that has nothing to catch up with shows: the extremes of   *)
(* its axes, its margins, and the pictures drawn from them and the data.   *)
Current(k) ==
  LET plot == [size |-> k.size, legend |-> k.series, labels |-> LabelRoom(k)]
  IN /\ k.plot = plot
     /\ \A a \in Axes : /\ k.ext[a] = ExtremeOf(k, a)
                        /\ k.axisPicture[a] = [max |-> k.ext[a], plot |-> plot]
     /\ \A s \in Drawn(k) :
          k.picture[s] = [data |-> k.data[s], ext |-> k.ext, plot |-> plot]

(* Whatever was changed in whatever order, with or without redraws in      *)
(* between: if the last change was drawn, axes, margins and every visible  *)
(* series are drawn from present values.  The exception is a redraw that   *)
(* falls into an animated resize, until its axes are scaled.               *)
RedrawnIsCurrent == (c.owed = 0 /\ c.missed = {}) => Current(c)

(* Marks are never lost: a redraw would bring the chart up to date at any  *)
(* moment, however many changes it still owes.                             *)
MarksSuffice ==
  (c.isResizing = 0 /\ c.missed = {}) => Current(Redrawn(c))

(* setData() and Point.remove() act on the points of the last drawing.     *)
(* Those of a series whose values were not added to or replaced since      *)
(* then, hidden or not and whatever else is owed, are alive and those of   *)
(* its data.  Otherwise they are all destroyed or the first ones of its    *)
(* data, which is why a setData() may throw or keep added values; a redraw *)
(* puts an end to that for the visible series.                             *)
PointsAreLive ==
  \A s \in c.series :
    /\ s \notin c.gone => c.points[s] <= Len(c.data[s])
    /\ s \notin c.undrawn => s \notin c.gone /\ c.points[s] = Len(c.data[s])
    /\ c.owed = 0 /\ s \in c.visible => s \notin c.undrawn

(* A chart that has no size of the program's own has the size of its       *)
(* container or a timer that will set just this one; except after a resize *)
(* that was ignored for a size of the program's own while a timer with     *)
(* another size was pending.  (reflow, setSize and reflowTimeout)          *)
SizeFollows ==
  (~reflow.hasUserSize /\ ~reflow.overtaken) =>
    reflow.container =
      IF reflow.reflowTimeout # None THEN reflow.reflowTimeout ELSE c.size

=============================================================================
